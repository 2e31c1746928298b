----------------------------- MODULE LiveReload -----------------------------
(***************************************************************************)
(* What cmon promises its user, with the file events, the queue and the    *)
(* processes left out: one instance of the application at a time, and      *)
(* never for long an instance that started before the last edit.           *)
(***************************************************************************)
CONSTANT Files   \* the files whose edits count

VARIABLES
    dirty,       \* files edited since the application last started
    app          \* "up", "exited" by itself or on request, "stopped" (collected)

vars == <<dirty, app>>

TypeOK == dirty \subseteq Files /\ app \in {"up", "exited", "stopped"}

Init == dirty = {} /\ app = "stopped"

(* The user saves a file.                                                  *)
Edit(f) == dirty' = dirty \union {f} /\ UNCHANGED app

(* The application ends.                                                   *)
Exit == app = "up" /\ app' = "exited" /\ UNCHANGED dirty

(* The ended application is collected: it is certain that it is gone.      *)
Collect == app = "exited" /\ app' = "stopped" /\ UNCHANGED dirty

(* A new instance starts, with everything saved so far.                    *)
Start == app = "stopped" /\ app' = "up" /\ dirty' = {}

Next == (\E f \in Files : Edit(f)) \/ Exit \/ Collect \/ Start

Spec == Init /\ [][Next]_vars

(* An edit makes the running instance end and be collected; a stopped one  *)
(* is started again.  An instance that exits with nothing edited may stay  *)
(* down.                                                                   *)
Serve == dirty # {} /\ (Exit \/ Collect)

FairSpec == Spec /\ WF_vars(Serve) /\ WF_vars(Start)

=============================================================================
