----------------------------- MODULE CmonSystem -----------------------------
(***************************************************************************)
(* cmon as a whole: the event loop of Watcher over the process table of    *)
(* ProcTree.  The walk, the events and the edits are steps of Watcher; the *)
(* list, the signals, the wait and the fork are those of ProcTree, one     *)
(* process at a time, while the user edits and the application forks and   *)
(* exits.  That together they are what Watcher says of a restart is not    *)
(* assumed: it is WatcherOfCmon.                                           *)
(***************************************************************************)
EXTENDS SequencesExt, Naturals, FiniteSets

CONSTANTS
    \* of EventFilter and Watcher
    IgnoreFiles, WatchExtNames, CwdTerminated, ShiftedExt,
    Files, Dirs, DirOf, NameOf, InitialDirs, SkippedDirs, Removable, Overflow,
    MaxQueuedEvents, BufferEvents, MaxEdits, MaxRefusals,
    \* of ProcTree
    Pid, CmonPid, InitProc, NoPid, Group, Strays, MaxSpelled, MaxPids,
    \* of both
    Faults

(* What the two modules ask of their constants.                            *)
ASSUME SystemAssumption ==
    /\ CmonPid \notin Pid /\ InitProc \notin Pid /\ NoPid \notin Pid
    /\ Group \notin Pid /\ CmonPid # InitProc
    /\ IsFiniteSet(Pid) /\ Strays \subseteq Pid \union {Group}
    /\ DirOf \in [Files -> Dirs] /\ InitialDirs \subseteq Dirs
    /\ Overflow \notin Files /\ IsFiniteSet(Files)
    /\ MaxQueuedEvents \in Nat \ {0} /\ BufferEvents \in Nat \ {0}
    /\ MaxEdits \in Nat /\ MaxRefusals \in Nat /\ MaxPids \in Nat

VARIABLES
    pc,  \* a place of Watcher, "overrun" or "killed"
    dirs, watched, refused, version, base, queue, batch, lost, starts,  \* as in Watcher
    root, status, parent, kin, pids, termed, listed, overlong           \* as in ProcTree

eventVars == <<dirs, watched, refused, version, base, queue, batch, lost, starts>>
procVars  == <<root, status, parent, kin, pids, termed, listed, overlong>>
vars == <<pc, eventVars, procVars>>

Restart  == {"snapshot", "signal", "wait", "start", "hung", "overrun", "killed"}
Handling == {"start", "crashed", "poll", "dispatch", "snapshot"}

(* The restart as ProcTree sees it: it is idle while events are handled.   *)
P == INSTANCE ProcTree WITH
    Cmon <- CmonPid,
    pc <- IF pc \in {"poll", "dispatch"} THEN "idle"
          ELSE IF pc \in {"walk", "crashed"} THEN "start" ELSE pc

(* The restart as Watcher sees it: the signals count as sent when that to  *)
(* the child is, if there is an array of pids, and the child is the process*)
(* that child_pid names.  A list may always have too many pids.            *)
Signalled ==
    /\ ~overlong
    /\ pc = "wait" \/ (pc \in {"signal", "killed"} /\ root # NoPid /\ ~P!Pending(root))

W == INSTANCE Watcher WITH
    Faults <- Faults \union {"list"},
    pc <- IF Signalled THEN "wait" ELSE IF pc = "wait" THEN "unheard"
          ELSE IF pc = "killed" THEN "signal" ELSE IF pc = "overrun" THEN "snapshot"
          ELSE pc,
    child <- IF pc \in {"walk", "crashed", "start"} \/ root = NoPid THEN "none"
             ELSE IF status[root] = "run" THEN "running" ELSE "dead",
    sigterm <- Signalled /\ root \in termed

-----------------------------------------------------------------------------
Init ==
    /\ pc = "walk" /\ dirs = InitialDirs /\ watched = {} /\ refused = {}
    /\ version = [f \in Files |-> 0] /\ base = [f \in Files |-> 0]
    /\ queue = <<>> /\ batch = <<>> /\ lost = {} /\ starts = 0
    /\ P!Init

(* The walk, and the turns of the event loop up to a restart.              *)
Reach(d) ==
    /\ UNCHANGED <<pc, procVars>>
    /\ W!Reach(d)

Events ==
    \E q \in Handling :
        /\ pc' = q /\ UNCHANGED procVars
        /\ W!WalkDone \/ W!WalkCrashes \/ W!Read \/ W!Skip \/ W!Restart

(* A restart: pstree, the signals one at a time, waitpid ...               *)
Replace ==
    \E q \in Restart :
        /\ pc' = q
        /\ P!Snapshot \/ P!SnapshotFails \/ P!SnapshotOverruns
             \/ P!SignalLast \/ P!SignalGroup \/ P!SignalDone \/ P!Wait
        /\ UNCHANGED eventVars

(* ... and the fork of the application, after which the rest of the batch  *)
(* is handled.                                                             *)
Fork ==
    /\ pc = "start"
    /\ pc' = IF batch = <<>> THEN "poll" ELSE "dispatch"
    /\ \/ /\ \E p \in Pid : P!Start(p)
          /\ base' = version /\ lost' = {} /\ starts' = starts + 1
       \/ P!StartFails /\ UNCHANGED <<base, lost, starts>>
    /\ UNCHANGED <<dirs, watched, refused, version, queue, batch>>

User ==
    /\ UNCHANGED <<pc, procVars>>
    /\ \/ \E f \in Files : W!Edit(f)
       \/ \E d \in Dirs : W!MakeDir(d) \/ W!RemoveDir(d)

Processes == UNCHANGED <<pc, eventVars>> /\ P!Environment

Loop == Events \/ Replace \/ Fork

Next == (\E d \in Dirs : Reach(d)) \/ Loop \/ User \/ Processes

Spec == Init /\ [][Next]_vars

(* As in Watcher, with the default disposition of SIGTERM for each process.*)
FairSpec ==
    /\ Spec
    /\ WF_vars(Loop)
    /\ WF_vars(\E d \in W!ToWatch \ refused : Reach(d))
    /\ \A p \in Pid : WF_vars(p \in termed /\ UNCHANGED <<pc, eventVars>> /\ P!Exit(p))

-----------------------------------------------------------------------------
(* The list, the signals, the exits and the pids that are given again      *)
(* amount to the restart of Watcher: one signal that reaches the running   *)
(* application, a wait that ends with it, a start with none left; edits    *)
(* and events go on meanwhile.  (inotify.c 74-90 over process.c, ps_tree.c)*)
WatcherOfCmon == W!Spec

(* An edit is answered in the end by an application that has it, whatever  *)
(* the processes do: the exceptions are those of Watcher, a name that      *)
(* spells ten digits, and one that spells the group or the pid of cmon.    *)
(* (main.c 53-65, inotify.c 52-94.)                                        *)
EditsReach ==
    \A f \in W!Relevant :
        W!Stale(f) ~> ~W!Stale(f) \/ W!Unanswerable(f) \/ pc \in {"overrun", "killed"}

=============================================================================
