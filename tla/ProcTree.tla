------------------------------ MODULE ProcTree ------------------------------
(***************************************************************************)
(* One restart of the application, over the process table of the system:   *)
(* ps_tree_get_pid_arr() lists the tree of the child with pstree,          *)
(* process_kill_subtree() sends SIGTERM to each pid of the list, waitpid() *)
(* collects the child, and process_start_child() forks the next one.  All  *)
(* the while the application forks, makes threads and exits, orphans go to *)
(* init, and unrelated processes come and go and take the numbers that     *)
(* became free: the numbers of threads are those of processes.             *)
(***************************************************************************)
EXTENDS SequencesExt, Naturals, FiniteSets

CONSTANTS
    Pid,       \* the ids of processes and threads
    Cmon,      \* the pid of cmon, as a parent
    InitProc,  \* the pid of init, as a parent
    NoPid,     \* -1
    Group,     \* a number that hits cmon: 0, its process group, or its pid
    Strays,    \* numbers spelled by digits in the names of the application,
               \* or left of a pid by the end of a line of 132 columns
    MaxSpelled,\* bound on such numbers in one listing
    MaxPids,   \* MAX_INT_ARRAY_SIZE: 5000
    Faults     \* what may fail: "snapshot" (fork of pstree), "digits" (a
               \* number of ten digits or more), "start" (fork)

ASSUME PidAssumption ==
    /\ Cmon \notin Pid /\ InitProc \notin Pid /\ NoPid \notin Pid
    /\ Group \notin Pid /\ Cmon # InitProc
    /\ IsFiniteSet(Pid) /\ Strays \subseteq Pid \union {Group}
    /\ MaxPids \in Nat

VARIABLES
    pc,       \* where cmon is
    root,     \* child_pid
    status,   \* [pid -> "free", "run", "zombie" or "thread"]
    parent,   \* [pid -> its parent; of a thread: its process]
    kin,      \* [pid -> "app" (this instance), "old" (an earlier one), "other"]
    pids,     \* the pids still to be signalled
    termed,   \* the running processes that have been sent SIGTERM
    listed,   \* the pids pstree listed and that are still the same process
    overlong  \* had the list more numbers than the array takes?

procVars == <<status, parent, kin>>
vars == <<pc, root, status, parent, kin, pids, termed, listed, overlong>>

Free       == {p \in Pid : status[p] = "free"}
Running    == {p \in Pid : status[p] = "run"}
Members(k) == {p \in Running : kin[p] = k}

ChildrenOf(p) == {q \in Pid : status[q] \in {"run", "zombie"} /\ parent[q] = p}

ThreadsOf(p) == {q \in Pid : status[q] = "thread" /\ parent[q] = p}

(* The process p and its descendants.                                      *)
Tree(p) ==
    {q \in Pid : \A S \in SUBSET Pid :
        p \in S /\ (\A s \in S : ChildrenOf(s) \subseteq S) => q \in S}

-----------------------------------------------------------------------------
Init ==
    /\ pc = "start"
    /\ root = NoPid
    /\ status = [p \in Pid |-> "free"]
    /\ parent = [p \in Pid |-> InitProc]
    /\ kin = [p \in Pid |-> "other"]
    /\ pids = <<>>
    /\ termed = {}
    /\ listed = {}
    /\ overlong = FALSE

(* An event triggers a restart.                                            *)
Trigger ==
    /\ pc = "idle"
    /\ pc' = "snapshot"
    /\ UNCHANGED <<root, procVars, pids, termed, listed, overlong>>

(* What pstree prints of a tree: lines end at column 132, so that only the *)
(* ancestors of what is printed are sure to be.                            *)
Printed(p) ==
    {S \in SUBSET Tree(p) : p \in S /\ \A q \in S \ {p} : parent[q] \in S}

(* Numbers of the names in it and of cut lines.                            *)
Spelled == {T \in SUBSET Strays : Cardinality(T) <= MaxSpelled}

(* The numbers read from it for the processes S and the threads H: each of *)
(* them once, at the positions D, a process before its children and its    *)
(* threads; and, between them, the numbers T of names and cut lines.       *)
Outputs(S, H, T) ==
    LET n == Cardinality(S) + Cardinality(H) + Cardinality(T)
    IN {s \in [1..n -> S \union H \union T] : \E D \in SUBSET (1..n) :
           /\ Cardinality(D) = Cardinality(S) + Cardinality(H)
           /\ {s[i] : i \in D} = S \union H
           /\ {s[i] : i \in (1..n) \ D} = T
           /\ \A i, j \in D : parent[s[j]] = s[i] => i < j}

(* pstree prints the tree of the child, and every number in its output is  *)
(* taken for a pid.  Of child_pid -1 it prints nothing.  One number too    *)
(* many, and cmon_int_arr_add() gives NULL for an array, and for NULL.     *)
Snapshot ==
    /\ pc = "snapshot"
    /\ IF root = NoPid
       THEN pids' = <<>> /\ listed' = {} /\ overlong' = FALSE
       ELSE \E S \in Printed(root), T \in Spelled :
            \E H \in SUBSET UNION {ThreadsOf(p) : p \in S} : \E s \in Outputs(S, H, T) :
               /\ listed' = S
               /\ IF Len(s) > MaxPids THEN pids' = <<>> /\ overlong' = TRUE
                                     ELSE pids' = s /\ overlong' = FALSE
    /\ pc' = "signal"
    /\ UNCHANGED <<root, procVars, termed>>

(* A number of ten digits does not fit pid_buff, nor does a longer one.    *)
(* Nothing is said of what follows.                                        *)
SnapshotOverruns ==
    /\ "digits" \in Faults
    /\ pc = "snapshot"
    /\ root # NoPid
    /\ pc' = "overrun"
    /\ UNCHANGED <<root, procVars, pids, termed, listed, overlong>>

(* pstree cannot be forked.  The write end of the pipe stays open in cmon  *)
(* itself, so its read() never sees the end.                               *)
SnapshotFails ==
    /\ "snapshot" \in Faults
    /\ pc = "snapshot"
    /\ pc' = "hung"
    /\ UNCHANGED <<root, procVars, pids, termed, listed, overlong>>

(* kill() of a thread's number is a signal to its process.                 *)
Target(n) == Running \intersect (IF n \in Pid /\ status[n] = "thread" THEN {parent[n]} ELSE {n})

\* Mutant of SignalLast: a pid that is gone ends the loop.
SignalBreaks ==
    /\ pc = "signal"
    /\ pids # <<>> /\ Last(pids) # Group
    /\ termed' = termed \union Target(Last(pids))
    /\ pids' = IF Last(pids) \in Running THEN Front(pids) ELSE <<>>
    /\ UNCHANGED <<pc, root, procVars, listed, overlong>>

\* Mutant of SignalLast: from the first pid to the last.
SignalFirst ==
    /\ pc = "signal"
    /\ pids # <<>> /\ Head(pids) # Group
    /\ termed' = termed \union Target(Head(pids))
    /\ pids' = Tail(pids)
    /\ UNCHANGED <<pc, root, procVars, listed, overlong>>

(* kill(): from the last pid of the list to the first.                     *)
SignalLast ==
    /\ pc = "signal"
    /\ pids # <<>> /\ Last(pids) # Group
    /\ termed' = termed \union Target(Last(pids))
    /\ pids' = Front(pids)
    /\ UNCHANGED <<pc, root, procVars, listed, overlong>>

(* The signal reaches cmon as well.  Nothing is said of what follows.      *)
SignalGroup ==
    /\ pc = "signal"
    /\ pids # <<>> /\ Last(pids) = Group
    /\ pc' = "killed"
    /\ UNCHANGED <<root, procVars, pids, termed, listed, overlong>>

\* Mutant of SignalDone: the loop ends before index 0 ("i > 0").
SignalDoneEarly ==
    /\ pc = "signal"
    /\ Len(pids) <= 1
    /\ pids' = <<>>
    /\ pc' = "wait"
    /\ UNCHANGED <<root, procVars, termed, listed, overlong>>

(* The loop is over, or there was no array, and so no loop.                *)
SignalDone ==
    /\ pc = "signal"
    /\ pids = <<>>
    /\ pc' = "wait"
    /\ UNCHANGED <<root, procVars, pids, termed, listed, overlong>>

\* Mutant of Wait: it does not block (WNOHANG).
WaitNot ==
    /\ pc = "wait"
    /\ status' = IF root # NoPid /\ status[root] = "zombie"
                 THEN [status EXCEPT ![root] = "free"] ELSE status
    /\ pc' = "start"
    /\ listed' = listed \ {root}
    /\ UNCHANGED <<root, parent, kin, pids, termed, overlong>>

(* waitpid(child_pid) collects the ended child, or has none to wait for.   *)
Wait ==
    /\ pc = "wait"
    /\ \/ /\ root = NoPid
          /\ UNCHANGED status
       \/ /\ root # NoPid
          /\ status[root] = "zombie"
          /\ status' = [status EXCEPT ![root] = "free"]
    /\ pc' = "start"
    /\ listed' = listed \ {root}
    /\ UNCHANGED <<root, parent, kin, pids, termed, overlong>>

(* The processes of this instance that are left belong to an old one now.  *)
Aged == [p \in Pid |-> IF kin[p] = "app" THEN "old" ELSE kin[p]]

(* process_start_child(): fork() gives the application any pid that is     *)
(* free, and child_pid is that pid.                                        *)
Start(p) ==
    /\ pc = "start"
    /\ p \in Free
    /\ pc' = "idle"
    /\ root' = p
    /\ status' = [status EXCEPT ![p] = "run"]
    /\ parent' = [parent EXCEPT ![p] = Cmon]
    /\ kin' = [Aged EXCEPT ![p] = "app"]
    /\ listed' = {} /\ overlong' = FALSE
    /\ UNCHANGED <<pids, termed>>

\* Mutant of StartFails: child_pid keeps its value.
StartFailsStale ==
    /\ "start" \in Faults
    /\ pc = "start"
    /\ pc' = "idle"
    /\ kin' = Aged
    /\ listed' = {} /\ overlong' = FALSE
    /\ UNCHANGED <<root, status, parent, pids, termed>>

(* When fork() fails child_pid is -1.                                      *)
StartFails ==
    /\ "start" \in Faults
    /\ pc = "start"
    /\ pc' = "idle"
    /\ root' = NoPid
    /\ kin' = Aged
    /\ listed' = {} /\ overlong' = FALSE
    /\ UNCHANGED <<status, parent, pids, termed>>

-----------------------------------------------------------------------------
(* A process of the application forks.                                     *)
Fork(p, q) ==
    /\ p \in Members("app") \union Members("old")
    /\ q \in Free
    /\ status' = [status EXCEPT ![q] = "run"]
    /\ parent' = [parent EXCEPT ![q] = p]
    /\ kin' = [kin EXCEPT ![q] = kin[p]]
    /\ UNCHANGED <<pc, root, pids, termed, listed, overlong>>

(* ... or makes a thread, ...                                              *)
MakeThread(p, q) ==
    /\ p \in Members("app") \union Members("old")
    /\ q \in Free
    /\ status' = [status EXCEPT ![q] = "thread"]
    /\ parent' = [parent EXCEPT ![q] = p]
    /\ UNCHANGED <<pc, root, kin, pids, termed, listed, overlong>>

(* ... which ends.                                                         *)
EndThread(q) ==
    /\ status[q] = "thread"
    /\ status' = [status EXCEPT ![q] = "free"]
    /\ UNCHANGED <<pc, root, parent, kin, pids, termed, listed, overlong>>

(* A process ends with its threads, by itself or because of SIGTERM.  Its  *)
(* children go to init, which collects the ended ones.                     *)
Exit(p) ==
    LET orphans == ChildrenOf(p)
        gone == {q \in orphans : status[q] = "zombie"} \union ThreadsOf(p)
                  \union (IF parent[p] = InitProc THEN {p} ELSE {})
    IN /\ p \in Running
       /\ status' = [q \in Pid |-> IF q \in gone THEN "free"
                                   ELSE IF q = p THEN "zombie" ELSE status[q]]
       /\ parent' = [q \in Pid |-> IF q \in orphans THEN InitProc ELSE parent[q]]
       /\ termed' = termed \ {p}
       /\ listed' = listed \ gone
       /\ UNCHANGED <<pc, root, kin, pids, overlong>>

(* A process of the application collects a child of its own.               *)
Reap(q) ==
    /\ status[q] = "zombie"
    /\ parent[q] \in Running
    /\ status' = [status EXCEPT ![q] = "free"]
    /\ listed' = listed \ {q}
    /\ UNCHANGED <<pc, root, parent, kin, pids, termed, overlong>>

(* An unrelated process gets a free pid.                                   *)
Stranger(q) ==
    /\ q \in Free
    /\ status' = [status EXCEPT ![q] = "run"]
    /\ parent' = [parent EXCEPT ![q] = InitProc]
    /\ kin' = [kin EXCEPT ![q] = "other"]
    /\ UNCHANGED <<pc, root, pids, termed, listed, overlong>>

-----------------------------------------------------------------------------
CmonStep ==
    \/ Trigger
    \/ Snapshot \/ SnapshotFails \/ SnapshotOverruns
    \/ SignalLast \/ SignalGroup \/ SignalDone
    \/ Wait
    \/ (\E p \in Pid : Start(p)) \/ StartFails

Environment ==
    \/ \E p, q \in Pid : Fork(p, q) \/ MakeThread(p, q)
    \/ \E q \in Pid : EndThread(q)
    \/ \E p \in Pid : Exit(p)
    \/ \E q \in Pid : Reap(q)
    \/ \E q \in Pid : Stranger(q)

Next == CmonStep \/ Environment

Spec == Init /\ [][Next]_vars

(* A restart that has begun is carried on, and a process that was sent     *)
(* SIGTERM ends (its default disposition).                                 *)
Fairness ==
    /\ WF_vars(pc # "idle" /\ CmonStep)
    /\ \A p \in Pid : WF_vars(p \in termed /\ Exit(p))

FairSpec == Spec /\ Fairness

-----------------------------------------------------------------------------
TypeOK ==
    /\ pc \in {"idle", "snapshot", "signal", "wait", "start", "hung", "overrun", "killed"}
    /\ root \in Pid \union {NoPid}
    /\ status \in [Pid -> {"free", "run", "zombie", "thread"}]
    /\ parent \in [Pid -> Pid \union {Cmon, InitProc}]
    /\ kin \in [Pid -> {"app", "old", "other"}]
    /\ pids \in Seq(Pid \union {Group})
    /\ termed \subseteq Running
    /\ listed \subseteq Pid
    /\ overlong \in BOOLEAN

(* cmon has at most one child, it is the process child_pid names, and      *)
(* there is none when the next one is forked.  So the pid it signals and   *)
(* waits for is never another process's.  (inotify.c 80-89, process.c 12-32*)
(* against pid reuse, exits and failed forks.)                             *)
OneRoot ==
    ChildrenOf(Cmon) = IF pc = "start" \/ root = NoPid THEN {} ELSE {root}

(* waitpid() blocks only on a child that is gone or has been sent SIGTERM, *)
(* however the list was ordered and whatever died meanwhile, if the list   *)
(* had no more than MaxPids (5000) numbers.  Of a longer one there is no   *)
(* array, nobody is signalled, and waitpid() blocks all the same.          *)
(* (inotify.c 80-82, process.c 34-51, c_int_array.c 37-45.)                *)
WaitJustified ==
    pc = "wait" /\ root # NoPid /\ ~overlong => status[root] = "zombie" \/ root \in termed

(* When the next instance is about to start, every process of the last one *)
(* that pstree listed, if it listed no more than MaxPids numbers, has      *)
(* ended or has been sent SIGTERM.  (process.c 45-49, the whole array.)    *)
ListedAreTermed ==
    pc \in {"wait", "start"} /\ ~overlong =>
        \A p \in listed : status[p] = "run" => p \in termed

(* A process is sent SIGTERM only after all its listed children: none of   *)
(* them is orphaned by the restart before it has been told to end.  The    *)
(* exceptions are a process whose pid a name or a cut line spells, and one *)
(* that has threads: pstree -p lists them too, after the process and among *)
(* its children, and kill() of a thread is one of the process.  (process.c *)
(* 45, last to first; ps_tree.c 37.)                                       *)
ChildrenFirst ==
    [][\A p \in termed' \ (termed \union Strays) :
          ThreadsOf(p) = {} =>
             \A q \in ChildrenOf(p) \intersect listed :
                status[q] = "run" => q \in termed']_vars

(* The same while the list is being gone through: a listed process that    *)
(* runs has been told, or is still to come; and the child itself is among  *)
(* them.  A listed pid is the process that was listed, not a later one.    *)
Pending(p) == \E i \in DOMAIN pids : pids[i] = p

ListInv ==
    /\ pc \in {"idle", "snapshot"} => listed = {}
    /\ pc \in {"idle", "snapshot", "wait", "start"} \/ overlong => pids = <<>>
    /\ \A p \in listed : status[p] \in {"run", "zombie"}
    /\ \A p \in listed : status[p] = "run" => p \in termed \/ Pending(p) \/ overlong
    /\ pc \in {"signal", "wait"} /\ root # NoPid => root \in listed

(* A listed process that is not told yet comes behind its parent in what   *)
(* is left of the list: the parent that is signalled, which is the last of *)
(* it, has no such child.  (A name may spell the parent's pid anywhere.)   *)
InOrder ==
    \A q \in listed :
        status[q] = "run" /\ q \notin termed /\ parent[q] \in Pid \ Strays =>
            \A i \in DOMAIN pids : pids[i] = parent[q] =>
                \E j \in DOMAIN pids : i < j /\ pids[j] = q

IInv == TypeOK /\ OneRoot /\ ListInv /\ InOrder

(* cmon waits for an application that nobody has told to end.              *)
Unheard == pc = "wait" /\ overlong /\ status[root] = "run"

(* A restart that has begun ends with cmon idle again, whatever the        *)
(* application forks meanwhile: waitpid() does not wait for ever.  The     *)
(* exceptions: pstree could not be forked, a name spells ten digits or the *)
(* group of cmon, or the list had more than MaxPids (5000) numbers and the *)
(* application goes on by itself.  (inotify.c 80-89, process.c 35-38.)     *)
RestartCompletes ==
    pc = "snapshot" ~> pc \in {"idle", "hung", "overrun", "killed"} \/ Unheard

(* ps_tree.h:14-15 "the PID'S of the child processes tree including the    *)
(* child PID": what is listed is that tree.  (ps_tree.c 71-73 takes any    *)
(* run of digits for a pid, those in a process name too.)                  *)
SnapshotIsTree ==
    [][pc = "snapshot" /\ pc' = "signal" =>
          Range(pids') = IF root = NoPid THEN {} ELSE Tree(root)]_vars

(* The process table implements LiveReload, with no edits in it: at most   *)
(* one instance, started only when the last is collected.                  *)
Live == INSTANCE LiveReload WITH
    Files <- {},
    dirty <- {},
    app   <- IF pc = "start" \/ root = NoPid THEN "stopped"
             ELSE IF status[root] = "run" THEN "up" ELSE "exited"

OneInstance == Live!Spec

=============================================================================
