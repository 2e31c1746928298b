-------------------------- MODULE CmonSystemProofs --------------------------
(***************************************************************************)
(* For every set of files, directories and pids: cmon over the process     *)
(* table is the cmon of Watcher, so that what is proved of Watcher, where  *)
(* the application is one variable, holds where it is a tree of processes  *)
(* whose pids come and go.                                                 *)
(***************************************************************************)
EXTENDS CmonSystem, TLAPS

PP == INSTANCE ProcTreeProofs WITH
    Cmon <- CmonPid,
    pc <- IF pc \in {"poll", "dispatch"} THEN "idle"
          ELSE IF pc \in {"walk", "crashed"} THEN "start" ELSE pc

WP == INSTANCE WatcherProofs WITH
    Faults <- Faults \union {"list"},
    pc <- IF Signalled THEN "wait" ELSE IF pc = "wait" THEN "unheard"
          ELSE IF pc = "killed" THEN "signal" ELSE IF pc = "overrun" THEN "snapshot"
          ELSE pc,
    child <- IF pc \in {"walk", "crashed", "start"} \/ root = NoPid THEN "none"
             ELSE IF status[root] = "run" THEN "running" ELSE "dead",
    sigterm <- Signalled /\ root \in termed

(* The constants are as the two modules ask.                               *)
LEMMA ProcTreeConstants == PP!PidAssumption /\ PP!IsFiniteSet(Pid)
BY SystemAssumption DEF PP!PidAssumption, PP!IsFiniteSet, IsFiniteSet

LEMMA WatcherConstants ==
    WP!FilesAssumption /\ WP!BoundsAssumption /\ WP!IsFiniteSet(Files)
BY SystemAssumption
DEF WP!FilesAssumption, WP!BoundsAssumption, WP!IsFiniteSet, IsFiniteSet

-----------------------------------------------------------------------------
(* What ProcTreeProofs shows of the process table: its invariant, ...      *)
LEMMA TableInit == P!Init => P!IInv
<1>1. PP!Init => PP!IInv
  BY SystemAssumption, ProcTreeConstants, PP!InitIInv
<1>2. QED
  BY <1>1
  DEF PP!Init, PP!IInv, PP!TypeOK, PP!OneRoot, PP!ListInv, PP!InOrder, PP!Pending,
      PP!Running, PP!ChildrenOf,
      P!Init, P!IInv, P!TypeOK, P!OneRoot, P!ListInv, P!InOrder, P!Pending,
      P!Running, P!ChildrenOf

LEMMA TableNext == P!IInv /\ [P!Next]_(P!vars) => P!IInv'
<1>1. PP!IInv /\ [PP!Next]_(PP!vars) => PP!IInv'
  BY SystemAssumption, ProcTreeConstants, PP!NextIInv
<1>2. P!IInv <=> PP!IInv
  BY DEF PP!IInv, PP!TypeOK, PP!OneRoot, PP!ListInv, PP!InOrder, PP!Pending, PP!Running,
         PP!ChildrenOf,
         P!IInv, P!TypeOK, P!OneRoot, P!ListInv, P!InOrder, P!Pending, P!Running, P!ChildrenOf
<1>3. P!IInv' <=> PP!IInv'
  BY DEF PP!IInv, PP!TypeOK, PP!OneRoot, PP!ListInv, PP!InOrder, PP!Pending, PP!Running,
         PP!ChildrenOf,
         P!IInv, P!TypeOK, P!OneRoot, P!ListInv, P!InOrder, P!Pending, P!Running, P!ChildrenOf
<1>4. [P!Next]_(P!vars) <=> [PP!Next]_(PP!vars)
  BY Zenon
  DEF PP!Next, PP!vars, PP!procVars, PP!CmonStep, PP!Environment, PP!Trigger,
      PP!Snapshot, PP!SnapshotFails, PP!SnapshotOverruns, PP!SignalLast, PP!SignalGroup,
      PP!SignalDone, PP!Wait, PP!Start, PP!StartFails, PP!Fork, PP!MakeThread,
      PP!EndThread, PP!Exit, PP!Reap, PP!Stranger, PP!Target, PP!ThreadsOf, PP!Aged,
      PP!Free, PP!Running, PP!Members, PP!ChildrenOf, PP!Tree, PP!Printed, PP!Outputs,
      PP!Spelled, PP!Cardinality, PP!Front, PP!Last,
      P!Next, P!vars, P!procVars, P!CmonStep, P!Environment, P!Trigger,
      P!Snapshot, P!SnapshotFails, P!SnapshotOverruns, P!SignalLast, P!SignalGroup,
      P!SignalDone, P!Wait, P!Start, P!StartFails, P!Fork, P!MakeThread,
      P!EndThread, P!Exit, P!Reap, P!Stranger, P!Target, P!ThreadsOf, P!Aged,
      P!Free, P!Running, P!Members, P!ChildrenOf, P!Tree, P!Printed, P!Outputs,
      P!Spelled, P!Cardinality, P!Front, P!Last
<1>5. QED
  BY <1>1, <1>2, <1>3, <1>4

(* ... that the list, if it is not too long, has the child in it, and what *)
(* is left of a list when its last pid has been signalled.                 *)
LEMMA TableListed ==
    ASSUME root \in Pid, status[root] \in {"run", "zombie"}, root' = root,
           NEW S \in P!Printed(root), NEW T \in P!Spelled,
           NEW H \in SUBSET UNION {P!ThreadsOf(p) : p \in S}, pids' \in P!Outputs(S, H, T)
    PROVE  P!Pending(root)'
<1>1. S \in PP!Printed(root)
  BY DEF PP!Printed, PP!Tree, PP!ChildrenOf, P!Printed, P!Tree, P!ChildrenOf
<1>2. root \in S /\ S \in SUBSET Pid
  BY <1>1, SystemAssumption, ProcTreeConstants, PP!PrintedFacts
<1>3. pids' \in PP!Outputs(S, H, T)
  BY Zenon DEF PP!Outputs, PP!Cardinality, P!Outputs, P!Cardinality
<1>31. H \in SUBSET UNION {PP!ThreadsOf(p) : p \in S} /\ T \in PP!Spelled
  BY Zenon DEF PP!ThreadsOf, P!ThreadsOf, PP!Spelled, P!Spelled, PP!Cardinality, P!Cardinality
<1>4. \A p \in S : \E i \in DOMAIN pids' : pids'[i] = p
  BY <1>2, <1>3, <1>31, SystemAssumption, ProcTreeConstants, PP!OutputFacts
<1>5. QED
  BY <1>2, <1>4 DEF P!Pending

LEMMA TableFront ==
    ASSUME P!TypeOK, P!SignalLast
    PROVE  \A p \in Pid : P!Pending(p) <=> p = P!Last(pids) \/ P!Pending(p)'
<1>1. pids \in Seq(Pid \union {Group}) /\ pids # <<>> /\ pids' = P!Front(pids)
  BY DEF P!TypeOK, P!SignalLast
<1>2. Len(pids) \in Nat \ {0} /\ DOMAIN pids = 1..Len(pids)
  BY <1>1
<1>3. P!Last(pids) = pids[Len(pids)]
  BY DEF P!Last
<1>4. pids' = [i \in 1..(Len(pids) - 1) |-> pids[i]]
  BY <1>1, <1>2 DEF P!Front
<1>5. QED
  BY <1>2, <1>3, <1>4 DEF P!Pending

-----------------------------------------------------------------------------
(* What leaves cmon's place and the processes alone is no step of theirs.  *)
LEMMA Same ==
    ASSUME UNCHANGED <<pc, procVars>>
    PROVE  UNCHANGED P!vars
BY DEF procVars, P!vars, P!procVars

(* The walk, an event that is passed over and an edit are no steps of      *)
(* ProcTree; an event that restarts the application is its Trigger.        *)
LEMMA EventsKeepTable == Events => [P!Next]_(P!vars)
<1> SUFFICES ASSUME NEW q \in Handling, pc' = q, UNCHANGED procVars,
                    W!WalkDone \/ W!WalkCrashes \/ W!Read \/ W!Skip \/ W!Restart
             PROVE  [P!Next]_(P!vars)
  BY DEF Events
<1> USE DEF procVars, P!vars, P!procVars, Signalled, Handling, Restart
<1>1. CASE W!WalkDone \/ W!WalkCrashes
  BY <1>1 DEF W!WalkDone, W!WalkCrashes
<1>2. CASE W!Read
  BY <1>2 DEF W!Read, W!Continue
<1>3. CASE W!Skip
  BY <1>3 DEF W!Skip, W!Continue
<1>4. CASE W!Restart
  <2>1. P!Trigger
    BY <1>4 DEF W!Restart, P!Trigger
  <2>2. QED
    BY <2>1 DEF P!Next, P!CmonStep
<1>5. QED
  BY <1>1, <1>2, <1>3, <1>4

(* Every step of the whole is one of ProcTree or none.                     *)
LEMMA NextTable == [Next]_vars => [P!Next]_(P!vars)
<1> SUFFICES ASSUME [Next]_vars PROVE [P!Next]_(P!vars)
  OBVIOUS
<1>1. CASE (\E d \in Dirs : Reach(d)) \/ User \/ UNCHANGED vars
  BY <1>1, Same DEF Reach, User, vars
<1>2. CASE Events
  BY <1>2, EventsKeepTable
<1>3. CASE Replace
  BY <1>3 DEF Replace, P!Next, P!CmonStep
<1>4. CASE Fork
  BY <1>4 DEF Fork, P!Next, P!CmonStep
<1>5. CASE Processes
  BY <1>5 DEF Processes, P!Next
<1>6. QED
  BY <1>1, <1>2, <1>3, <1>4, <1>5 DEF Next, Loop

(* Every reachable state of the whole satisfies ProcTree's invariant: in   *)
(* particular cmon has at most one child, and it is the one child_pid      *)
(* names.  (inotify.c 76-92, main.c 53-65.)                                *)
THEOREM TableInvariance == Spec => []P!IInv
<1>1. Init => P!IInv
  BY TableInit DEF Init
<1>2. P!IInv /\ [Next]_vars => P!IInv'
  BY NextTable, TableNext
<1>3. QED
  BY <1>1, <1>2, PTL DEF Spec

-----------------------------------------------------------------------------
(* While cmon has a child, child_pid is the pid of it.                     *)
LEMMA Child ==
    ASSUME P!IInv, pc \notin {"walk", "crashed", "start"}, root # NoPid
    PROVE  root \in Pid /\ status[root] \in {"run", "zombie"} /\ parent[root] = CmonPid
<1>1. root \in P!ChildrenOf(CmonPid)
  BY DEF P!IInv, P!OneRoot
<1>2. QED
  BY <1>1 DEF P!ChildrenOf

(* The signals to the other processes of the tree are no steps of Watcher. *)
LEMMA Quiet ==
    ASSUME UNCHANGED <<pc, root, eventVars>>, Signalled' <=> Signalled,
           \/ pc \in {"walk", "crashed", "start"} \/ root = NoPid
           \/ status'[root] = status[root],
           Signalled => (root \in termed' <=> root \in termed)
    PROVE  UNCHANGED W!vars
<1>1. (Signalled /\ root \in termed)' <=> (Signalled /\ root \in termed)
  OBVIOUS
<1> HIDE DEF Signalled
<1>2. QED
  BY <1>1 DEF W!vars, eventVars

(* The list and its signals: the one that counts is the child's.           *)
LEMMA SignalsAsWatched ==
    ASSUME P!IInv, P!SignalLast, pc' \in Restart, UNCHANGED eventVars
    PROVE  W!Signal \/ UNCHANGED W!vars
<1>1. /\ pc = "signal" /\ pc' = "signal" /\ UNCHANGED <<root, status, overlong>>
      /\ termed' = termed \union P!Target(P!Last(pids)) /\ pids # <<>>
      /\ termed \subseteq P!Running /\ P!Running \subseteq Pid
      /\ P!Target(P!Last(pids)) \subseteq P!Running
  BY DEF P!SignalLast, P!procVars, Restart, P!IInv, P!TypeOK, P!Running, P!Target
<1>2. \A p \in Pid : P!Pending(p) <=> p = P!Last(pids) \/ P!Pending(p)'
  BY TableFront DEF P!IInv
<1>3. CASE root = NoPid
  <2>1. ~Signalled /\ ~Signalled'
    BY <1>1, <1>3 DEF Signalled
  <2>2. QED
    BY <1>1, <1>3, <2>1, Quiet
<1>4. CASE root # NoPid
  <2>1. root \in Pid
    BY <1>1, <1>4, Child
  <2>2. P!Pending(root)' <=> \E i \in DOMAIN pids' : pids'[i] = root
    BY <1>1 DEF P!Pending
  <2>3. P!Pending(root) <=> root = P!Last(pids) \/ P!Pending(root)'
    BY <1>2, <2>1, <2>2 DEF P!Pending
  <2>0. ~overlong
    BY <1>1 DEF P!IInv, P!ListInv
  <2>4. Signalled <=> ~P!Pending(root)
    BY <1>1, <1>4, <2>0 DEF Signalled
  <2>5. Signalled' <=> ~P!Pending(root)'
    BY <1>1, <1>4, <2>0 DEF Signalled
  <2>6. CASE Signalled <=> Signalled'
    <3>1. Signalled => (root \in termed' <=> root \in termed)
      <4>1. root \in listed /\ ~overlong => (status[root] = "run" => root \in termed \/ P!Pending(root))
        BY <2>0 DEF P!IInv, P!ListInv
      <4>2. root \in P!Running => status[root] = "run"
        BY DEF P!Running
      <4>3. QED
        BY <1>1, <2>0, <2>4, <1>4, <4>1, <4>2 DEF P!IInv, P!ListInv
    <3>2. QED
      BY <1>1, <2>6, <3>1, Quiet
  <2>7. CASE ~Signalled /\ Signalled'
    <3>1. root = P!Last(pids)
      BY <2>3, <2>4, <2>5, <2>7
    <3>2. root \in termed' <=> status[root] = "run"
      <4>1. status[root] \in {"run", "zombie"}
        BY <1>1, <1>4, Child
      <4>2. P!Target(root) = P!Running \intersect {root}
        BY <4>1 DEF P!Target
      <4>3. QED
        BY <1>1, <2>1, <3>1, <4>2 DEF P!Running
    <3>3. QED
      BY <1>1, <1>4, <2>7, <3>2 DEF W!Signal, W!userVars, W!queueVars, W!watchVars, eventVars
  <2>8. QED
    BY <2>3, <2>4, <2>5, <2>6, <2>7
<1>5. QED
  BY <1>3, <1>4

LEMMA ReplaceAsWatched ==
    ASSUME P!IInv, Replace
    PROVE  [W!Next]_(W!vars)
<1>1. pc' \in Restart /\ UNCHANGED eventVars
  BY DEF Replace
<1>2. CASE P!Snapshot
  <2>1. pc = "snapshot" /\ pc' = "signal" /\ UNCHANGED <<root, status>>
    BY <1>1, <1>2 DEF P!Snapshot, P!procVars, Restart
  <2>2. ~Signalled /\ ~Signalled'
    <3>1. CASE root = NoPid
      BY <2>1, <3>1 DEF Signalled
    <3>2. CASE root # NoPid
      <4>1. PICK S \in P!Printed(root), T \in P!Spelled :
               \E H \in SUBSET UNION {P!ThreadsOf(p) : p \in S} : \E s \in P!Outputs(S, H, T) :
               pids' = s \/ overlong'
        BY <1>2, <3>2, Zenon DEF P!Snapshot
      <4>2. root \in Pid /\ status[root] \in {"run", "zombie"} /\ root' = root
        BY <2>1, <3>2, Child
      <4>3. P!Pending(root)' \/ overlong'
        BY <4>1, <4>2, TableListed, Zenon
      <4>4. QED
        BY <2>1, <4>3 DEF Signalled
    <3>3. QED
      BY <3>1, <3>2
  <2>3. W!Snapshot
    BY <1>1, <2>1, <2>2 DEF W!Snapshot, W!userVars, W!queueVars, W!watchVars, eventVars
  <2>4. QED
    BY <2>3 DEF W!Next, W!Cmon, W!Loop
<1>3. CASE P!SnapshotFails
  <2>1. /\ "snapshot" \in Faults /\ pc = "snapshot" /\ pc' = "hung"
        /\ UNCHANGED <<root, status>>
    BY <1>1, <1>3 DEF P!SnapshotFails, P!procVars, Restart
  <2>2. ~Signalled /\ ~Signalled'
    BY <2>1 DEF Signalled
  <2>3. W!SnapshotFails
    BY <1>1, <2>1, <2>2 DEF W!SnapshotFails, W!userVars, W!queueVars, W!watchVars, eventVars
  <2>4. QED
    BY <2>3 DEF W!Next, W!Cmon, W!Loop
<1>31. CASE P!SnapshotOverruns
  <2>1. /\ pc = "snapshot" /\ pc' = "overrun" /\ UNCHANGED <<root, status>>
    BY <1>1, <1>31 DEF P!SnapshotOverruns, P!procVars, Restart
  <2>2. ~Signalled /\ ~Signalled'
    BY <2>1 DEF Signalled
  <2>3. UNCHANGED W!vars
    BY <1>1, <2>1, <2>2 DEF W!vars, eventVars
  <2>4. QED
    BY <2>3
<1>4. CASE P!SignalLast
  BY <1>1, <1>4, SignalsAsWatched DEF W!Next, W!Cmon, W!Loop
<1>5. CASE P!SignalGroup
  <2>1. /\ pc = "signal" /\ pc' = "killed" /\ UNCHANGED <<root, status, pids, termed, overlong>>
    BY <1>1, <1>5 DEF P!SignalGroup, P!procVars, Restart
  <2>2. Signalled' <=> Signalled
    BY <2>1 DEF Signalled, P!Pending
  <2>3. UNCHANGED W!vars
    BY <1>1, <2>1, <2>2 DEF W!vars, eventVars
  <2>4. QED
    BY <2>3
<1>6. CASE P!SignalDone
  <2>1. /\ pc = "signal" /\ pc' = "wait" /\ UNCHANGED <<root, status, termed, overlong>>
        /\ pids = <<>> /\ termed \subseteq Pid
    BY <1>1, <1>6 DEF P!SignalDone, P!procVars, Restart, P!IInv, P!TypeOK, P!Running
  <2>2. /\ Signalled' <=> ~overlong
        /\ Signalled <=> ~overlong /\ root # NoPid
    BY <2>1 DEF Signalled, P!Pending
  <2>6. CASE overlong
    <3>1. W!SignalNobody
      BY <1>1, <2>1, <2>2, <2>6
      DEF W!SignalNobody, W!userVars, W!queueVars, W!watchVars, eventVars
    <3>2. QED
      BY <3>1 DEF W!Next, W!Cmon, W!Loop
  <2>3. CASE root = NoPid /\ ~overlong
    <3>1. root \notin termed
      BY <2>1, <2>3, SystemAssumption
    <3>2. W!Signal
      BY <1>1, <2>1, <2>2, <2>3, <3>1 DEF W!Signal, W!userVars, W!queueVars, W!watchVars, eventVars
    <3>3. QED
      BY <3>2 DEF W!Next, W!Cmon, W!Loop
  <2>4. CASE root # NoPid /\ ~overlong
    <3>1. UNCHANGED W!vars
      BY <1>1, <2>1, <2>2, <2>4 DEF W!vars, eventVars
    <3>2. QED
      BY <3>1
  <2>5. QED
    BY <2>3, <2>4, <2>6
<1>7. CASE P!Wait
  <2>1. /\ pc = "wait" /\ pc' = "start" /\ UNCHANGED root
        /\ root = NoPid \/ status[root] = "zombie"
    BY <1>1, <1>7 DEF P!Wait, Restart
  <2>2. (Signalled <=> ~overlong) /\ ~Signalled'
    BY <2>1 DEF Signalled
  <2>3. W!Wait
    BY <1>1, <2>1, <2>2 DEF W!Wait, W!userVars, W!queueVars, W!watchVars, eventVars
  <2>4. QED
    BY <2>3 DEF W!Next, W!Cmon, W!Loop
<1>8. QED
  BY <1>2, <1>3, <1>31, <1>4, <1>5, <1>6, <1>7 DEF Replace

(* The fork of the application, with the pid it gets.                      *)
LEMMA ForkAsWatched ==
    ASSUME P!IInv, Fork
    PROVE  [W!Next]_(W!vars)
<1>1. /\ pc = "start" /\ pc' = IF batch = <<>> THEN "poll" ELSE "dispatch"
      /\ UNCHANGED <<dirs, watched, refused, version, queue, batch>>
  BY DEF Fork
<1>2. ~Signalled /\ ~Signalled'
  BY <1>1 DEF Signalled
<1>3. ASSUME NEW p \in Pid, P!Start(p), base' = version, lost' = {}, starts' = starts + 1
      PROVE  W!Start
  <2>1. root' = p /\ p # NoPid /\ status'[p] = "run"
    BY <1>3, SystemAssumption DEF P!Start, P!IInv, P!TypeOK
  <2>2. QED
    BY <1>1, <1>2, <1>3, <2>1 DEF W!Start, W!Continue, W!userVars, W!watchVars
<1>4. ASSUME P!StartFails, UNCHANGED <<base, lost, starts>>
      PROVE  W!StartFails
  <2>1. "start" \in Faults /\ root' = NoPid
    BY <1>4 DEF P!StartFails
  <2>2. QED
    BY <1>1, <1>2, <1>4, <2>1
    DEF W!StartFails, W!Continue, W!userVars, W!queueVars, W!watchVars
<1>5. QED
  BY <1>3, <1>4 DEF Fork, W!Next, W!Cmon, W!Loop

(* What the processes do among themselves is no step of Watcher; the end   *)
(* of the child is its ChildExit.                                          *)
LEMMA ProcessesAsWatched ==
    ASSUME P!IInv, Processes
    PROVE  [W!Next]_(W!vars)
<1>1. UNCHANGED <<pc, eventVars>> /\ P!Environment
  BY DEF Processes
<1>2. pc \notin {"walk", "crashed", "start"} /\ root # NoPid =>
           root \in Pid /\ status[root] \in {"run", "zombie"} /\ parent[root] = CmonPid
  BY Child
<1>3. ASSUME UNCHANGED <<root, pids, termed, overlong>>,
             root \in Pid /\ status[root] \in {"run", "zombie"} /\ parent[root] = CmonPid
               => status'[root] = status[root]
      PROVE  [W!Next]_(W!vars)
  <2>1. Signalled' <=> Signalled
    BY <1>1, <1>3 DEF Signalled, P!Pending
  <2>2. QED
    BY <1>1, <1>2, <1>3, <2>1, Quiet
<1>4. ASSUME NEW p \in Pid, NEW q \in Pid, P!Fork(p, q)
      PROVE  [W!Next]_(W!vars)
  <2>1. /\ UNCHANGED <<root, pids, termed, overlong>> /\ status[q] = "free"
        /\ \A r \in Pid : r # q => status'[r] = status[r]
    BY <1>4 DEF P!Fork, P!Free, P!IInv, P!TypeOK
  <2>2. QED
    BY <1>3, <2>1
<1>5. ASSUME NEW p \in Pid, P!Exit(p)
      PROVE  [W!Next]_(W!vars)
  <2>1. /\ UNCHANGED <<root, pids, overlong>> /\ status[p] = "run" /\ termed' = termed \ {p}
        /\ \A r \in Pid : r # p /\ parent[r] # p => status'[r] = status[r]
        /\ parent[p] # InitProc /\ parent[p] # p => status'[p] = "zombie"
    BY <1>5 DEF P!Exit, P!Running, P!ChildrenOf, P!ThreadsOf
  <2>2. Signalled' <=> Signalled
    BY <1>1, <2>1 DEF Signalled, P!Pending
  <2>3. CASE pc \in {"walk", "crashed", "start"} \/ root = NoPid
    <3>1. ~Signalled \/ (root = NoPid /\ root \notin termed /\ root \notin termed')
      BY <2>1, <2>3, SystemAssumption DEF Signalled, P!IInv, P!TypeOK, P!Running
    <3>2. QED
      BY <1>1, <2>1, <2>2, <2>3, <3>1, Quiet
  <2>4. CASE pc \notin {"walk", "crashed", "start"} /\ root # NoPid /\ root = p
    <3>1. status'[p] = "zombie"
      BY <1>2, <2>1, <2>4, SystemAssumption
    <3>2. W!ChildExit
      BY <1>1, <2>1, <2>2, <2>4, <3>1
      DEF W!ChildExit, W!userVars, W!queueVars, W!watchVars, eventVars
    <3>3. QED
      BY <3>2 DEF W!Next, W!Environment
  <2>5. CASE pc \notin {"walk", "crashed", "start"} /\ root # NoPid /\ root # p
    <3>1. status'[root] = status[root] /\ (root \in termed' <=> root \in termed)
      BY <1>2, <2>1, <2>5, SystemAssumption
    <3>2. QED
      BY <1>1, <2>1, <2>2, <3>1, Quiet
  <2>6. QED
    BY <2>3, <2>4, <2>5
<1>6. ASSUME NEW q \in Pid, P!Reap(q)
      PROVE  [W!Next]_(W!vars)
  <2>1. /\ UNCHANGED <<root, pids, termed, overlong>> /\ parent[q] # CmonPid
        /\ \A r \in Pid : r # q => status'[r] = status[r]
    BY <1>6, SystemAssumption DEF P!Reap, P!Running, P!IInv, P!TypeOK
  <2>2. QED
    BY <1>3, <2>1
<1>7. ASSUME NEW q \in Pid, P!Stranger(q)
      PROVE  [W!Next]_(W!vars)
  <2>1. /\ UNCHANGED <<root, pids, termed, overlong>> /\ status[q] = "free"
        /\ \A r \in Pid : r # q => status'[r] = status[r]
    BY <1>7 DEF P!Stranger, P!Free, P!IInv, P!TypeOK
  <2>2. QED
    BY <1>3, <2>1
<1>8. ASSUME NEW p \in Pid, NEW q \in Pid, P!MakeThread(p, q) \/ P!EndThread(q)
      PROVE  [W!Next]_(W!vars)
  <2>1. /\ UNCHANGED <<root, pids, termed, overlong>> /\ status[q] \in {"free", "thread"}
        /\ \A r \in Pid : r # q => status'[r] = status[r]
    BY <1>8 DEF P!MakeThread, P!EndThread, P!Free, P!IInv, P!TypeOK
  <2>2. QED
    BY <1>3, <2>1
<1>9. QED
  BY <1>1, <1>4, <1>5, <1>6, <1>7, <1>8 DEF P!Environment

LEMMA NextWatched == P!IInv /\ [Next]_vars => [W!Next]_(W!vars)
<1> SUFFICES ASSUME P!IInv, [Next]_vars PROVE [W!Next]_(W!vars)
  OBVIOUS
<1>1. ASSUME NEW d \in Dirs, Reach(d)
      PROVE  [W!Next]_(W!vars)
  BY <1>1 DEF Reach, W!Next, W!Cmon
<1>2. CASE Events
  BY <1>2 DEF Events, W!Next, W!Cmon, W!Loop
<1>3. CASE User
  BY <1>3 DEF User, W!Next, W!Environment
<1>4. CASE UNCHANGED vars
  BY <1>4 DEF vars, procVars, eventVars, W!vars, Signalled, P!Pending
<1>5. QED
  BY <1>1, <1>2, <1>3, <1>4, ReplaceAsWatched, ForkAsWatched, ProcessesAsWatched
  DEF Next, Loop

(* The restarts that the process table makes of events, lists, signals,    *)
(* exits and forks are those of Watcher.                                   *)
THEOREM WatchesAsSpecified == Spec => WatcherOfCmon
<1>1. Init => W!Init
  BY DEF Init, W!Init, Signalled
<1>2. QED
  BY <1>1, NextWatched, TableInvariance, PTL DEF Spec, WatcherOfCmon, W!Spec

(* The Watcher of which WatcherProofs speaks is the one of CmonSystem.     *)
LEMMA WatcherSpec == W!Spec => WP!Spec
<1>1. W!Init => WP!Init
  BY DEF W!Init, WP!Init
<1>2. [W!Next]_(W!vars) => [WP!Next]_(WP!vars)
  BY Zenon
  DEF W!Next, W!vars, W!userVars, W!queueVars, W!watchVars, W!ToWatch, W!Cmon, W!Loop,
      W!Environment, W!Reach, W!AddWatch, W!RefuseWatch, W!Cardinality, W!WalkDone, W!WalkCrashes, W!Start, W!StartFails, W!Continue,
      W!Read, W!Skip, W!Restart, W!Triggers, W!Dropped, W!Snapshot,
      W!SnapshotFails, W!Signal, W!SignalNobody, W!Wait, W!Edit, W!Full, W!Queued, W!MakeDir,
      W!RemoveDir, W!ChildExit, W!FullPath, W!Ext, W!NoExt, W!Last, W!Range,
      WP!Next, WP!vars, WP!userVars, WP!queueVars, WP!watchVars, WP!ToWatch, WP!Cmon, WP!Loop,
      WP!Environment, WP!Reach, WP!AddWatch, WP!RefuseWatch, WP!Cardinality, WP!WalkDone, WP!WalkCrashes, WP!Start, WP!StartFails,
      WP!Continue, WP!Read, WP!Skip, WP!Restart, WP!Triggers, WP!Dropped,
      WP!Snapshot, WP!SnapshotFails, WP!Signal, WP!SignalNobody, WP!Wait, WP!Edit, WP!Full,
      WP!Queued, WP!MakeDir, WP!RemoveDir, WP!ChildExit, WP!FullPath, WP!Ext,
      WP!NoExt, WP!Last, WP!Range
<1>3. QED
  BY <1>1, <1>2, PTL DEF W!Spec, WP!Spec

(* What WatcherProofs shows of Watcher is so shown of the whole: no edit   *)
(* is forgotten, cmon sleeps only over a fresh application, restarts       *)
(* answer edits, ...                                                       *)
THEOREM WholeAnswersEdits ==
    Spec => [](W!NoEditForgotten /\ W!QuiescentFresh /\ W!RestartsJustified)
<1>1. WP!Spec => []WP!IInv
  BY SystemAssumption, WatcherConstants, WP!Invariance
<1>2. WP!Spec => []WP!QuiescentFresh
  BY SystemAssumption, WatcherConstants, WP!QuiescentIsFresh
<1>3. WP!Spec => []WP!RestartsJustified
  BY SystemAssumption, WatcherConstants, WP!RestartsAreJustified
<1>4. WP!IInv => W!NoEditForgotten
  BY DEF WP!IInv, WP!NoEditForgotten, WP!Unseen, WP!Relevant, WP!Stale, WP!Restarting, WP!Holds,
         WP!ToWatch, WP!Triggers, WP!Dropped, WP!FullPath, WP!Ext, WP!NoExt, WP!Last,
         W!NoEditForgotten, W!Unseen, W!Relevant, W!Stale, W!Restarting, W!Holds, W!ToWatch,
         W!Triggers, W!Dropped, W!FullPath, W!Ext, W!NoExt, W!Last
<1>5. WP!QuiescentFresh => W!QuiescentFresh
  BY DEF WP!QuiescentFresh, WP!Unseen, WP!Relevant, WP!Stale,
         WP!ToWatch, WP!Triggers, WP!Dropped, WP!FullPath, WP!Ext, WP!NoExt, WP!Last,
         W!QuiescentFresh, W!Unseen, W!Relevant, W!Stale, W!ToWatch,
         W!Triggers, W!Dropped, W!FullPath, W!Ext, W!NoExt, W!Last
<1>6. WP!RestartsJustified => W!RestartsJustified
  BY DEF WP!RestartsJustified, WP!Restarting, WP!Triggering, WP!EditsMade, WP!Cardinality,
         WP!Triggers, WP!Dropped, WP!FullPath, WP!Ext, WP!NoExt, WP!Last,
         W!RestartsJustified, W!Restarting, W!Triggering, W!EditsMade, W!Cardinality,
         W!Triggers, W!Dropped, W!FullPath, W!Ext, W!NoExt, W!Last
<1>7. QED
  BY <1>1, <1>2, <1>3, <1>4, <1>5, <1>6, WatchesAsSpecified, WatcherSpec, PTL
  DEF WatcherOfCmon

(* ... and there is one instance at a time, that has every edit there was  *)
(* when it was started.                                                    *)
THEOREM WholeIsLiveReload == Spec => W!OneFreshInstance
<1>1. WP!Spec => WP!OneFreshInstance
  BY SystemAssumption, WatcherConstants, WP!Refinement
<1> USE DEF WP!Relevant, WP!Stale, WP!ToWatch, WP!Triggers, WP!Dropped, WP!FullPath,
            WP!Ext, WP!NoExt, WP!Last,
            W!Relevant, W!Stale, W!ToWatch, W!Triggers, W!Dropped, W!FullPath,
            W!Ext, W!NoExt, W!Last
<1>2. WP!Live!Init => W!Live!Init
  BY DEF WP!Live!Init, W!Live!Init
<1>3. [WP!Live!Next]_(WP!Live!vars) => [W!Live!Next]_(W!Live!vars)
  BY Zenon
  DEF WP!Live!Next, WP!Live!vars, WP!Live!Edit, WP!Live!Exit, WP!Live!Collect,
      WP!Live!Start,
      W!Live!Next, W!Live!vars, W!Live!Edit, W!Live!Exit, W!Live!Collect, W!Live!Start
<1>4. QED
  BY <1>1, <1>2, <1>3, WatchesAsSpecified, WatcherSpec, PTL
  DEF WatcherOfCmon, WP!OneFreshInstance, W!OneFreshInstance, WP!Live!Spec, W!Live!Spec

=============================================================================
