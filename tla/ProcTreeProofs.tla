--------------------------- MODULE ProcTreeProofs ---------------------------
(***************************************************************************)
(* For every finite set of pids, every set of numbers that names spell,    *)
(* every size of the array and every choice of what fails: cmon has one    *)
(* child at a time; of a list that fits in the array, it waits only for a  *)
(* child that is gone or has been told to end, and signals all it listed.  *)
(***************************************************************************)
EXTENDS ProcTree, FiniteSetTheorems, TLAPS

(* The child is in its own tree, and only processes are (pstree -p of a    *)
(* process that exists).                                                   *)
LEMMA TreeFacts ==
    ASSUME NEW p \in Pid, status[p] \in {"run", "zombie"}
    PROVE  /\ p \in Tree(p)
           /\ Tree(p) \subseteq Pid
           /\ \A q \in Tree(p) : status[q] \in {"run", "zombie"}
<1>1. p \in Tree(p) /\ Tree(p) \subseteq Pid
  BY DEF Tree
<1>2. ASSUME NEW q \in Tree(p)
      PROVE  status[q] \in {"run", "zombie"}
  <2> DEFINE S == {s \in Pid : status[s] \in {"run", "zombie"}}
  <2>1. S \in SUBSET Pid /\ p \in S
    OBVIOUS
  <2>2. \A s \in S : ChildrenOf(s) \subseteq S
    BY DEF ChildrenOf
  <2>3. q \in S
    <3> HIDE DEF S
    <3>1. QED
      BY <2>1, <2>2 DEF Tree
  <2>4. QED
    BY <2>3
<1>3. QED
  BY <1>1, <1>2

(* What is printed of the tree is some of its processes, the child among   *)
(* them (ps_tree.c 37).                                                    *)
LEMMA PrintedFacts ==
    ASSUME NEW p \in Pid, status[p] \in {"run", "zombie"}, NEW S \in Printed(p)
    PROVE  /\ S \in SUBSET Pid /\ p \in S
           /\ \A q \in S : status[q] \in {"run", "zombie"}
<1>1. S \subseteq Tree(p) /\ p \in S
  BY DEF Printed
<1>2. QED
  BY <1>1, TreeFacts

(* What is read from the output of pstree is a sequence of numbers in      *)
(* which every process that is printed occurs (ps_tree.c 67-84).           *)
LEMMA OutputFacts ==
    ASSUME NEW S \in SUBSET Pid, NEW H \in SUBSET UNION {ThreadsOf(p) : p \in S},
           NEW T \in Spelled, NEW s \in Outputs(S, H, T)
    PROVE  /\ s \in Seq(Pid \union {Group})
           /\ \A p \in S : \E i \in DOMAIN s : s[i] = p
<1>0. T \in SUBSET Strays
  BY DEF Spelled
<1> DEFINE n == Cardinality(S) + Cardinality(H) + Cardinality(T)
<1>1. H \subseteq Pid
  BY DEF ThreadsOf
<1>2. n \in Nat
  <2>1. IsFiniteSet(Pid \union {Group})
    BY PidAssumption, FS_Singleton, FS_Union
  <2>2. IsFiniteSet(S) /\ IsFiniteSet(H) /\ IsFiniteSet(T)
    BY <1>0, <1>1, <2>1, PidAssumption, FS_Subset
  <2>3. QED
    BY <2>2, FS_CardinalityType
<1>3. s \in [1..n -> S \union H \union T]
  BY DEF Outputs
<1>4. PICK D \in SUBSET (1..n) : {s[i] : i \in D} = S \union H
  BY DEF Outputs
<1> HIDE DEF n
<1>5. S \union H \union T \subseteq Pid \union {Group}
  BY <1>0, <1>1, PidAssumption
<1>6. s \in Seq(Pid \union {Group})
  BY <1>2, <1>3, <1>5
<1>7. \A p \in S : \E i \in DOMAIN s : s[i] = p
  BY <1>3, <1>4
<1>8. QED
  BY <1>6, <1>7

(* The last pid and the ones before it are all there is (process.c 45).    *)
LEMMA FrontFacts ==
    ASSUME NEW S, NEW s \in Seq(S), s # <<>>
    PROVE  /\ Front(s) \in Seq(S)
           /\ Last(s) \in S
           /\ \A i \in DOMAIN s : \/ s[i] = Last(s)
                                  \/ i \in DOMAIN Front(s) /\ Front(s)[i] = s[i]
<1>1. Len(s) \in Nat \ {0} /\ DOMAIN s = 1..Len(s)
  OBVIOUS
<1>2. Last(s) = s[Len(s)] /\ Last(s) \in S
  BY <1>1 DEF Last
<1>3. /\ Front(s) \in Seq(S)
      /\ DOMAIN Front(s) = 1..(Len(s) - 1)
      /\ \A i \in 1..(Len(s) - 1) : Front(s)[i] = s[i]
  BY <1>1 DEF Front
<1>4. QED
  BY <1>1, <1>2, <1>3

-----------------------------------------------------------------------------
(* The table of processes and the list, apart from the order of the list.  *)
Table == TypeOK /\ OneRoot /\ ListInv

(* cmon starts with no child and nothing listed.                           *)
LEMMA InitTable == Init => Table
<1> SUFFICES ASSUME Init PROVE Table
  OBVIOUS
<1>1. <<>> \in Seq(Pid \union {Group})
  OBVIOUS
<1>2. TypeOK
  BY <1>1 DEF Init, TypeOK, Running
<1>3. OneRoot
  BY DEF Init, OneRoot, ChildrenOf
<1>4. ListInv
  BY DEF Init, ListInv
<1>5. QED
  BY <1>2, <1>3, <1>4 DEF Table

(* Every step of cmon, of the application and of the rest of the system    *)
(* keeps the invariant.                                                    *)
LEMMA NextTable == Table /\ [Next]_vars => Table'
<1> SUFFICES ASSUME Table, [Next]_vars PROVE Table'
  OBVIOUS
<1> USE DEF Table, procVars
<1>0. /\ pc # "start" /\ root # NoPid =>
           /\ root \in Pid /\ status[root] \in {"run", "zombie"} /\ parent[root] = Cmon
      /\ \A q \in Pid : status[q] \in {"run", "zombie"} /\ parent[q] = Cmon =>
           pc # "start" /\ q = root
  BY DEF OneRoot, ChildrenOf, TypeOK
<1>1. CASE Trigger \/ SnapshotFails \/ SnapshotOverruns \/ SignalGroup
  <2> USE <1>1 DEF Trigger, SnapshotFails, SnapshotOverruns, SignalGroup
  <2>1. TypeOK' /\ OneRoot'
    BY DEF TypeOK, OneRoot, Running, ChildrenOf
  <2>2. ListInv'
    BY DEF ListInv, Pending
  <2>3. QED
    BY <2>1, <2>2
<1>2. CASE Snapshot
  <2> USE <1>2 DEF Snapshot
  <2>1. CASE root = NoPid
    <3>0. pids' = <<>> /\ listed' = {} /\ overlong' \in BOOLEAN
      <4>1. pids' = <<>> /\ listed' = {} /\ overlong' = FALSE
        BY <2>1
      <4>2. QED
        BY <4>1, Zenon
    <3>1. TypeOK' /\ OneRoot'
      BY <3>0 DEF TypeOK, OneRoot, Running, ChildrenOf
    <3>2. ListInv'
      BY <2>1, <3>0 DEF ListInv
    <3>3. QED
      BY <3>1, <3>2
  <2>2. CASE root # NoPid
    <3>1. root \in Pid /\ status[root] \in {"run", "zombie"}
      BY <1>0, <2>2
    <3>2. PICK S \in Printed(root), T \in Spelled :
             \E H \in SUBSET UNION {ThreadsOf(p) : p \in S} : \E s \in Outputs(S, H, T) :
             /\ listed' = S
             /\ \/ pids' = <<>> /\ overlong' = TRUE
                \/ pids' = s /\ overlong' = FALSE
      BY <2>2
    <3>21. PICK H \in SUBSET UNION {ThreadsOf(p) : p \in S} : \E s \in Outputs(S, H, T) :
             /\ listed' = S
             /\ \/ pids' = <<>> /\ overlong' = TRUE
                \/ pids' = s /\ overlong' = FALSE
      BY <3>2
    <3>3. PICK s \in Outputs(S, H, T) :
             /\ listed' = S
             /\ \/ pids' = <<>> /\ overlong' = TRUE
                \/ pids' = s /\ overlong' = FALSE
      BY <3>21
    <3>4. S \in SUBSET Pid /\ root \in S /\ \A q \in S : status[q] \in {"run", "zombie"}
      BY <3>1, PrintedFacts
    <3>5. s \in Seq(Pid \union {Group}) /\ \A p \in S : \E i \in DOMAIN s : s[i] = p
      BY <3>4, OutputFacts
    <3>6. /\ overlong' \in BOOLEAN /\ pids' \in Seq(Pid \union {Group})
          /\ overlong' => pids' = <<>>
          /\ ~overlong' => \A p \in listed' : \E i \in DOMAIN pids' : pids'[i] = p
      <4>1. CASE pids' = <<>> /\ overlong' = TRUE
        <5>1. pids' \in Seq(Pid \union {Group})
          BY <4>1
        <5>2. QED
          BY <4>1, <5>1, Zenon
      <4>2. CASE pids' = s /\ overlong' = FALSE
        BY <3>3, <3>5, <4>2, Zenon
      <4>3. QED
        BY <3>3, <4>1, <4>2, Zenon
    <3>7. TypeOK' /\ OneRoot'
      BY <3>3, <3>4, <3>6 DEF TypeOK, OneRoot, Running, ChildrenOf
    <3>8. ListInv'
      BY <3>3, <3>4, <3>6 DEF ListInv, Pending
    <3>9. QED
      BY <3>7, <3>8
  <2>3. QED
    BY <2>1, <2>2
<1>3. CASE SignalLast
  <2> USE <1>3 DEF SignalLast
  <2>1. /\ pids' \in Seq(Pid \union {Group}) /\ Last(pids) \in Pid \union {Group}
        /\ \A p \in Pid : Pending(p) => p = Last(pids) \/ Pending(p)'
    BY FrontFacts DEF TypeOK, Pending
  <2>2. TypeOK' /\ OneRoot'
    BY <2>1 DEF TypeOK, OneRoot, Running, ChildrenOf, Target
  <2>3. \A p \in listed' : status'[p] = "run" => p \in termed' \/ Pending(p)' \/ overlong'
    BY <2>1 DEF ListInv, TypeOK, Running, Target
  <2>4. ListInv'
    BY <2>3 DEF ListInv
  <2>5. QED
    BY <2>2, <2>4
<1>4. CASE SignalDone
  <2> USE <1>4 DEF SignalDone
  <2>1. TypeOK' /\ OneRoot'
    BY DEF TypeOK, OneRoot, Running, ChildrenOf
  <2>2. ListInv'
    BY DEF ListInv, Pending
  <2>3. QED
    BY <2>1, <2>2
<1>5. CASE Wait
  <2> USE <1>5 DEF Wait
  <2>1. \A q \in Pid : q # root => status'[q] = status[q]
    BY DEF TypeOK
  <2>2. status' \in [Pid -> {"free", "run", "zombie", "thread"}]
    BY DEF TypeOK
  <2>3. termed \subseteq Running'
    BY <2>1, <2>2 DEF TypeOK, Running
  <2>4. TypeOK'
    BY <2>2, <2>3 DEF TypeOK
  <2>5. OneRoot'
    BY <1>0, <2>1 DEF OneRoot, ChildrenOf, TypeOK
  <2>6. ListInv'
    BY <2>1 DEF ListInv, Pending, TypeOK
  <2>7. QED
    BY <2>4, <2>5, <2>6
<1>6. ASSUME NEW p \in Pid, Start(p)
      PROVE  Table'
  <2> USE <1>6 DEF Start, Free
  <2>1. /\ status' \in [Pid -> {"free", "run", "zombie", "thread"}]
        /\ parent' \in [Pid -> Pid \union {Cmon, InitProc}]
        /\ kin' \in [Pid -> {"app", "old", "other"}]
    BY DEF TypeOK, Aged
  <2>2. /\ status'[p] = "run" /\ parent'[p] = Cmon
        /\ \A q \in Pid : q # p => status'[q] = status[q] /\ parent'[q] = parent[q]
    BY DEF TypeOK
  <2>3. termed \subseteq Running'
    BY <2>2 DEF TypeOK, Running
  <2>4. TypeOK'
    BY <2>1, <2>3 DEF TypeOK
  <2>5. OneRoot'
    <3>1. p # NoPid
      BY PidAssumption
    <3>2. ChildrenOf(Cmon)' = {p}
      BY <1>0, <2>2 DEF ChildrenOf
    <3>3. QED
      BY <3>1, <3>2 DEF OneRoot
  <2>6. ListInv'
    BY DEF ListInv
  <2>7. QED
    BY <2>4, <2>5, <2>6
<1>7. CASE StartFails
  <2> USE <1>7 DEF StartFails
  <2>1. kin' \in [Pid -> {"app", "old", "other"}]
    BY DEF TypeOK, Aged
  <2>2. TypeOK'
    BY <2>1 DEF TypeOK, Running
  <2>3. OneRoot'
    BY <1>0 DEF OneRoot, ChildrenOf
  <2>4. ListInv'
    BY DEF ListInv
  <2>5. QED
    BY <2>2, <2>3, <2>4
<1>8. ASSUME NEW p \in Pid, NEW q \in Pid, Fork(p, q)
      PROVE  Table'
  <2> USE <1>8 DEF Fork, Free
  <2>1. /\ status' \in [Pid -> {"free", "run", "zombie", "thread"}]
        /\ parent' \in [Pid -> Pid \union {Cmon, InitProc}]
        /\ kin' \in [Pid -> {"app", "old", "other"}]
    BY DEF TypeOK
  <2>2. /\ status[q] = "free" /\ status'[q] = "run" /\ parent'[q] = p
        /\ \A r \in Pid : r # q => status'[r] = status[r] /\ parent'[r] = parent[r]
    BY DEF TypeOK
  <2>3. TypeOK'
    BY <2>1, <2>2 DEF TypeOK, Running
  <2>4. ChildrenOf(Cmon)' = ChildrenOf(Cmon)
    BY <2>2, PidAssumption DEF ChildrenOf
  <2>5. OneRoot'
    BY <2>4 DEF OneRoot
  <2>6. ListInv'
    BY <2>2 DEF ListInv, Pending, TypeOK
  <2>7. QED
    BY <2>3, <2>5, <2>6
<1>9. ASSUME NEW p \in Pid, Exit(p)
      PROVE  Table'
  <2> DEFINE orphans == ChildrenOf(p)
             gone == {q \in orphans : status[q] = "zombie"} \union ThreadsOf(p)
                       \union (IF parent[p] = InitProc THEN {p} ELSE {})
  <2> USE <1>9
  <2>1. /\ status[p] = "run"
        /\ status' = [q \in Pid |-> IF q \in gone THEN "free"
                                    ELSE IF q = p THEN "zombie" ELSE status[q]]
        /\ parent' = [q \in Pid |-> IF q \in orphans THEN InitProc ELSE parent[q]]
        /\ termed' = termed \ {p}
        /\ listed' = listed \ gone
        /\ UNCHANGED <<pc, root, kin, pids, overlong>>
    BY DEF Exit, Running
  <2>2. \A q \in gone : \/ status[q] \in {"zombie", "thread"} /\ parent[q] = p
                        \/ q = p /\ parent[p] = InitProc
    BY DEF ChildrenOf, ThreadsOf
  <2>3. \A q \in orphans : q \in Pid /\ status[q] \in {"run", "zombie"} /\ parent[q] = p
    BY DEF ChildrenOf
  <2>4. \A q \in gone : parent[q] # Cmon
    BY <2>2, PidAssumption
  <2> HIDE DEF orphans, gone
  <2>5. TypeOK'
    <3>1. status' \in [Pid -> {"free", "run", "zombie", "thread"}]
      BY <2>1 DEF TypeOK
    <3>2. parent' \in [Pid -> Pid \union {Cmon, InitProc}]
      BY <2>1 DEF TypeOK
    <3>3. termed' \subseteq Running'
      BY <2>1, <2>2 DEF TypeOK, Running
    <3>4. QED
      BY <2>1, <3>1, <3>2, <3>3 DEF TypeOK
  <2>6. ChildrenOf(Cmon)' = ChildrenOf(Cmon)
    <3>1. ASSUME NEW q \in Pid
          PROVE  (status'[q] \in {"run", "zombie"} /\ parent'[q] = Cmon)
                   <=> (status[q] \in {"run", "zombie"} /\ parent[q] = Cmon)
      <4>1. CASE q \in orphans
        BY <4>1, <2>1, <2>3, PidAssumption
      <4>2. CASE q \notin orphans
        BY <4>2, <2>1, <2>4
      <4>3. QED
        BY <4>1, <4>2
    <3>2. QED
      BY <3>1 DEF ChildrenOf
  <2>7. OneRoot'
    BY <2>1, <2>6 DEF OneRoot
  <2>8. ListInv'
    <3>1. \A q \in listed' : q \in listed /\ q \notin gone /\ q \in Pid
      BY <2>1 DEF TypeOK
    <3>2. \A q \in listed' : status'[q] \in {"run", "zombie"}
      BY <2>1, <3>1 DEF ListInv
    <3>3. \A q \in listed' : status'[q] = "run" => q \in termed' \/ Pending(q)' \/ overlong'
      BY <2>1, <3>1 DEF ListInv, Pending
    <3>4. pc \in {"signal", "wait"} /\ root # NoPid => root \notin gone
      BY <1>0, <2>4
    <3>5. QED
      BY <2>1, <3>2, <3>3, <3>4 DEF ListInv
  <2>9. QED
    BY <2>5, <2>7, <2>8
<1>10. ASSUME NEW q \in Pid, Reap(q)
       PROVE  Table'
  <2> USE <1>10 DEF Reap
  <2>1. /\ status' \in [Pid -> {"free", "run", "zombie", "thread"}]
        /\ status[q] = "zombie" /\ status'[q] = "free" /\ parent[q] # Cmon
        /\ \A r \in Pid : r # q => status'[r] = status[r]
    BY PidAssumption DEF TypeOK, Running
  <2>2. TypeOK'
    BY <2>1 DEF TypeOK, Running
  <2>3. ChildrenOf(Cmon)' = ChildrenOf(Cmon)
    BY <2>1 DEF ChildrenOf
  <2>4. OneRoot'
    BY <2>3 DEF OneRoot
  <2>5. ListInv'
    BY <1>0, <2>1 DEF ListInv, Pending, TypeOK
  <2>6. QED
    BY <2>2, <2>4, <2>5
<1>11. ASSUME NEW q \in Pid, Stranger(q)
       PROVE  Table'
  <2> USE <1>11 DEF Stranger, Free
  <2>1. /\ status' \in [Pid -> {"free", "run", "zombie", "thread"}]
        /\ parent' \in [Pid -> Pid \union {Cmon, InitProc}]
        /\ kin' \in [Pid -> {"app", "old", "other"}]
    BY DEF TypeOK
  <2>2. /\ status[q] = "free" /\ status'[q] = "run" /\ parent'[q] = InitProc
        /\ \A r \in Pid : r # q => status'[r] = status[r] /\ parent'[r] = parent[r]
    BY DEF TypeOK
  <2>3. TypeOK'
    BY <2>1, <2>2 DEF TypeOK, Running
  <2>4. ChildrenOf(Cmon)' = ChildrenOf(Cmon)
    BY <2>2, PidAssumption DEF ChildrenOf
  <2>5. OneRoot'
    BY <2>4 DEF OneRoot
  <2>6. ListInv'
    BY <2>2 DEF ListInv, Pending, TypeOK
  <2>7. QED
    BY <2>3, <2>5, <2>6
<1>12. CASE UNCHANGED vars
  <2>1. TypeOK' /\ OneRoot'
    BY <1>12 DEF vars, TypeOK, OneRoot, Running, ChildrenOf
  <2>2. ListInv'
    BY <1>12 DEF vars, ListInv, Pending
  <2>3. QED
    BY <2>1, <2>2
<1>13. ASSUME NEW p \in Pid, NEW q \in Pid, MakeThread(p, q) \/ EndThread(q)
       PROVE  Table'
  <2> USE <1>13 DEF MakeThread, EndThread, Free
  <2>1. /\ status' \in [Pid -> {"free", "run", "zombie", "thread"}]
        /\ parent' \in [Pid -> Pid \union {Cmon, InitProc}]
    BY DEF TypeOK
  <2>2. /\ status[q] \in {"free", "thread"} /\ status'[q] \in {"free", "thread"}
        /\ \A r \in Pid : r # q => status'[r] = status[r] /\ parent'[r] = parent[r]
    BY DEF TypeOK
  <2>3. TypeOK'
    BY <2>1, <2>2 DEF TypeOK, Running
  <2>4. ChildrenOf(Cmon)' = ChildrenOf(Cmon)
    BY <2>2 DEF ChildrenOf
  <2>5. OneRoot'
    BY <2>4 DEF OneRoot
  <2>6. ListInv'
    BY <2>2 DEF ListInv, Pending, TypeOK
  <2>7. QED
    BY <2>3, <2>5, <2>6
<1>14. QED
  BY <1>1, <1>2, <1>3, <1>4, <1>5, <1>6, <1>7, <1>8, <1>9, <1>10, <1>11, <1>12, <1>13
  DEF Next, CmonStep, Environment

-----------------------------------------------------------------------------
(* What pstree lists has a process before its children, but for the        *)
(* numbers that names and cut lines spell (pstree -n -p, ps_tree.c 67-84). *)
LEMMA OutputOrder ==
    ASSUME NEW S \in SUBSET Pid, NEW H \in SUBSET UNION {ThreadsOf(p) : p \in S},
           NEW T \in Spelled, NEW s \in Outputs(S, H, T), NEW q \in S,
           NEW i \in DOMAIN s, s[i] = parent[q], s[i] \notin Strays
    PROVE  \E j \in DOMAIN s : i < j /\ s[j] = q
<1>1. T \in SUBSET Strays
  BY DEF Spelled
<1> DEFINE n == Cardinality(S) + Cardinality(H) + Cardinality(T)
<1>2. s \in [1..n -> S \union H \union T]
  BY DEF Outputs
<1>3. PICK D \in SUBSET (1..n) : /\ {s[k] : k \in D} = S \union H
                                /\ {s[k] : k \in (1..n) \ D} = T
                                /\ \A k, j \in D : parent[s[j]] = s[k] => k < j
  BY DEF Outputs
<1> HIDE DEF n
<1>4. DOMAIN s = 1..n
  BY <1>2
<1>5. i \in D
  BY <1>1, <1>3, <1>4
<1>6. PICK j \in D : s[j] = q
  BY <1>3
<1>7. QED
  BY <1>3, <1>4, <1>5, <1>6

(* The list is in order when it is made, and stays so: from its end it is  *)
(* only taken away, no listed process gets another parent but init, and    *)
(* none that is forked later is listed.                                    *)
LEMMA NextInOrder == Table /\ InOrder /\ [Next]_vars => InOrder'
<1> SUFFICES ASSUME Table, InOrder, [Next]_vars,
                    NEW q \in listed', status'[q] = "run", q \notin termed',
                    parent'[q] \in Pid \ Strays,
                    NEW i \in DOMAIN pids', pids'[i] = parent'[q]
             PROVE  \E j \in DOMAIN pids' : i < j /\ pids'[j] = q
  BY DEF InOrder
<1> USE DEF Table, procVars
<1>1. ASSUME q \in listed, status[q] = "run", q \notin termed, parent'[q] = parent[q],
             pids' = pids
      PROVE  \E j \in DOMAIN pids' : i < j /\ pids'[j] = q
  BY <1>1 DEF InOrder
<1>2. CASE \/ Trigger \/ SnapshotFails \/ SnapshotOverruns
           \/ SignalGroup \/ SignalDone \/ UNCHANGED vars
  BY <1>1, <1>2 DEF Trigger, SnapshotFails, SnapshotOverruns, SignalGroup, SignalDone, vars
<1>3. CASE Snapshot
  <2> USE <1>3 DEF Snapshot
  <2>1. root # NoPid
    OBVIOUS
  <2>2. PICK S \in Printed(root), T \in Spelled :
           \E H \in SUBSET UNION {ThreadsOf(p) : p \in S} : \E s \in Outputs(S, H, T) :
           /\ listed' = S
           /\ pids' = <<>> \/ pids' = s
    BY <2>1
  <2>3. S \in SUBSET Pid /\ q \in S
    BY <2>2 DEF Printed, Tree
  <2>31. PICK H \in SUBSET UNION {ThreadsOf(p) : p \in S} :
            \E s \in Outputs(S, H, T) : pids' = s
    BY <2>2
  <2>4. PICK s \in Outputs(S, H, T) : pids' = s
    BY <2>31
  <2>5. i \in DOMAIN s /\ s[i] = parent[q] /\ s[i] \notin Strays
    BY <2>4
  <2>6. \E j \in DOMAIN s : i < j /\ s[j] = q
    BY ONLY <2>3, <2>5, OutputOrder
  <2>7. QED
    BY <2>4, <2>6
<1>4. CASE SignalLast
  <2> USE <1>4 DEF SignalLast
  <2>1. q \in listed /\ status[q] = "run" /\ q \notin termed /\ parent[q] = parent'[q]
    OBVIOUS
  <2>2. /\ Len(pids) \in Nat /\ DOMAIN pids = 1..Len(pids) /\ Last(pids) = pids[Len(pids)]
        /\ DOMAIN pids' = 1..(Len(pids) - 1)
        /\ \A j \in 1..(Len(pids) - 1) : pids'[j] = pids[j]
    BY DEF TypeOK, Front, Last
  <2>3. PICK j \in DOMAIN pids : i < j /\ pids[j] = q
    BY <2>1, <2>2 DEF InOrder
  <2>4. q \in Running /\ q # Last(pids)
    BY <2>1 DEF Running, TypeOK, Target
  <2>5. QED
    BY <2>2, <2>3, <2>4
<1>5. CASE Wait
  <2>1. q \in listed /\ q # root /\ q \in Pid
    BY <1>5 DEF Wait, TypeOK
  <2>2. status[q] = status'[q]
    BY <1>5, <2>1 DEF Wait, TypeOK
  <2>3. QED
    BY <1>1, <1>5, <2>1, <2>2 DEF Wait
<1>6. CASE (\E p \in Pid : Start(p)) \/ StartFails
  BY <1>6 DEF Start, StartFails
<1>7. ASSUME NEW p \in Pid, NEW r \in Pid, Fork(p, r)
      PROVE  \E j \in DOMAIN pids' : i < j /\ pids'[j] = q
  <2>1. q \in listed /\ q # r /\ q \in Pid
    BY <1>7 DEF Fork, Free, ListInv, TypeOK
  <2>2. status[q] = status'[q] /\ parent[q] = parent'[q]
    BY <1>7, <2>1 DEF Fork, TypeOK
  <2>3. QED
    BY <1>1, <1>7, <2>1, <2>2 DEF Fork
<1>8. ASSUME NEW p \in Pid, Exit(p)
      PROVE  \E j \in DOMAIN pids' : i < j /\ pids'[j] = q
  <2>1. /\ q \in listed /\ q \in Pid /\ termed' = termed \ {p} /\ pids' = pids
        /\ status'[q] = "run" => status[q] = "run" /\ q # p
        /\ parent'[q] \in {InitProc, parent[q]}
    BY <1>8 DEF Exit, TypeOK
  <2>2. parent'[q] = parent[q]
    BY <2>1, PidAssumption
  <2>3. QED
    BY <1>1, <2>1, <2>2
<1>9. ASSUME NEW r \in Pid, Reap(r)
      PROVE  \E j \in DOMAIN pids' : i < j /\ pids'[j] = q
  <2>1. q \in listed /\ q # r /\ q \in Pid
    BY <1>9 DEF Reap, TypeOK
  <2>2. status[q] = status'[q]
    BY <1>9, <2>1 DEF Reap, TypeOK
  <2>3. QED
    BY <1>1, <1>9, <2>1, <2>2 DEF Reap
<1>10. ASSUME NEW r \in Pid, Stranger(r)
       PROVE  \E j \in DOMAIN pids' : i < j /\ pids'[j] = q
  <2>1. q \in listed /\ q # r /\ q \in Pid
    BY <1>10 DEF Stranger, Free, ListInv, TypeOK
  <2>2. status[q] = status'[q] /\ parent[q] = parent'[q]
    BY <1>10, <2>1 DEF Stranger, TypeOK
  <2>3. QED
    BY <1>1, <1>10, <2>1, <2>2 DEF Stranger
<1>11. ASSUME NEW p \in Pid, NEW r \in Pid, MakeThread(p, r) \/ EndThread(r)
       PROVE  \E j \in DOMAIN pids' : i < j /\ pids'[j] = q
  <2>1. q \in listed /\ q # r /\ q \in Pid
    BY <1>11 DEF MakeThread, EndThread, Free, ListInv, TypeOK
  <2>2. status[q] = status'[q] /\ parent[q] = parent'[q]
    BY <1>11, <2>1 DEF MakeThread, EndThread, TypeOK
  <2>3. QED
    BY <1>1, <1>11, <2>1, <2>2 DEF MakeThread, EndThread
<1>12. QED
  BY <1>2, <1>3, <1>4, <1>5, <1>6, <1>7, <1>8, <1>9, <1>10, <1>11
  DEF Next, CmonStep, Environment

(* cmon starts with an empty list.                                         *)
LEMMA InitIInv == Init => IInv
<1>1. Init => InOrder
  BY DEF Init, InOrder
<1>2. QED
  BY <1>1, InitTable DEF IInv, Table

(* Both parts together.                                                    *)
LEMMA NextIInv == IInv /\ [Next]_vars => IInv'
BY NextTable, NextInOrder DEF IInv, Table

(* Every reachable state satisfies the inductive invariant.                *)
THEOREM Invariance == Spec => []IInv
<1>1. QED
  BY InitIInv, NextIInv, PTL DEF Spec

(* cmon has at most one child, the process child_pid names, and none when  *)
(* it forks the next one.                                                  *)
THEOREM OneRootHolds == Spec => []OneRoot
<1>1. IInv => OneRoot
  BY DEF IInv
<1>2. QED
  BY <1>1, Invariance, PTL

(* waitpid() blocks only on a child that has ended or has been told to, if *)
(* the list of pstree fitted in the array: for every MaxPids, 5000 in the  *)
(* program.  (inotify.c 80-82, process.c 34-51.)                           *)
THEOREM WaitIsJustified == Spec => []WaitJustified
<1>1. IInv => WaitJustified
  <2> SUFFICES ASSUME IInv, pc = "wait", root # NoPid, ~overlong
               PROVE  status[root] = "zombie" \/ root \in termed
    BY DEF WaitJustified
  <2>1. root \in listed /\ ~Pending(root) /\ root \in Pid
    BY DEF IInv, ListInv, Pending, TypeOK
  <2>2. status[root] \in {"run", "zombie"} /\ (status[root] = "run" => root \in termed)
    BY <2>1 DEF IInv, ListInv
  <2>3. QED
    BY <2>1, <2>2 DEF IInv, TypeOK
<1>2. QED
  BY <1>1, Invariance, PTL

(* All that pstree listed has ended or been told to at the next start, if  *)
(* the list fitted in the array.  (process.c 45-49.)                       *)
THEOREM AllListedTermed == Spec => []ListedAreTermed
<1>1. IInv => ListedAreTermed
  BY DEF IInv, ListInv, ListedAreTermed, Pending
<1>2. QED
  BY <1>1, Invariance, PTL

(* A process is told to end only when all its listed children have ended   *)
(* or been told, unless it has threads, whose numbers are listed with its  *)
(* children and stand for it, or a name or a cut line spells its pid: the  *)
(* restart orphans none of them.  (process.c 45, from the last pid to the  *)
(* first; ps_tree.c 37.)                                                   *)
THEOREM ChildrenAreFirst == Spec => ChildrenFirst
<1>1. ASSUME IInv, Next, NEW p \in termed' \ (termed \union Strays),
             ThreadsOf(p) = {}, NEW q \in ChildrenOf(p) \intersect listed, status[q] = "run"
      PROVE  q \in termed'
  <2>1. SignalLast
    BY <1>1 DEF Next, CmonStep, Environment, Trigger, Snapshot, SnapshotFails,
                SnapshotOverruns, SignalGroup, SignalDone, Wait, Start, StartFails, Fork,
                MakeThread, EndThread, Exit, Reap, Stranger
  <2>2. p = Last(pids) /\ p \in Running /\ p \in Pid \ Strays /\ termed \subseteq termed'
    BY <1>1, <2>1 DEF SignalLast, Running, Target, ThreadsOf
  <2>3. Len(pids) \in DOMAIN pids /\ pids[Len(pids)] = p /\ DOMAIN pids = 1..Len(pids)
    BY <1>1, <2>1, <2>2 DEF IInv, TypeOK, SignalLast, Last
  <2>4. parent[q] = p /\ q \in listed
    BY <1>1 DEF ChildrenOf
  <2>5. ASSUME q \notin termed
        PROVE  FALSE
    <3>1. \E j \in DOMAIN pids : Len(pids) < j /\ pids[j] = q
      BY <1>1, <2>2, <2>3, <2>4, <2>5 DEF IInv, InOrder
    <3>2. QED
      BY <2>3, <3>1
  <2>6. QED
    BY <2>2, <2>5
<1>2. IInv /\ [Next]_vars =>
          [\A p \in termed' \ (termed \union Strays) :
              ThreadsOf(p) = {} =>
                 \A q \in ChildrenOf(p) \intersect listed :
                    status[q] = "run" => q \in termed']_vars
  BY <1>1
<1>3. QED
  BY <1>2, Invariance, PTL DEF Spec, ChildrenFirst

-----------------------------------------------------------------------------
(* A step that keeps the child and its state is no step of LiveReload.     *)
LEMMA Stutter ==
    ASSUME UNCHANGED root,
           (pc = "start") <=> (pc' = "start"),
           root = NoPid \/ pc = "start" \/ status'[root] = status[root]
    PROVE  UNCHANGED Live!vars
BY DEF Live!vars

(* Each step maps to one of LiveReload or to none: a fork of the child to  *)
(* Start, its end to Exit, waitpid() to Collect.                           *)
LEMMA NextLive == IInv /\ [Next]_vars => [Live!Next]_(Live!vars)
<1> SUFFICES ASSUME IInv, [Next]_vars PROVE [Live!Next]_(Live!vars)
  OBVIOUS
<1> USE DEF IInv, procVars
<1>0. pc # "start" /\ root # NoPid =>
           root \in Pid /\ status[root] \in {"run", "zombie"} /\ parent[root] = Cmon
  BY DEF OneRoot, ChildrenOf
<1>1. CASE \/ Trigger \/ Snapshot \/ SnapshotFails \/ SnapshotOverruns \/ SignalLast
           \/ SignalGroup \/ SignalDone \/ UNCHANGED vars
  <2>1. UNCHANGED <<root, status>> /\ (pc = "start" <=> pc' = "start")
    BY <1>1 DEF Trigger, Snapshot, SnapshotFails, SnapshotOverruns, SignalLast,
                SignalGroup, SignalDone, vars
  <2>2. QED
    BY <2>1, Stutter
<1>2. CASE Wait
  <2>1. CASE root = NoPid
    BY <1>2, <2>1 DEF Wait, Live!vars
  <2>2. CASE root # NoPid
    BY <1>2, <2>2 DEF Wait, Live!Collect, Live!Next
  <2>3. QED
    BY <2>1, <2>2
<1>3. ASSUME NEW p \in Pid, Start(p)
      PROVE  [Live!Next]_(Live!vars)
  <2>1. pc = "start" /\ pc' = "idle" /\ root' = p /\ p # NoPid /\ status'[p] = "run"
    BY <1>3, PidAssumption DEF Start, TypeOK
  <2>2. QED
    BY <2>1 DEF Live!Start, Live!Next
<1>4. CASE StartFails
  BY <1>4 DEF StartFails, Live!vars
<1>5. ASSUME NEW p \in Pid, NEW q \in Pid, Fork(p, q)
      PROVE  [Live!Next]_(Live!vars)
  <2>1. UNCHANGED <<pc, root>> /\ \A r \in Pid : status[r] # "free" => status'[r] = status[r]
    BY <1>5 DEF Fork, Free, TypeOK
  <2>2. QED
    BY <1>0, <2>1, Stutter
<1>6. ASSUME NEW p \in Pid, Exit(p)
      PROVE  [Live!Next]_(Live!vars)
  <2>1. /\ UNCHANGED <<pc, root>> /\ status[p] = "run"
        /\ \A r \in Pid : r # p /\ parent[r] # p => status'[r] = status[r]
        /\ parent[p] # InitProc /\ parent[p] # p => status'[p] = "zombie"
    BY <1>6 DEF Exit, Running, ChildrenOf, ThreadsOf
  <2>2. CASE pc = "start" \/ root = NoPid
    BY <2>1, <2>2, Stutter
  <2>3. CASE pc # "start" /\ root # NoPid /\ root = p
    <3>1. status'[p] = "zombie"
      BY <1>0, <2>1, <2>3, PidAssumption
    <3>2. Live!Exit
      BY <2>1, <2>3, <3>1 DEF Live!Exit
    <3>3. QED
      BY <3>2 DEF Live!Next
  <2>4. CASE pc # "start" /\ root # NoPid /\ root # p
    <3>1. status'[root] = status[root]
      BY <1>0, <2>1, <2>4, PidAssumption
    <3>2. QED
      BY <2>1, <3>1, Stutter
  <2>5. QED
    BY <2>2, <2>3, <2>4
<1>7. ASSUME NEW q \in Pid, Reap(q)
      PROVE  [Live!Next]_(Live!vars)
  <2>1. /\ UNCHANGED <<pc, root>> /\ parent[q] # Cmon
        /\ \A r \in Pid : r # q => status'[r] = status[r]
    BY <1>7, PidAssumption DEF Reap, Running, TypeOK
  <2>2. QED
    BY <1>0, <2>1, Stutter
<1>8. ASSUME NEW q \in Pid, Stranger(q)
      PROVE  [Live!Next]_(Live!vars)
  <2>1. UNCHANGED <<pc, root>> /\ \A r \in Pid : status[r] # "free" => status'[r] = status[r]
    BY <1>8 DEF Stranger, Free, TypeOK
  <2>2. QED
    BY <1>0, <2>1, Stutter
<1>9. ASSUME NEW p \in Pid, NEW q \in Pid, MakeThread(p, q) \/ EndThread(q)
      PROVE  [Live!Next]_(Live!vars)
  <2>1. /\ UNCHANGED <<pc, root>>
        /\ \A r \in Pid : status[r] \in {"run", "zombie"} => status'[r] = status[r]
    BY <1>9 DEF MakeThread, EndThread, Free, TypeOK
  <2>2. QED
    BY <1>0, <2>1, Stutter
<1>10. QED
  BY <1>1, <1>2, <1>3, <1>4, <1>5, <1>6, <1>7, <1>8, <1>9 DEF Next, CmonStep, Environment

(* The restart implements LiveReload: one instance at a time, whatever the *)
(* processes of the application and of the system do.                      *)
THEOREM Refinement == Spec => OneInstance
<1>1. Init => Live!Init
  BY DEF Init, Live!Init
<1>2. QED
  BY <1>1, NextLive, Invariance, PTL DEF Spec, OneInstance, Live!Spec

=============================================================================
