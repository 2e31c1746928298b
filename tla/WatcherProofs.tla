--------------------------- MODULE WatcherProofs ---------------------------
(***************************************************************************)
(* For every set of files and directories, every filter, every queue limit *)
(* and every choice of refused watches, crashing walks, listings without   *)
(* an array and failing forks: the watcher forgets no edit, never restarts *)
(* without one, and implements LiveReload.                                 *)
(***************************************************************************)
EXTENDS Watcher, FiniteSetTheorems, FunctionTheorems, SequenceTheorems, TLAPS

(***************************************************************************)
(* Sequences: what Append, Tail and SubSeq keep of the elements.           *)
(***************************************************************************)

(* An appended event is held, and so is everything held before (the kernel *)
(* queue).                                                                 *)
LEMMA AppendHolds ==
    ASSUME NEW S, NEW s \in Seq(S), NEW e \in S
    PROVE  /\ Append(s, e) \in Seq(S)
           /\ Holds(Append(s, e), e)
           /\ \A g : Holds(s, g) => Holds(Append(s, e), g)
<1>1. Append(s, e) \in Seq(S)
  OBVIOUS
<1>2. Append(s, e)[Len(s) + 1] = e /\ Len(s) + 1 \in DOMAIN Append(s, e)
  OBVIOUS
<1>3. \A i \in DOMAIN s : i \in DOMAIN Append(s, e) /\ Append(s, e)[i] = s[i]
  OBVIOUS
<1>4. QED
  BY <1>1, <1>2, <1>3 DEF Holds

(* Dropping the first event loses at most that event (the event loop).     *)
LEMMA TailHolds ==
    ASSUME NEW S, NEW s \in Seq(S), s # <<>>
    PROVE  /\ Tail(s) \in Seq(S)
           /\ Head(s) \in S
           /\ \A g : Holds(s, g) => g = Head(s) \/ Holds(Tail(s), g)
<1>1. Tail(s) \in Seq(S) /\ Head(s) \in S
  OBVIOUS
<1>2. ASSUME NEW i \in DOMAIN s
      PROVE  i = 1 \/ (i - 1 \in DOMAIN Tail(s) /\ Tail(s)[i - 1] = s[i])
  OBVIOUS
<1>3. Head(s) = s[1]
  OBVIOUS
<1>4. QED
  BY <1>1, <1>2, <1>3 DEF Holds

(* read() splits the queue and loses no event.                             *)
LEMMA SplitHolds ==
    ASSUME NEW S, NEW s \in Seq(S), NEW n \in 1..Len(s)
    PROVE  /\ SubSeq(s, 1, n) \in Seq(S)
           /\ SubSeq(s, n + 1, Len(s)) \in Seq(S)
           /\ SubSeq(s, 1, n) # <<>>
           /\ \A g : Holds(s, g) => \/ Holds(SubSeq(s, 1, n), g)
                                    \/ Holds(SubSeq(s, n + 1, Len(s)), g)
<1> DEFINE a == SubSeq(s, 1, n)
           b == SubSeq(s, n + 1, Len(s))
<1>1. a \in Seq(S) /\ Len(a) = n /\ \A i \in 1..n : a[i] = s[i]
  OBVIOUS
<1>2. b \in Seq(S) /\ Len(b) = Len(s) - n /\ \A i \in 1..(Len(s) - n) : b[i] = s[n + i]
  OBVIOUS
<1>3. ASSUME NEW i \in DOMAIN s
      PROVE  \/ i \in DOMAIN a /\ a[i] = s[i]
             \/ i - n \in DOMAIN b /\ b[i - n] = s[i]
  <2>1. CASE i <= n
    BY <2>1, <1>1
  <2>2. CASE i > n
    <3>1. i - n \in 1..(Len(s) - n) /\ n + (i - n) = i
      BY <2>2
    <3>2. QED
      BY <3>1, <1>2
  <2>3. QED
    BY <2>1, <2>2
<1>4. a # <<>>
  BY <1>1
<1> HIDE DEF a, b
<1>5. \A g : Holds(s, g) => Holds(a, g) \/ Holds(b, g)
  BY <1>3 DEF Holds
<1>6. QED
  BY <1>1, <1>2, <1>4, <1>5 DEF a, b

(* What the kernel does with the event of f: the queue stays a queue of    *)
(* events, keeps what it holds, and holds f unless it was full.            *)
LEMMA QueuedHolds ==
    ASSUME queue \in Seq(Events), NEW f \in Files
    PROVE  /\ Queued(f) \in Seq(Events)
           /\ ~Full => Holds(Queued(f), f)
           /\ \A g : Holds(queue, g) => Holds(Queued(f), g)
<1>1. f \in Events /\ Overflow \in Events
  BY DEF Events
<1>2. CASE Full
  <2>1. Queued(f) = queue \/ Queued(f) = Append(queue, Overflow)
    BY <1>2 DEF Queued
  <2>2. CASE Queued(f) = queue
    BY <1>2, <2>2
  <2>3. CASE Queued(f) = Append(queue, Overflow)
    BY <1>1, <1>2, <2>3, AppendHolds
  <2>4. QED
    BY <2>1, <2>2, <2>3
<1>3. CASE ~Full /\ queue # <<>> /\ Last(queue) = f
  <2>1. Queued(f) = queue
    BY <1>3 DEF Queued
  <2>2. Len(queue) \in DOMAIN queue /\ queue[Len(queue)] = f
    BY <1>3 DEF Last
  <2>3. QED
    BY <2>1, <2>2 DEF Holds
<1>4. CASE ~Full /\ ~(queue # <<>> /\ Last(queue) = f)
  <2>1. Queued(f) = Append(queue, f)
    BY <1>4 DEF Queued
  <2>2. QED
    BY <1>1, <2>1, AppendHolds
<1>5. QED
  BY <1>2, <1>3, <1>4

-----------------------------------------------------------------------------
(***************************************************************************)
(* Counting: how many events of a sequence trigger a restart.              *)
(***************************************************************************)

(* Only finitely many do.                                                  *)
LEMMA TriggeringIsNat ==
    ASSUME NEW s \in Seq(Events)
    PROVE  /\ IsFiniteSet({i \in DOMAIN s : Triggers(s[i])})
           /\ Triggering(s) \in Nat
<1>1. IsFiniteSet(1..Len(s)) /\ DOMAIN s = 1..Len(s)
  BY FS_Interval
<1>2. IsFiniteSet({i \in DOMAIN s : Triggers(s[i])})
  <2>1. {i \in DOMAIN s : Triggers(s[i])} \in SUBSET (1..Len(s))
    BY <1>1
  <2> HIDE DEF Triggers
  <2>2. QED
    BY <1>1, <2>1, FS_Subset
<1>3. QED
  BY <1>2, FS_CardinalityType DEF Triggering

(* One event more or less, at the end.                                     *)
LEMMA TriggeringAppend ==
    ASSUME NEW s \in Seq(Events), NEW e \in Events
    PROVE  Triggering(Append(s, e)) = Triggering(s) + (IF Triggers(e) THEN 1 ELSE 0)
<1> DEFINE A == {i \in DOMAIN s : Triggers(s[i])}
           B == {i \in DOMAIN Append(s, e) : Triggers(Append(s, e)[i])}
<1>1. /\ DOMAIN Append(s, e) = DOMAIN s \union {Len(s) + 1}
      /\ Len(s) + 1 \notin DOMAIN s
      /\ Append(s, e)[Len(s) + 1] = e
      /\ \A i \in DOMAIN s : Append(s, e)[i] = s[i]
  OBVIOUS
<1>2. IsFiniteSet(A) /\ Cardinality(A) \in Nat
  BY TriggeringIsNat, FS_CardinalityType
<1>3. CASE Triggers(e)
  <2>1. B = A \union {Len(s) + 1} /\ Len(s) + 1 \notin A
    BY <1>1, <1>3
  <2> HIDE DEF A, B
  <2>2. Cardinality(B) = Cardinality(A) + 1
    BY <1>2, <2>1, FS_AddElement
  <2>3. QED
    BY <1>3, <2>2 DEF Triggering, A, B
<1>4. CASE ~Triggers(e)
  <2>1. B = A
    BY <1>1, <1>4
  <2> HIDE DEF A, B
  <2>2. Cardinality(B) = Cardinality(A) + 0
    BY <1>2, <2>1
  <2>3. QED
    BY <1>4, <2>2 DEF Triggering, A, B
<1>5. QED
  BY <1>3, <1>4

(* A set of positions has as many when they are all moved up by n.         *)
LEMMA Moved ==
    ASSUME NEW n \in Nat, NEW A \in SUBSET Nat, IsFiniteSet(A),
           NEW B, B = {i + n : i \in A}
    PROVE  IsFiniteSet(B) /\ Cardinality(B) = Cardinality(A)
<1> DEFINE move == [i \in A |-> i + n]
<1>1. move \in Bijection(A, B)
  BY Fun_IsBij
<1>2. ExistsBijection(A, B)
  BY <1>1 DEF ExistsBijection
<1>3. QED
  BY <1>2, FS_Bijection

(* What read() takes and what it leaves have the triggering events of the  *)
(* queue between them.                                                     *)
LEMMA TriggeringSplit ==
    ASSUME NEW s \in Seq(Events), NEW n \in 1..Len(s)
    PROVE  Triggering(s) = Triggering(SubSeq(s, 1, n))
                             + Triggering(SubSeq(s, n + 1, Len(s)))
<1> DEFINE a == SubSeq(s, 1, n)
           b == SubSeq(s, n + 1, Len(s))
           S == {i \in DOMAIN s : Triggers(s[i])}
           A == {i \in DOMAIN a : Triggers(a[i])}
           B == {i \in DOMAIN b : Triggers(b[i])}
           C == {i + n : i \in B}
<1>1. a \in Seq(Events) /\ DOMAIN a = 1..n /\ \A i \in 1..n : a[i] = s[i]
  OBVIOUS
<1>2. b \in Seq(Events) /\ DOMAIN b = 1..(Len(s) - n) /\ \A i \in DOMAIN b : b[i] = s[i + n]
  OBVIOUS
<1>3. IsFiniteSet(A) /\ IsFiniteSet(B)
  BY <1>1, <1>2, TriggeringIsNat
<1>4. S = A \union C /\ A \intersect C = {}
  <2>1. ASSUME NEW i \in S
        PROVE  i \in A \union C
    <3>1. CASE i <= n
      BY <1>1, <3>1
    <3>2. CASE i > n
      <4>1. i - n \in DOMAIN b /\ (i - n) + n = i
        BY <1>2, <3>2
      <4>2. QED
        BY <1>2, <4>1
    <3>3. QED
      BY <3>1, <3>2
  <2>2. A \subseteq S
    BY <1>1
  <2>3. ASSUME NEW i \in B
        PROVE  i + n \in S /\ i + n \notin A
    BY <1>1, <1>2
  <2>4. QED
    BY <2>1, <2>2, <2>3
<1>5. IsFiniteSet(C) /\ Cardinality(C) = Cardinality(B)
  <2>1. n \in Nat /\ B \in SUBSET Nat
    BY <1>2
  <2> HIDE DEF B
  <2>2. QED
    BY <1>3, <2>1, Moved
<1>6. Cardinality(S) = Cardinality(A) + Cardinality(B)
  <2> HIDE DEF S, A, B, C
  <2>1. Cardinality(A) \in Nat /\ Cardinality(C) \in Nat
    BY <1>3, <1>5, FS_CardinalityType
  <2>2. Cardinality(A \intersect C) = 0
    BY <1>4, FS_EmptySet
  <2>3. Cardinality(A \union C)
          = Cardinality(A) + Cardinality(C) - Cardinality(A \intersect C)
    BY <1>3, <1>5, FS_Union
  <2>4. QED
    BY <1>4, <1>5, <2>1, <2>2, <2>3
<1>7. QED
  BY <1>6 DEF Triggering

(* The event at hand, and the rest of the batch.                           *)
LEMMA TriggeringTail ==
    ASSUME NEW s \in Seq(Events), s # <<>>
    PROVE  Triggering(s) = Triggering(Tail(s)) + (IF Triggers(Head(s)) THEN 1 ELSE 0)
<1>1. 1 \in 1..Len(s) /\ Tail(s) = SubSeq(s, 2, Len(s)) /\ Tail(s) \in Seq(Events)
  OBVIOUS
<1>2. /\ DOMAIN SubSeq(s, 1, 1) = {1}
      /\ SubSeq(s, 1, 1)[1] = Head(s)
  OBVIOUS
<1>3. Triggering(s) = Triggering(SubSeq(s, 1, 1)) + Triggering(Tail(s))
  <2>1. Tail(s) = SubSeq(s, 1 + 1, Len(s))
    BY <1>1
  <2>2. Triggering(s) = Triggering(SubSeq(s, 1, 1))
                          + Triggering(SubSeq(s, 1 + 1, Len(s)))
    BY <1>1, TriggeringSplit
  <2>3. QED
    BY <2>1, <2>2
<1>4. Triggering(Tail(s)) \in Nat
  BY <1>1, TriggeringIsNat
<1> HIDE DEF Triggers
<1>5. CASE Triggers(Head(s))
  <2>1. {i \in DOMAIN SubSeq(s, 1, 1) : Triggers(SubSeq(s, 1, 1)[i])} = {1}
    BY <1>2, <1>5
  <2>2. Cardinality({1}) = 1
    BY FS_Singleton
  <2>3. Triggering(SubSeq(s, 1, 1)) = 1
    BY <2>1, <2>2 DEF Triggering
  <2>4. (IF Triggers(Head(s)) THEN 1 ELSE 0) = 1
    BY <1>5
  <2>5. QED
    BY <1>3, <1>4, <2>3, <2>4
<1>6. CASE ~Triggers(Head(s))
  <2>1. {i \in DOMAIN SubSeq(s, 1, 1) : Triggers(SubSeq(s, 1, 1)[i])} = {}
    BY <1>2, <1>6
  <2>2. Triggering(SubSeq(s, 1, 1)) = 0
    BY <2>1, FS_EmptySet DEF Triggering
  <2>3. (IF Triggers(Head(s)) THEN 1 ELSE 0) = 0
    BY <1>6
  <2>4. QED
    BY <1>3, <1>4, <2>2, <2>3
<1>7. QED
  BY <1>5, <1>6

(* The kernel adds one triggering event at most, and none for an edit that *)
(* would not trigger.                                                      *)
LEMMA TriggeringQueued ==
    ASSUME queue \in Seq(Events), NEW f \in Files
    PROVE  Triggering(Queued(f)) <= Triggering(queue) + (IF Triggers(f) THEN 1 ELSE 0)
<1>1. f \in Events /\ Overflow \in Events /\ ~Triggers(Overflow)
  BY DEF Events, Triggers
<1>2. Triggering(queue) \in Nat
  BY TriggeringIsNat
<1>3. Queued(f) \in {queue, Append(queue, Overflow), Append(queue, f)}
  BY DEF Queued
<1> HIDE DEF Triggers
<1>4. Triggering(Append(queue, Overflow)) = Triggering(queue)
  <2>1. Triggering(Append(queue, Overflow)) = Triggering(queue) + 0
    BY <1>1, TriggeringAppend
  <2>2. QED
    BY <1>2, <2>1
<1>5. Triggering(Append(queue, f)) = Triggering(queue) + (IF Triggers(f) THEN 1 ELSE 0)
  BY <1>1, TriggeringAppend
<1>6. (IF Triggers(f) THEN 1 ELSE 0) \in Nat
  OBVIOUS
<1>7. QED
  <2> DEFINE one == IF Triggers(f) THEN 1 ELSE 0
  <2> HIDE DEF one
  <2>1. one \in Nat /\ Triggering(Append(queue, f)) = Triggering(queue) + one
    BY <1>5, <1>6 DEF one
  <2>2. Triggering(Queued(f)) \in {Triggering(queue), Triggering(queue) + one}
    BY <1>3, <1>4, <2>1
  <2>3. Triggering(Queued(f)) <= Triggering(queue) + one
    BY <1>2, <2>1, <2>2
  <2>4. QED
    BY <2>3 DEF one

(* There are finitely many edits.                                          *)
LEMMA EditsCounted == IsFiniteSet(EditsMade) /\ Cardinality(EditsMade) \in Nat
<1>1. IsFiniteSet(Files \X (1..MaxEdits))
  <2>1. IsFiniteSet(1..MaxEdits)
    BY BoundsAssumption, FS_Interval
  <2>2. QED
    BY <2>1, FilesAssumption, FS_Product
<1>2. EditsMade \in SUBSET (Files \X (1..MaxEdits))
  BY DEF EditsMade
<1>3. QED
  BY <1>1, <1>2, FS_Subset, FS_CardinalityType

(* An edit that triggers is one more of those made.                        *)
LEMMA EditsMadeGrows ==
    ASSUME version \in [Files -> Nat], NEW f \in Files, version[f] < MaxEdits,
           version' = [version EXCEPT ![f] = @ + 1]
    PROVE  /\ Cardinality(EditsMade) \in Nat
           /\ Cardinality(EditsMade)' =
                Cardinality(EditsMade) + (IF Triggers(f) THEN 1 ELSE 0)
<1>1. IsFiniteSet(EditsMade) /\ Cardinality(EditsMade) \in Nat
  BY EditsCounted
<1>2. MaxEdits \in Nat /\ version[f] \in Nat /\ version[f] + 1 \in 1..MaxEdits
  BY BoundsAssumption
<1>3. \A g \in Files : version'[g] = IF g = f THEN version[f] + 1 ELSE version[g]
  OBVIOUS
<1>4. CASE Triggers(f)
  <2>1. /\ EditsMade' = EditsMade \union {<<f, version[f] + 1>>}
        /\ <<f, version[f] + 1>> \notin EditsMade
    BY <1>2, <1>3, <1>4 DEF EditsMade
  <2>2. QED
    BY <1>1, <1>4, <2>1, FS_AddElement
<1>5. CASE ~Triggers(f)
  <2>1. EditsMade' = EditsMade
    BY <1>2, <1>3, <1>5 DEF EditsMade
  <2>2. QED
    BY <1>1, <1>5, <2>1
<1>6. QED
  BY <1>1, <1>4, <1>5

-----------------------------------------------------------------------------
(***************************************************************************)
(* The inductive invariant.                                                *)
(***************************************************************************)

(* main() starts with nothing watched and nothing edited.                  *)
LEMMA InitIInv == Init => IInv
<1> SUFFICES ASSUME Init PROVE IInv
  OBVIOUS
<1>1. TypeOK
  <2>1. <<>> \in Seq(Events)
    OBVIOUS
  <2>2. [f \in Files |-> 0] \in [Files -> Nat]
    OBVIOUS
  <2>3. InitialDirs \subseteq Dirs
    BY FilesAssumption
  <2>4. QED
    BY <2>1, <2>2, <2>3 DEF Init, TypeOK
<1>2. NoEditForgotten
  BY DEF Init, NoEditForgotten
<1>3. QED
  BY <1>1, <1>2 DEF Init, IInv, Covered, DownAtStart, BatchInHand, BaseBehind

(* The rest of the batch becomes the batch (inotify.c 57).                 *)
LEMMA ContinueKeeps ==
    ASSUME NEW rest \in Seq(Events), Continue(rest)
    PROVE  /\ batch' = rest
           /\ pc' \in {"poll", "dispatch"}
           /\ BatchInHand'
BY DEF Continue, BatchInHand

(* read() takes at least one event, and no more than there are.            *)
LEMMA BatchSize ==
    ASSUME TypeOK, Read
    PROVE  \E n \in 1..Len(queue) : /\ Continue(SubSeq(queue, 1, n))
                                    /\ queue' = SubSeq(queue, n + 1, Len(queue))
<1> DEFINE n == IF Len(queue) < BufferEvents THEN Len(queue) ELSE BufferEvents
<1>1. Len(queue) \in Nat \ {0} /\ BufferEvents \in Nat \ {0}
  BY BoundsAssumption DEF TypeOK, Read
<1>2. n \in 1..Len(queue)
  BY <1>1
<1>3. QED
  BY <1>2 DEF Read

(* Every step of cmon and around it keeps the invariant.                   *)
LEMMA NextIInv == IInv /\ [Next]_vars => IInv'
<1> SUFFICES ASSUME IInv, [Next]_vars PROVE IInv'
  OBVIOUS
<1> USE DEF IInv, Unseen
<1>1. ASSUME NEW d \in Dirs, Reach(d)
      PROVE  IInv'
  <2> USE <1>1 DEF Reach, AddWatch, RefuseWatch, userVars, queueVars, watchVars
  <2>1. TypeOK'
    BY DEF TypeOK
  <2>2. Covered' /\ DownAtStart' /\ BatchInHand'
    BY DEF Covered, DownAtStart, BatchInHand
  <2>3. BaseBehind' /\ NoEditForgotten'
    BY DEF BaseBehind, NoEditForgotten
  <2>4. QED
    BY <2>1, <2>2, <2>3
<1>2. CASE WalkDone \/ WalkCrashes
  <2> USE <1>2 DEF WalkDone, WalkCrashes, userVars, queueVars, watchVars
  <2>1. TypeOK'
    BY DEF TypeOK
  <2>2. Covered' /\ DownAtStart' /\ BatchInHand'
    BY DEF Covered, DownAtStart, BatchInHand
  <2>3. BaseBehind'
    BY DEF BaseBehind
  <2>4. NoEditForgotten'
    BY DEF NoEditForgotten, Restarting, DownAtStart
  <2>5. QED
    BY <2>1, <2>2, <2>3, <2>4
<1>3. CASE Start
  <2> USE <1>3 DEF Start, userVars, queueVars, watchVars
  <2>0. batch \in Seq(Events)
    BY DEF TypeOK
  <2>1. batch' = batch /\ pc' \in {"poll", "dispatch"} /\ BatchInHand'
    BY <2>0, ContinueKeeps
  <2>2. TypeOK'
    BY <2>1 DEF TypeOK
  <2>3. Covered' /\ DownAtStart'
    BY <2>1 DEF Covered, DownAtStart
  <2>4. BaseBehind'
    BY DEF BaseBehind, TypeOK
  <2>5. NoEditForgotten'
    BY DEF NoEditForgotten, Stale
  <2>6. QED
    BY <2>1, <2>2, <2>3, <2>4, <2>5
<1>4. CASE StartFails
  <2> USE <1>4 DEF StartFails, userVars, queueVars, watchVars
  <2>0. batch \in Seq(Events)
    BY DEF TypeOK
  <2>1. batch' = batch /\ pc' \in {"poll", "dispatch"} /\ BatchInHand'
    BY <2>0, ContinueKeeps
  <2>2. TypeOK'
    BY <2>1 DEF TypeOK
  <2>3. Covered' /\ DownAtStart' /\ BaseBehind'
    BY <2>1 DEF Covered, DownAtStart, BaseBehind
  <2>4. NoEditForgotten'
    BY DEF NoEditForgotten, DownAtStart
  <2>5. QED
    BY <2>1, <2>2, <2>3, <2>4
<1>5. CASE Read
  <2> USE <1>5 DEF Read, userVars, queueVars, watchVars
  <2>0. queue \in Seq(Events) /\ queue # <<>>
    BY DEF TypeOK
  <2>1. PICK n \in 1..Len(queue) : /\ Continue(SubSeq(queue, 1, n))
                                   /\ queue' = SubSeq(queue, n + 1, Len(queue))
    BY BatchSize DEF TypeOK
  <2>2. /\ SubSeq(queue, 1, n) \in Seq(Events)
        /\ queue' \in Seq(Events)
        /\ \A g : Holds(queue, g) => Holds(SubSeq(queue, 1, n), g) \/ Holds(queue', g)
    BY <2>0, <2>1, SplitHolds
  <2>3. batch' = SubSeq(queue, 1, n) /\ pc' \in {"poll", "dispatch"} /\ BatchInHand'
    BY <2>1, <2>2, ContinueKeeps
  <2>4. TypeOK'
    BY <2>2, <2>3 DEF TypeOK
  <2>5. Covered' /\ DownAtStart' /\ BaseBehind'
    BY <2>3 DEF Covered, DownAtStart, BaseBehind
  <2>6. \A g : ~Holds(batch, g)
    BY DEF BatchInHand, Holds
  <2>7. ASSUME NEW f \in Relevant, Stale(f)', ~Unseen(f)
        PROVE  Holds(queue', f) \/ Holds(batch', f) \/ f \in lost' \/ child' = "none"
    <3>1. Holds(queue, f) \/ f \in lost \/ child = "none"
      BY <2>6, <2>7 DEF NoEditForgotten, Stale, Restarting
    <3>2. QED
      BY <3>1, <2>2, <2>3
  <2>8. NoEditForgotten'
    BY <2>7 DEF NoEditForgotten, Holds
  <2>9. QED
    BY <2>3, <2>4, <2>5, <2>8
<1>6. CASE Skip
  <2> USE <1>6 DEF Skip, userVars, queueVars, watchVars
  <2>0. batch \in Seq(Events) /\ batch # <<>>
    BY DEF TypeOK, BatchInHand
  <2>1. /\ Tail(batch) \in Seq(Events)
        /\ \A g : Holds(batch, g) => g = Head(batch) \/ Holds(Tail(batch), g)
    BY <2>0, TailHolds
  <2>2. batch' = Tail(batch) /\ pc' \in {"poll", "dispatch"} /\ BatchInHand'
    BY <2>1, ContinueKeeps
  <2>3. TypeOK'
    BY <2>1, <2>2 DEF TypeOK
  <2>4. Covered' /\ DownAtStart' /\ BaseBehind'
    BY <2>2 DEF Covered, DownAtStart, BaseBehind
  <2>5. NoEditForgotten'
    <3> SUFFICES ASSUME NEW f \in Relevant, Stale(f)', ~Unseen(f)
                 PROVE  \/ Holds(queue', f) \/ Holds(batch', f)
                        \/ f \in lost' \/ child' = "none"
      BY DEF NoEditForgotten, Holds
    <3>1. Holds(queue, f) \/ Holds(batch, f) \/ f \in lost \/ child = "none"
      BY DEF NoEditForgotten, Stale, Restarting
    <3>2. f # Head(batch)
      BY DEF Relevant
    <3>3. QED
      BY <3>1, <3>2, <2>1, <2>2
  <2>6. QED
    BY <2>2, <2>3, <2>4, <2>5
<1>7. CASE Restart
  <2> USE <1>7 DEF Restart, userVars, queueVars, watchVars
  <2>0. Tail(batch) \in Seq(Events)
    BY TailHolds DEF TypeOK, BatchInHand
  <2>1. TypeOK'
    BY <2>0 DEF TypeOK
  <2>2. Covered' /\ DownAtStart' /\ BatchInHand' /\ BaseBehind'
    BY DEF Covered, DownAtStart, BatchInHand, BaseBehind
  <2>3. NoEditForgotten'
    BY DEF NoEditForgotten, Restarting
  <2>4. QED
    BY <2>1, <2>2, <2>3
<1>8. CASE Snapshot \/ SnapshotFails \/ Signal \/ SignalNobody
  <2> USE <1>8 DEF Snapshot, SnapshotFails, Signal, SignalNobody, userVars, queueVars, watchVars
  <2>1. TypeOK'
    BY DEF TypeOK
  <2>2. Covered' /\ DownAtStart' /\ BatchInHand' /\ BaseBehind'
    BY DEF Covered, DownAtStart, BatchInHand, BaseBehind
  <2>3. NoEditForgotten'
    BY DEF NoEditForgotten, Restarting
  <2>4. QED
    BY <2>1, <2>2, <2>3
<1>9. CASE Wait
  <2> USE <1>9 DEF Wait, userVars, queueVars, watchVars
  <2>1. TypeOK'
    BY DEF TypeOK
  <2>2. Covered' /\ DownAtStart' /\ BatchInHand' /\ BaseBehind'
    BY DEF Covered, DownAtStart, BatchInHand, BaseBehind
  <2>3. NoEditForgotten'
    BY DEF NoEditForgotten, Restarting
  <2>4. QED
    BY <2>1, <2>2, <2>3
<1>10. ASSUME NEW f \in Files, Edit(f)
       PROVE  IInv'
  <2> USE <1>10 DEF Edit, queueVars, watchVars
  <2>1. version' \in [Files -> Nat] /\ \A g \in Files : version[g] <= version'[g]
    BY DEF TypeOK
  <2>2. /\ queue' \in Seq(Events)
        /\ lost \subseteq lost' /\ lost' \subseteq Files
        /\ \A g : Holds(queue, g) => Holds(queue', g)
        /\ DirOf[f] \in watched => Holds(queue', f) \/ f \in lost'
    BY QueuedHolds DEF TypeOK
  <2>3. TypeOK'
    BY <2>1, <2>2 DEF TypeOK
  <2>4. Covered' /\ DownAtStart' /\ BatchInHand'
    BY DEF Covered, DownAtStart, BatchInHand
  <2>5. BaseBehind'
    BY <2>1 DEF BaseBehind, TypeOK
  <2>6. NoEditForgotten'
    <3> SUFFICES ASSUME NEW g \in Relevant, Stale(g)', pc # "walk", ~Unseen(g)
                 PROVE  \/ Restarting
                        \/ Holds(queue', g) \/ Holds(batch, g)
                        \/ g \in lost' \/ child = "none"
      BY DEF NoEditForgotten, Restarting, Holds
    <3>1. CASE g = f
      <4>1. pc = "crashed" \/ DirOf[g] \in watched
        BY DEF Covered, Relevant
      <4>2. QED
        BY <3>1, <4>1, <2>2 DEF DownAtStart
    <3>2. CASE g # f
      <4>1. Stale(g)
        BY <3>2 DEF Stale, TypeOK, Relevant
      <4>2. QED
        BY <4>1, <2>2 DEF NoEditForgotten
    <3>3. QED
      BY <3>1, <3>2
  <2>7. QED
    BY <2>3, <2>4, <2>5, <2>6
<1>11. ASSUME NEW d \in Dirs, MakeDir(d)
       PROVE  IInv'
  <2> USE <1>11 DEF MakeDir, queueVars, watchVars
  <2>1. TypeOK'
    BY DEF TypeOK
  <2>2. Covered' /\ DownAtStart' /\ BatchInHand' /\ BaseBehind'
    BY DEF Covered, DownAtStart, BatchInHand, BaseBehind
  <2>3. NoEditForgotten'
    BY DEF NoEditForgotten, Restarting, Stale
  <2>4. QED
    BY <2>1, <2>2, <2>3
<1>12. ASSUME NEW d \in Dirs, RemoveDir(d)
       PROVE  IInv'
  <2> USE <1>12 DEF RemoveDir, queueVars, watchVars
  <2>1. TypeOK'
    BY DEF TypeOK
  <2>2. Covered'
    BY DEF Covered, ToWatch
  <2>3. DownAtStart' /\ BatchInHand' /\ BaseBehind'
    BY DEF DownAtStart, BatchInHand, BaseBehind
  <2>4. NoEditForgotten'
    BY DEF NoEditForgotten, Restarting, Stale
  <2>5. QED
    BY <2>1, <2>2, <2>3, <2>4
<1>13. CASE ChildExit
  <2> USE <1>13 DEF ChildExit, userVars, queueVars, watchVars
  <2>1. TypeOK'
    BY DEF TypeOK
  <2>2. Covered' /\ DownAtStart' /\ BatchInHand' /\ BaseBehind'
    BY DEF Covered, DownAtStart, BatchInHand, BaseBehind
  <2>3. NoEditForgotten'
    BY DEF NoEditForgotten, Restarting, Stale
  <2>4. QED
    BY <2>1, <2>2, <2>3
<1>14. CASE UNCHANGED vars
  BY <1>14 DEF vars, TypeOK, Covered, DownAtStart, BatchInHand, BaseBehind,
               NoEditForgotten, Restarting, Stale, Holds
<1>15. QED
  BY <1>1, <1>2, <1>3, <1>4, <1>5, <1>6, <1>7, <1>8, <1>9, <1>10, <1>11,
     <1>12, <1>13, <1>14 DEF Next, Cmon, Loop, Environment

(* Every reachable state satisfies the inductive invariant: in particular  *)
(* no relevant edit is ever forgotten.                                     *)
THEOREM Invariance == Spec => []IInv
<1>1. QED
  BY InitIInv, NextIInv, PTL DEF Spec

(* The variables keep their types.                                         *)
THEOREM TypeCorrect == Spec => []TypeOK
<1>1. IInv => TypeOK
  BY DEF IInv
<1>2. QED
  BY <1>1, Invariance, PTL

(* When cmon sleeps with an empty queue, the application has every edit of *)
(* every relevant file whose directory was not refused a watch and whose   *)
(* events the kernel did not drop.                                         *)
THEOREM QuiescentIsFresh == Spec => []QuiescentFresh
<1>1. IInv => QuiescentFresh
  BY DEF IInv, QuiescentFresh, NoEditForgotten, Unseen, BatchInHand, Restarting, Holds
<1>2. QED
  BY <1>1, Invariance, PTL

-----------------------------------------------------------------------------
(***************************************************************************)
(* Each restart is justified by an edit.                                   *)
(***************************************************************************)

(* The numbers of the inequality are numbers.                              *)
LEMMA Counts ==
    ASSUME TypeOK
    PROVE  /\ starts \in Nat
           /\ Triggering(queue) \in Nat /\ Triggering(batch) \in Nat
           /\ Cardinality(EditsMade) \in Nat
<1>1. Triggering(queue) \in Nat /\ Triggering(batch) \in Nat
  BY TriggeringIsNat DEF TypeOK
<1>2. QED
  BY <1>1, EditsCounted DEF TypeOK

(* The first start needs no edit.                                          *)
LEMMA InitJustified == Init => RestartsJustified
<1> SUFFICES ASSUME Init PROVE RestartsJustified
  OBVIOUS
<1>1. Triggering(<<>>) = 0
  BY FS_EmptySet DEF Triggering
<1>2. TypeOK
  BY InitIInv DEF IInv
<1>3. Cardinality(EditsMade) \in Nat
  BY <1>2, Counts
<1>4. QED
  BY <1>1, <1>3 DEF Init, RestartsJustified, Restarting

(* What a start or a restart takes from one side of the inequality it puts *)
(* on the same side; only an edit adds to it, and then to both.            *)
LEMMA NextJustified ==
    IInv /\ RestartsJustified /\ [Next]_vars => RestartsJustified'
<1> SUFFICES ASSUME IInv, RestartsJustified, [Next]_vars
             PROVE  RestartsJustified'
  OBVIOUS
<1> DEFINE pending == IF Restarting \/ pc = "walk" THEN 1 ELSE 0
           edits == Cardinality(EditsMade)
<1>1. TypeOK
  BY DEF IInv
<1>2. /\ starts \in Nat /\ edits \in Nat
      /\ Triggering(queue) \in Nat /\ Triggering(batch) \in Nat
  BY <1>1, Counts
<1>3. starts + Triggering(queue) + Triggering(batch) + pending <= 1 + edits
  BY DEF RestartsJustified
<1>4. pending \in 0..1
  OBVIOUS
<1>5. SUFFICES starts' + Triggering(queue') + Triggering(batch') + pending' <= 1 + edits'
  BY DEF RestartsJustified, Triggering
<1>6. ASSUME version' = version
      PROVE  edits' = edits
  BY <1>6 DEF EditsMade
<1>7. ASSUME NEW rest, Continue(rest)
      PROVE  batch' = rest /\ pending' = 0
  BY <1>7 DEF Continue, Restarting
<1> DEFINE Quiet == /\ UNCHANGED <<starts, queue, batch, version>>
                    /\ pending' = pending
<1>8. CASE Quiet
  BY <1>2, <1>3, <1>4, <1>6, <1>8
<1>9. CASE \/ \E d \in Dirs : Reach(d) \/ MakeDir(d) \/ RemoveDir(d)
           \/ WalkDone \/ Snapshot \/ SnapshotFails \/ Signal \/ SignalNobody
           \/ Wait \/ ChildExit \/ UNCHANGED vars
  <2>1. Quiet
    BY <1>9 DEF Reach, AddWatch, RefuseWatch, MakeDir, RemoveDir, WalkDone, Snapshot,
                SnapshotFails, Signal, SignalNobody, Wait, ChildExit, vars, userVars,
                queueVars, Restarting
  <2>2. QED
    BY <1>8, <2>1
<1>10. CASE Start
  <2>1. /\ starts' = starts + 1 /\ queue' = queue /\ version' = version
        /\ batch' = batch /\ pending' = 0 /\ pending = 1
    BY <1>7, <1>10 DEF Start, userVars, Restarting
  <2> HIDE DEF pending, edits
  <2>2. QED
    BY <1>2, <1>3, <1>6, <2>1
<1>11. CASE StartFails \/ WalkCrashes
  <2>1. /\ starts' = starts /\ queue' = queue /\ version' = version
        /\ batch' = batch /\ pending' = 0
    BY <1>7, <1>11 DEF StartFails, WalkCrashes, userVars, queueVars, Restarting
  <2> HIDE DEF pending, edits
  <2>2. QED
    BY <1>2, <1>3, <1>4, <1>6, <2>1
<1>12. CASE Read
  <2>1. PICK n \in 1..Len(queue) : /\ Continue(SubSeq(queue, 1, n))
                                   /\ queue' = SubSeq(queue, n + 1, Len(queue))
    BY <1>1, <1>12, BatchSize
  <2>2. /\ starts' = starts /\ version' = version
        /\ batch = <<>> /\ batch' = SubSeq(queue, 1, n) /\ pending' = 0
    BY <1>7, <1>12, <2>1 DEF Read, userVars, IInv, BatchInHand
  <2>3. Triggering(queue) = Triggering(batch') + Triggering(queue')
    <3>1. queue \in Seq(Events)
      BY <1>1 DEF TypeOK
    <3>2. Triggering(queue) = Triggering(SubSeq(queue, 1, n))
                                + Triggering(SubSeq(queue, n + 1, Len(queue)))
      BY <3>1, TriggeringSplit
    <3>3. batch' = SubSeq(queue, 1, n) /\ queue' = SubSeq(queue, n + 1, Len(queue))
      BY <2>1, <2>2
    <3> HIDE DEF edits, pending
    <3>4. QED
      BY ONLY <3>2, <3>3
  <2>4. Triggering(batch') \in Nat /\ Triggering(queue') \in Nat
    <3>1. queue' \in Seq(Events) /\ batch' \in Seq(Events)
      BY <1>1, <2>1, <2>2 DEF TypeOK
    <3>2. QED
      BY <3>1, TriggeringIsNat
  <2>5. edits' = edits
    BY <1>6, <2>2
  <2> DEFINE queued == Triggering(queue)
             inHand == Triggering(batch)
             read   == Triggering(batch')
             left   == Triggering(queue')
  <2>6. /\ starts + queued + inHand + pending <= 1 + edits
        /\ queued = read + left /\ read \in Nat /\ left \in Nat
        /\ inHand \in Nat /\ pending \in 0..1 /\ starts \in Nat /\ edits \in Nat
    BY <1>2, <1>3, <1>4, <2>3, <2>4
  <2>7. starts' = starts /\ pending' = 0
    BY <2>2
  <2> HIDE DEF pending, edits, queued, inHand, read, left
  <2>8. starts' + left + read + pending' <= 1 + edits'
    BY <2>5, <2>6, <2>7
  <2>9. QED
    BY <2>8 DEF left, read
<1>13. CASE Skip
  <2>1. batch \in Seq(Events) /\ batch # <<>> /\ ~Triggers(Head(batch))
    BY <1>1, <1>13 DEF Skip, TypeOK, IInv, BatchInHand
  <2>2. /\ starts' = starts /\ queue' = queue /\ version' = version
        /\ batch' = Tail(batch) /\ pending' = 0
    BY <1>7, <1>13 DEF Skip, userVars, queueVars
  <2>3. Triggering(batch) = Triggering(Tail(batch)) + 0
    <3>1. Triggering(batch) = Triggering(Tail(batch))
                                + (IF Triggers(Head(batch)) THEN 1 ELSE 0)
      BY <2>1, TriggeringTail
    <3>2. (IF Triggers(Head(batch)) THEN 1 ELSE 0) = 0
      BY <2>1
    <3>3. QED
      BY <3>1, <3>2
  <2>4. Triggering(Tail(batch)) \in Nat
    <3>1. Tail(batch) \in Seq(Events)
      BY <2>1
    <3>2. QED
      BY <3>1, TriggeringIsNat
  <2> HIDE DEF pending, edits
  <2>5. QED
    BY <1>2, <1>3, <1>4, <1>6, <2>2, <2>3, <2>4
<1>14. CASE Restart
  <2>1. batch \in Seq(Events) /\ batch # <<>> /\ Triggers(Head(batch))
    BY <1>1, <1>14 DEF Restart, TypeOK, IInv, BatchInHand
  <2>2. /\ starts' = starts /\ queue' = queue /\ version' = version
        /\ batch' = Tail(batch) /\ pending' = 1 /\ pending = 0
    BY <1>14 DEF Restart, userVars, queueVars, Restarting
  <2>3. Triggering(batch) = Triggering(Tail(batch)) + 1
    <3>1. Triggering(batch) = Triggering(Tail(batch))
                                + (IF Triggers(Head(batch)) THEN 1 ELSE 0)
      BY <2>1, TriggeringTail
    <3>2. (IF Triggers(Head(batch)) THEN 1 ELSE 0) = 1
      BY <2>1
    <3>3. QED
      BY <3>1, <3>2
  <2>4. Triggering(Tail(batch)) \in Nat
    <3>1. Tail(batch) \in Seq(Events)
      BY <2>1
    <3>2. QED
      BY <3>1, TriggeringIsNat
  <2> HIDE DEF pending, edits
  <2>5. QED
    BY <1>2, <1>3, <1>6, <2>2, <2>3, <2>4
<1>15. ASSUME NEW f \in Files, Edit(f)
       PROVE  starts' + Triggering(queue') + Triggering(batch') + pending' <= 1 + edits'
  <2> DEFINE one == IF Triggers(f) THEN 1 ELSE 0
  <2>1. one \in Nat
    OBVIOUS
  <2>2. /\ starts' = starts /\ batch' = batch /\ pending' = pending
        /\ queue' = queue \/ queue' = Queued(f)
    BY <1>15 DEF Edit, queueVars, Restarting
  <2>3. edits' = edits + one
    BY <1>1, <1>15, EditsMadeGrows DEF Edit, TypeOK
  <2>4. Triggering(Queued(f)) \in Nat /\ Triggering(Queued(f)) <= Triggering(queue) + one
    <3>1. queue \in Seq(Events) /\ Queued(f) \in Seq(Events)
      BY <1>1 DEF TypeOK, Queued, Events
    <3>2. QED
      BY <3>1, TriggeringIsNat, TriggeringQueued
  <2> HIDE DEF pending, edits, one
  <2>5. Triggering(queue') \in Nat /\ Triggering(queue') <= Triggering(queue) + one
    BY <1>2, <2>1, <2>2, <2>4
  <2>6. QED
    BY <1>2, <1>3, <1>4, <2>1, <2>2, <2>3, <2>5
<1>16. QED
  BY <1>9, <1>10, <1>11, <1>12, <1>13, <1>14, <1>15
     DEF Next, Cmon, Loop, Environment

(* cmon never restarts on its own account: the starts after the first, and *)
(* those that are still to come of what is queued, read or under way, are  *)
(* no more than the edits of files that trigger.  (inotify.c 52-94.)       *)
THEOREM RestartsAreJustified == Spec => []RestartsJustified
<1>1. QED
  BY InitJustified, NextJustified, Invariance, PTL DEF Spec

-----------------------------------------------------------------------------
(***************************************************************************)
(* Refinement: the safety part of LiveReload.                              *)
(***************************************************************************)

(* A step that leaves edits, versions and the application alone is no step *)
(* of LiveReload.                                                          *)
LEMMA Stutter ==
    ASSUME UNCHANGED <<version, base, child>>
    PROVE  UNCHANGED Live!vars
BY DEF Live!vars, Stale

(* The walk starts where LiveReload does.                                  *)
LEMMA InitLive == Init => Live!Init
BY DEF Init, Live!Init, Stale, Relevant

(* Each step maps to one of LiveReload or to none: Start to Start, Wait to *)
(* Collect, an exit to Exit, an edit of a relevant file to Edit.           *)
LEMMA NextLive == IInv /\ [Next]_vars => [Live!Next]_(Live!vars)
<1> SUFFICES ASSUME IInv, [Next]_vars PROVE [Live!Next]_(Live!vars)
  OBVIOUS
<1> USE DEF IInv, userVars, queueVars
<1>1. CASE \/ \E d \in Dirs : Reach(d)
           \/ WalkDone \/ WalkCrashes \/ StartFails \/ Read \/ Skip \/ Restart
           \/ Snapshot \/ SnapshotFails \/ Signal \/ SignalNobody
           \/ \E d \in Dirs : MakeDir(d)
           \/ \E d \in Dirs : RemoveDir(d)
           \/ UNCHANGED vars
  <2>1. UNCHANGED <<version, base, child>>
    BY <1>1 DEF Reach, AddWatch, RefuseWatch, WalkDone, WalkCrashes, StartFails, Read,
                Skip, Restart, Snapshot, SnapshotFails, Signal, SignalNobody, MakeDir,
                RemoveDir, vars
  <2>2. QED
    BY <2>1, Stutter
<1>2. CASE Start
  <2>1. child = "none" /\ child' = "running" /\ base' = version /\ version' = version
    BY <1>2 DEF Start, DownAtStart
  <2>2. {f \in Relevant : Stale(f)}' = {}
    BY <2>1 DEF Stale
  <2>3. Live!Start
    BY <2>1, <2>2 DEF Live!Start
  <2>4. QED
    BY <2>3 DEF Live!Next
<1>3. CASE Wait
  <2>1. version' = version /\ base' = base /\ child' = "none" /\ child \in {"none", "dead"}
    BY <1>3 DEF Wait, TypeOK
  <2>2. CASE child = "none"
    BY <2>1, <2>2, Stutter
  <2>3. CASE child = "dead"
    BY <2>1, <2>3 DEF Live!Collect, Live!Next, Stale
  <2>4. QED
    BY <2>1, <2>2, <2>3
<1>4. CASE ChildExit
  BY <1>4 DEF ChildExit, Live!Exit, Live!Next, Stale
<1>5. ASSUME NEW f \in Files, Edit(f)
      PROVE  [Live!Next]_(Live!vars)
  <2>1. /\ version' = [version EXCEPT ![f] = @ + 1]
        /\ base' = base /\ child' = child
    BY <1>5 DEF Edit
  <2>2. \A g \in Relevant : g # f => (Stale(g)' <=> Stale(g))
    BY <2>1 DEF Stale, TypeOK, Relevant
  <2>3. Stale(f)'
    BY <2>1 DEF Stale, TypeOK, BaseBehind
  <2>4. CASE f \in Relevant
    <3>1. {g \in Relevant : Stale(g)}' = {g \in Relevant : Stale(g)} \union {f}
      BY <2>2, <2>3, <2>4
    <3>2. Live!Edit(f)
      BY <2>1, <3>1 DEF Live!Edit
    <3>3. QED
      BY <2>4, <3>2 DEF Live!Next
  <2>5. CASE f \notin Relevant
    <3>1. {g \in Relevant : Stale(g)}' = {g \in Relevant : Stale(g)}
      BY <2>2, <2>5
    <3>2. QED
      BY <2>1, <3>1 DEF Live!vars
  <2>6. QED
    BY <2>4, <2>5
<1>6. QED
  BY <1>1, <1>2, <1>3, <1>4, <1>5 DEF Next, Cmon, Loop, Environment

(* cmon never has two applications at a time, starts one only when the     *)
(* last is collected, and starts it with every edit so far.                *)
THEOREM Refinement == Spec => OneFreshInstance
<1>1. QED
  BY InitLive, NextLive, Invariance, PTL DEF Spec, OneFreshInstance, Live!Spec

=============================================================================
