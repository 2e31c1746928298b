--------------------------- MODULE DirWalkProofs ---------------------------
(***************************************************************************)
(* For every tree of directories, every ignore list, every limit, and      *)
(* whatever the user makes and removes during the walk: no ignored         *)
(* directory is watched, nor anything below one; nothing that was there    *)
(* all along is left out; an array with room enough is the only one; the   *)
(* walk is the one that Watcher begins with; and its paths are compared    *)
(* with the entries of ignoreDirs as they are spelled.                     *)
(***************************************************************************)
EXTENDS DirWalk, FiniteSetTheorems, SequenceTheorems, WellFoundedInduction, TLAPS

Closed(S) == /\ IgnoreDirs \subseteq S
             /\ \A c \in Dirs \ {Root} : Parent[c] \in S => c \in S

(* The working directory is not skipped.                                   *)
LEMMA RootNotSkipped == Root \in Dirs \ Skipped
<1> DEFINE S == Dirs \ {Root}
<1>1. Root \in Dirs
  BY DirAssumption
<1>2. S \in SUBSET Dirs /\ Closed(S)
  BY DirAssumption DEF Closed
<1>3. Root \notin S
  OBVIOUS
<1> HIDE DEF S
<1>4. QED
  BY <1>1, <1>2, <1>3 DEF Skipped, Closed

(* An entry of a directory that is not skipped is skipped only if it is    *)
(* ignored itself (inotify.c 115).                                         *)
LEMMA EntryNotSkipped ==
    ASSUME NEW d \in Dirs \ Skipped, NEW c \in Dirs \ {Root},
           Parent[c] = d, c \notin IgnoreDirs
    PROVE  c \in Dirs \ Skipped
<1>1. PICK S \in SUBSET Dirs : Closed(S) /\ d \notin S
  BY DEF Skipped, Closed
<1> DEFINE T == S \ {c}
<1>2. T \in SUBSET Dirs /\ c \notin T
  OBVIOUS
<1>3. Closed(T)
  <2>1. IgnoreDirs \subseteq T
    BY <1>1 DEF Closed
  <2>2. ASSUME NEW e \in Dirs \ {Root}, Parent[e] \in T
        PROVE  e \in T
    <3>1. e \in S
      BY <1>1, <2>2 DEF Closed
    <3>2. e # c
      BY <1>1, <2>2
    <3>3. QED
      BY <3>1, <3>2
  <2>3. QED
    BY <2>1, <2>2 DEF Closed
<1> HIDE DEF T
<1>4. QED
  BY <1>2, <1>3 DEF Skipped, Closed

(* Replacing the innermost call, and calling once more.                    *)
LEMMA StackFacts ==
    ASSUME NEW S, NEW s \in Seq(S), s # <<>>
    PROVE  /\ Last(s) \in S
           /\ Front(s) \in Seq(S)
           /\ \A e \in S : Append(Front(s), e) \in Seq(S)
           /\ \A e, f \in S : Front(s) \o <<e, f>> \in Seq(S)
<1>1. Len(s) \in Nat \ {0}
  OBVIOUS
<1>2. Last(s) \in S
  BY <1>1 DEF Last
<1>3. Front(s) \in Seq(S)
  BY <1>1 DEF Front
<1>4. \A e, f \in S : <<e, f>> \in Seq(S)
  OBVIOUS
<1>5. QED
  BY <1>2, <1>3, <1>4

(* A larger set has all the sequences of a smaller one.                    *)
LEMMA SeqMonotone ==
    ASSUME NEW S, NEW T, S \subseteq T, NEW s \in Seq(S)
    PROVE  s \in Seq(T)
OBVIOUS

(* A sequence with one element replaced.                                   *)
LEMMA Replaced ==
    ASSUME NEW S, NEW s \in Seq(S), NEW i \in 1..Len(s)
    PROVE  /\ s[i] \in S
           /\ \A e \in S : /\ [s EXCEPT ![i] = e] \in Seq(S)
                           /\ Len([s EXCEPT ![i] = e]) = Len(s)
OBVIOUS

(* cmon_int_arr_add() on a pointer that is NULL or an array gives another  *)
(* such pointer, and no array goes away (c_int_array.c 35-61).             *)
LEMMA AddedFacts ==
    ASSUME TypeOK, NEW a \in 0..Len(heap), NEW wd \in Dirs \union {Failed}
    PROVE  /\ Added(a, wd).heap \in Seq([size : Nat, wds : Seq(Dirs \union {Failed}),
                                         freed : BOOLEAN])
           /\ Len(heap) <= Len(Added(a, wd).heap)
           /\ Added(a, wd).arr \in 0..Len(Added(a, wd).heap)
<1> DEFINE Arrays == [size : Nat, wds : Seq(Dirs \union {Failed}), freed : BOOLEAN]
           len == Len(heap[a].wds)
           new == Append(heap[a].wds, wd)
<1>1. heap \in Seq(Arrays)
  BY DEF TypeOK
<1>2. CASE a = NULL \/ len + 1 > MaxArraySize
  <2>1. Added(a, wd) = [arr |-> NULL, heap |-> heap]
    BY <1>2 DEF Added
  <2>2. QED
    BY <1>1, <2>1 DEF NULL
<1>3. CASE ~(a = NULL \/ len + 1 > MaxArraySize)
  <2>0. a \in 1..Len(heap)
    BY <1>1, <1>3 DEF NULL
  <2>1. /\ heap[a] \in Arrays
        /\ \A r \in Arrays : /\ [heap EXCEPT ![a] = r] \in Seq(Arrays)
                              /\ Len([heap EXCEPT ![a] = r]) = Len(heap)
    <3> HIDE DEF Arrays
    <3>1. QED
      BY <1>1, <2>0, Replaced
  <2>2. new \in Seq(Dirs \union {Failed})
    BY <2>1
  <2>3. CASE heap[a].size < len + 1
    <3> DEFINE old == [heap EXCEPT ![a].freed = TRUE]
               rec == [size |-> heap[a].size + Increment, wds |-> new, freed |-> FALSE]
    <3>1. Added(a, wd) = [arr |-> Len(heap) + 1, heap |-> Append(old, rec)]
      BY <1>3, <2>3 DEF Added
    <3>2. rec \in Arrays
      BY <2>1, <2>2, SizeAssumption
    <3>3. old \in Seq(Arrays) /\ Len(old) = Len(heap)
      <4>1. [heap[a] EXCEPT !.freed = TRUE] \in Arrays
        BY <2>1
      <4>2. old = [heap EXCEPT ![a] = [heap[a] EXCEPT !.freed = TRUE]]
        BY <1>1, <2>0
      <4> HIDE DEF old, Arrays
      <4>3. QED
        BY <2>1, <4>1, <4>2
    <3>4. Append(old, rec) \in Seq(Arrays) /\ Len(Append(old, rec)) = Len(heap) + 1
      BY <3>2, <3>3
    <3> HIDE DEF old, rec
    <3>5. QED
      BY <1>1, <3>1, <3>4
  <2>4. CASE ~(heap[a].size < len + 1)
    <3> DEFINE h == [heap EXCEPT ![a].wds = new]
    <3>1. Added(a, wd) = [arr |-> a, heap |-> h]
      BY <1>3, <2>4 DEF Added
    <3>2. h \in Seq(Arrays) /\ Len(h) = Len(heap)
      <4>1. [heap[a] EXCEPT !.wds = new] \in Arrays
        BY <2>1, <2>2
      <4>2. h = [heap EXCEPT ![a] = [heap[a] EXCEPT !.wds = new]]
        BY <1>1, <2>0
      <4> HIDE DEF h, new, Arrays
      <4>3. QED
        BY <2>1, <4>1, <4>2
    <3> HIDE DEF h
    <3>3. QED
      BY <1>1, <3>1, <3>2
  <2>5. QED
    BY <2>3, <2>4
<1>4. QED
  BY <1>2, <1>3

-----------------------------------------------------------------------------
(* The set the type invariant gives the calls, and what Calls adds.        *)
CallType ==
    [dir : Dirs, open : BOOLEAN, must : SUBSET Dirs,
     seen : SUBSET (Dirs \union {"."}), arr : Nat]

(* The active calls are well typed.                                        *)
LEMMA CallsTyped == Len(heap) \in Nat => Calls \subseteq CallType
BY DEF Calls, CallType

(* main() calls the walk for the working directory.                        *)
LEMMA InitCalls == Init => CallsInv
<1> SUFFICES ASSUME Init PROVE CallsInv
  OBVIOUS
<1>0. PICK n \in InitialSizes : heap = <<[size |-> n, wds |-> <<>>, freed |-> FALSE]>>
  BY DEF Init
<1>1. /\ heap \in Seq([size : Nat, wds : Seq(Dirs \union {Failed}), freed : BOOLEAN])
      /\ Len(heap) = 1
  BY <1>0, SizeAssumption
<1>2. Call(Root, 1) \in Calls
  BY <1>1, RootNotSkipped DEF Call, Calls
<1>3. stack \in Seq(Calls)
  BY <1>2 DEF Init
<1>4. stack \in Seq(CallType)
  BY <1>1, <1>3, CallsTyped, SeqMonotone
<1>5. TypeOK
  BY <1>1, <1>4, DirAssumption DEF Init, TypeOK, CallType
<1>6. QED
  BY <1>1, <1>3, <1>5 DEF Init, CallsInv, NothingSkippedWatched

(* One entry: the watch, its record and the call (inotify.c 115-122).      *)
LEMMA RecordKeepsCalls ==
    ASSUME CallsInv, Running, NEW d \in Dirs \ Skipped,
           NEW wd \in {d, Failed}, NEW entry \in Dirs \union {"."},
           Record(d, wd, entry), UNCHANGED <<pc, exists, opened>>
    PROVE  CallsInv'
<1> DEFINE Arrays == [size : Nat, wds : Seq(Dirs \union {Failed}), freed : BOOLEAN]
           added == Added(Top.arr, wd)
           frame == [Top EXCEPT !.seen = @ \union {entry}, !.arr = added.arr]
<1>1. stack \in Seq(Calls) /\ stack # <<>> /\ TypeOK
  BY DEF CallsInv, Running
<1>2. Top \in Calls
  BY <1>1, StackFacts DEF Top
<1>3. /\ watched' \subseteq watched \union {d}
      /\ refused' \subseteq refused \union {d}
  BY DEF Record, Watch
<1>4. /\ added.heap \in Seq(Arrays)
      /\ Len(heap) <= Len(added.heap)
      /\ added.arr \in 0..Len(added.heap)
  <2>1. Top.arr \in 0..Len(heap)
    BY <1>2 DEF Calls
  <2>2. QED
    BY <1>1, <2>1, AddedFacts
<1>5. /\ heap' = added.heap
      /\ misused' \in BOOLEAN
      /\ stack' = IF entry = "." THEN Append(Front(stack), frame)
                  ELSE Front(stack) \o <<frame, Call(d, added.arr)>>
  BY <1>1 DEF Record, TypeOK
<1> HIDE DEF added
<1>6. Len(heap) \in Nat /\ Len(heap') \in Nat /\ Len(heap) <= Len(heap')
  BY <1>1, <1>4, <1>5 DEF TypeOK
<1>7. Calls \subseteq Calls'
  BY <1>6 DEF Calls
<1>8. frame \in Calls'
  BY <1>2, <1>4, <1>5 DEF Calls
<1>9. Call(d, added.arr) \in Calls'
  BY <1>4, <1>5 DEF Calls, Call
<1>10. stack' \in Seq(Calls')
  <2>1. stack \in Seq(Calls')
    BY <1>1, <1>7, SeqMonotone
  <2> HIDE DEF frame
  <2>2. QED
    BY <1>1, <1>5, <1>8, <1>9, <2>1, StackFacts
<1>11. stack' \in Seq(CallType)
  <2>1. Calls' \subseteq CallType
    BY <1>6 DEF Calls, CallType
  <2>2. QED
    BY <1>10, <2>1, SeqMonotone
<1>12. TypeOK'
  BY <1>1, <1>3, <1>4, <1>5, <1>11 DEF TypeOK, CallType
<1>13. NothingSkippedWatched'
  BY <1>3 DEF CallsInv, NothingSkippedWatched
<1>14. heap' # <<>>
  <2>1. Len(heap) > 0
    BY <1>1, <1>6 DEF CallsInv, TypeOK
  <2>2. Len(heap') > 0
    BY <1>6, <2>1
  <2>3. QED
    BY <2>2
<1>15. QED
  BY <1>10, <1>12, <1>13, <1>14 DEF CallsInv

(* A step that leaves the arrays alone keeps the invariant if its new      *)
(* stack is one of calls and it watches nothing more.                      *)
LEMMA FrameKeepsCalls ==
    ASSUME CallsInv, UNCHANGED heap, stack' \in Seq(Calls),
           pc' \in {"walk", "done", "crashed"}, exists' \subseteq Dirs,
           watched' \subseteq watched, UNCHANGED refused,
           opened' \in Nat, misused' \in BOOLEAN
    PROVE  CallsInv'
<1>1. Calls' = Calls /\ Len(heap) \in Nat
  BY DEF Calls, CallsInv, TypeOK
<1>2. stack' \in Seq(CallType)
  BY <1>1, CallsTyped, SeqMonotone
<1>3. TypeOK'
  BY <1>2 DEF CallsInv, TypeOK, CallType
<1>4. QED
  BY <1>1, <1>3 DEF CallsInv, NothingSkippedWatched

(* Every step of the walk and of the user keeps the invariant.             *)
LEMMA NextCalls == CallsInv /\ [Next]_vars => CallsInv'
<1> SUFFICES ASSUME CallsInv, [Next]_vars PROVE CallsInv'
  OBVIOUS
<1>0. TypeOK /\ stack \in Seq(Calls)
  BY DEF CallsInv
<1>1. CASE Open
  <2>1. Running /\ Top \in Calls /\ Front(stack) \in Seq(Calls)
    BY <1>0, <1>1, StackFacts DEF Open, Running, Top
  <2>2. CASE Top.dir \in exists /\ opened < MaxOpen
    <3> DEFINE new == [Top EXCEPT !.open = TRUE, !.must = SubDirs(Top.dir)]
    <3>1. new \in Calls
      BY <1>0, <2>1 DEF Calls, SubDirs, TypeOK
    <3>2. stack' = Append(Front(stack), new)
      BY <1>1, <2>2 DEF Open
    <3> HIDE DEF new
    <3>3. stack' \in Seq(Calls)
      BY <2>1, <3>1, <3>2
    <3>4. QED
      BY <1>0, <1>1, <2>2, <3>3, FrameKeepsCalls DEF Open, TypeOK
  <2>3. CASE ~(Top.dir \in exists /\ opened < MaxOpen)
    BY <1>0, <1>1, <2>3, FrameKeepsCalls DEF Open, TypeOK
  <2>4. QED
    BY <2>2, <2>3
<1>2. ASSUME NEW d \in Dirs, Entry(d)
      PROVE  CallsInv'
  <2>1. Running /\ Top \in Calls
    BY <1>0, <1>2, StackFacts DEF Entry, Running, Top
  <2>2. d \in Dirs \ {Root} /\ Parent[d] = Top.dir /\ d \notin IgnoreDirs
    BY <1>2, <2>1 DEF Entry, SubDirs, Calls
  <2>3. Top.dir \in Dirs \ Skipped
    BY <2>1 DEF Calls
  <2>4. d \in Dirs \ Skipped
    BY <2>2, <2>3, EntryNotSkipped
  <2>5. QED
    BY <1>2, <2>1, <2>4, RecordKeepsCalls DEF Entry
<1>3. CASE Self
  <2>1. Running /\ Top \in Calls
    BY <1>0, <1>3, StackFacts DEF Self, Running, Top
  <2>2. Top.dir \in Dirs \ Skipped
    BY <2>1 DEF Calls
  <2>3. QED
    BY <1>3, <2>1, <2>2, RecordKeepsCalls DEF Self
<1>4. CASE Return
  <2>1. stack' \in Seq(Calls)
    BY <1>0, <1>4, StackFacts DEF Return, Running
  <2>2. QED
    BY <1>0, <1>4, <2>1, FrameKeepsCalls DEF Return, TypeOK
<1>5. CASE Corrupted \/ Done
  BY <1>0, <1>5, FrameKeepsCalls DEF Corrupted, Done, TypeOK
<1>6. ASSUME NEW d \in Dirs, MakeDir(d)
      PROVE  CallsInv'
  BY <1>0, <1>6, FrameKeepsCalls DEF MakeDir, TypeOK
<1>7. ASSUME NEW d \in Dirs, RemoveDir(d)
      PROVE  CallsInv'
  BY <1>0, <1>7, FrameKeepsCalls DEF RemoveDir, TypeOK
<1>8. CASE UNCHANGED vars
  BY <1>0, <1>8, FrameKeepsCalls DEF vars, TypeOK
<1>9. QED
  BY <1>1, <1>2, <1>3, <1>4, <1>5, <1>6, <1>7, <1>8 DEF Next, Walk

-----------------------------------------------------------------------------
(***************************************************************************)
(* The shapes of a step of the walk.                                       *)
(***************************************************************************)

(* The calls below the innermost, and the sequences that the walk makes of *)
(* its stack, element by element.                                          *)
LEMMA LastIndex ==
    ASSUME NEW n \in Nat \ {0}
    PROVE  \A i \in 1..n : i = n \/ i \in 1..(n - 1)
OBVIOUS

LEMMA StackElements ==
    ASSUME NEW S, NEW s \in Seq(S), s # <<>>
    PROVE  /\ Len(s) \in Nat \ {0} /\ DOMAIN s = 1..Len(s)
           /\ Last(s) = s[Len(s)]
           /\ Front(s) \in Seq(S) /\ Len(Front(s)) = Len(s) - 1
           /\ DOMAIN Front(s) = 1..(Len(s) - 1)
           /\ \A i \in 1..(Len(s) - 1) : Front(s)[i] = s[i]
<1>1. Len(s) \in Nat \ {0} /\ DOMAIN s = 1..Len(s)
  OBVIOUS
<1>2. Last(s) = s[Len(s)]
  BY DEF Last
<1>3. /\ Front(s) \in Seq(S) /\ Len(Front(s)) = Len(s) - 1
      /\ \A i \in 1..(Len(s) - 1) : Front(s)[i] = s[i]
  BY <1>1 DEF Front
<1>4. QED
  BY <1>1, <1>2, <1>3

LEMMA TopReplaced ==
    ASSUME NEW S, NEW s \in Seq(S), s # <<>>, NEW e
    PROVE  /\ DOMAIN Append(Front(s), e) = 1..Len(s)
           /\ \A i \in 1..(Len(s) - 1) : Append(Front(s), e)[i] = s[i]
           /\ Append(Front(s), e)[Len(s)] = e
<1> DEFINE T == S \union {e}
<1>1. /\ Len(s) \in Nat \ {0} /\ Front(s) \in Seq(T) /\ e \in T
      /\ Len(Front(s)) = Len(s) - 1
      /\ \A i \in 1..(Len(s) - 1) : Front(s)[i] = s[i]
  BY StackElements
<1> HIDE DEF T
<1>2. /\ Len(Append(Front(s), e)) = Len(Front(s)) + 1
      /\ Append(Front(s), e) \in Seq(T)
      /\ \A i \in 1..Len(Front(s)) : Append(Front(s), e)[i] = Front(s)[i]
      /\ Append(Front(s), e)[Len(Front(s)) + 1] = e
  BY <1>1, AppendProperties
<1>3. Len(Front(s)) + 1 = Len(s)
  BY <1>1
<1>4. DOMAIN Append(Front(s), e) = 1..Len(s)
  BY <1>2, <1>3
<1>5. QED
  BY <1>1, <1>2, <1>3, <1>4

LEMMA TopCalls ==
    ASSUME NEW S, NEW s \in Seq(S), s # <<>>, NEW e, NEW f
    PROVE  /\ DOMAIN (Front(s) \o <<e, f>>) = 1..(Len(s) + 1)
           /\ \A i \in 1..(Len(s) - 1) : (Front(s) \o <<e, f>>)[i] = s[i]
           /\ (Front(s) \o <<e, f>>)[Len(s)] = e
           /\ (Front(s) \o <<e, f>>)[Len(s) + 1] = f
<1> DEFINE T == S \union {e, f}
<1>1. /\ Len(s) \in Nat \ {0} /\ Front(s) \in Seq(T) /\ e \in T /\ f \in T
      /\ Len(Front(s)) = Len(s) - 1
      /\ \A i \in 1..(Len(s) - 1) : Front(s)[i] = s[i]
  BY StackElements
<1> HIDE DEF T
<1>2. /\ Len(Front(s) \o <<e, f>>) = Len(Front(s)) + 2
      /\ Front(s) \o <<e, f>> \in Seq(T)
      /\ \A i \in 1..Len(Front(s)) : (Front(s) \o <<e, f>>)[i] = Front(s)[i]
      /\ (Front(s) \o <<e, f>>)[Len(Front(s)) + 1] = e
      /\ (Front(s) \o <<e, f>>)[Len(Front(s)) + 2] = f
  <2>1. <<e, f>> \in Seq(T) /\ Len(<<e, f>>) = 2 /\ <<e, f>>[1] = e /\ <<e, f>>[2] = f
    BY <1>1
  <2>2. Len(Front(s)) \in Nat
    BY <1>1
  <2>3. /\ Front(s) \o <<e, f>> \in Seq(T)
        /\ Len(Front(s) \o <<e, f>>) = Len(Front(s)) + Len(<<e, f>>)
        /\ \A i \in 1..(Len(Front(s)) + Len(<<e, f>>)) :
              (Front(s) \o <<e, f>>)[i] = IF i <= Len(Front(s)) THEN Front(s)[i]
                                          ELSE <<e, f>>[i - Len(Front(s))]
    BY <1>1, <2>1, ConcatProperties
  <2>4. QED
    BY <2>1, <2>2, <2>3
<1>3. Len(Front(s)) + 1 = Len(s) /\ Len(Front(s)) + 2 = Len(s) + 1
  BY <1>1
<1>4. DOMAIN (Front(s) \o <<e, f>>) = 1..(Len(s) + 1)
  BY <1>2, <1>3
<1>5. QED
  BY <1>1, <1>2, <1>3, <1>4

(* The innermost call, and the two ways an entry changes the stack.        *)
LEMMA TopFacts ==
    ASSUME CallsInv, Running
    PROVE  /\ Len(stack) \in Nat \ {0} /\ DOMAIN stack = 1..Len(stack)
           /\ Top = stack[Len(stack)] /\ Top \in Calls
<1>1. stack \in Seq(Calls) /\ stack # <<>>
  BY DEF CallsInv, Running
<1>2. QED
  BY <1>1, StackElements, StackFacts DEF Top

LEMMA RecordShape ==
    ASSUME CallsInv, Running, NEW d, NEW wd, NEW entry, Record(d, wd, entry)
    PROVE  /\ \A i \in 1..(Len(stack) - 1) : stack'[i] = stack[i]
           /\ stack'[Len(stack)] = [Top EXCEPT !.seen = @ \union {entry},
                                               !.arr = Added(Top.arr, wd).arr]
           /\ entry = "." => DOMAIN stack' = 1..Len(stack)
           /\ entry # "." => /\ DOMAIN stack' = 1..(Len(stack) + 1)
                             /\ stack'[Len(stack) + 1] = Call(d, Added(Top.arr, wd).arr)
<1> DEFINE arr == Added(Top.arr, wd).arr
           frame == [Top EXCEPT !.seen = @ \union {entry}, !.arr = arr]
<1>1. stack \in Seq(Calls) /\ stack # <<>>
  BY DEF CallsInv, Running
<1>2. stack' = IF entry = "." THEN Append(Front(stack), frame)
               ELSE Front(stack) \o <<frame, Call(d, arr)>>
  BY DEF Record
<1> HIDE DEF frame, arr
<1>3. /\ \A i \in 1..(Len(stack) - 1) : stack'[i] = stack[i]
      /\ stack'[Len(stack)] = frame
      /\ entry = "." => DOMAIN stack' = 1..Len(stack)
      /\ entry # "." => /\ DOMAIN stack' = 1..(Len(stack) + 1)
                        /\ stack'[Len(stack) + 1] = Call(d, arr)
  BY <1>1, <1>2, StackElements, TopReplaced, TopCalls
<1>4. QED
  BY <1>3 DEF frame, arr

(* Each call afterwards is one of before, but for its pointer and what it  *)
(* has seen, or the one made.                                              *)
LEMMA RecordFrames ==
    ASSUME CallsInv, Running, NEW d, NEW wd, NEW entry, Record(d, wd, entry)
    PROVE  \A i \in DOMAIN stack' :
              \/ /\ i \in DOMAIN stack
                 /\ stack'[i].dir = stack[i].dir /\ stack'[i].must = stack[i].must
                 /\ stack'[i].arr \in {stack[i].arr, Added(Top.arr, wd).arr}
              \/ entry # "." /\ stack'[i] = Call(d, Added(Top.arr, wd).arr)
<1> DEFINE n == Len(stack)
           arr == Added(Top.arr, wd).arr
<1>1. n \in Nat \ {0} /\ DOMAIN stack = 1..n /\ Top = stack[n] /\ Top \in Calls
  BY TopFacts
<1>2. /\ \A i \in 1..(n - 1) : stack'[i] = stack[i]
      /\ stack'[n] = [Top EXCEPT !.seen = @ \union {entry}, !.arr = arr]
      /\ entry = "." => DOMAIN stack' = 1..n
      /\ entry # "." => DOMAIN stack' = 1..(n + 1) /\ stack'[n + 1] = Call(d, arr)
  BY RecordShape
<1> HIDE DEF n, arr
<1>3. stack'[n].dir = Top.dir /\ stack'[n].must = Top.must /\ stack'[n].arr = arr
  BY <1>1, <1>2 DEF Calls
<1>4. \A i \in DOMAIN stack' : i \in 1..(n - 1) \/ i = n \/ (entry # "." /\ i = n + 1)
  BY <1>1, <1>2
<1>5. n \in DOMAIN stack /\ 1..(n - 1) \subseteq DOMAIN stack
  BY <1>1
<1>6. QED
  BY <1>1, <1>2, <1>3, <1>4, <1>5 DEF arr

-----------------------------------------------------------------------------
(***************************************************************************)
(* Nothing that stays is left out.                                         *)
(***************************************************************************)

(* The lasting directories are the least set that has those to watch and   *)
(* what they are in.                                                       *)
LEMMA LastingWithin ==
    ASSUME NEW S \in SUBSET Dirs, ToWatch \subseteq S, \A c \in S \ {Root} : Parent[c] \in S
    PROVE  Lasting \subseteq S
BY DEF Lasting

(* The lasting directories are not skipped, and are in lasting ones.       *)
LEMMA LastingFacts ==
    /\ ToWatch \subseteq Lasting /\ Lasting \subseteq Dirs \ Skipped
    /\ \A d \in Lasting \ {Root} : Parent[d] \in Lasting
    /\ Rooted /\ exists \subseteq Dirs => Lasting \subseteq exists
<1>2. ToWatch \subseteq Lasting
  BY DirAssumption DEF Lasting, ToWatch
<1>3. \A d \in Lasting \ {Root} : Parent[d] \in Lasting
  BY DirAssumption DEF Lasting
<1>4. Lasting \subseteq Dirs \ Skipped
  <2> DEFINE S == InitialDirs \ Skipped
  <2>1. S \in SUBSET Dirs /\ ToWatch \subseteq S
    BY DirAssumption DEF ToWatch
  <2>2. ASSUME NEW c \in S \ {Root}
        PROVE  Parent[c] \in S
    <3>1. c \in Dirs \ {Root} /\ Parent[c] \in InitialDirs
      BY DirAssumption, TreeAssumption
    <3>2. Parent[c] \in Skipped => c \in Skipped
      BY <3>1 DEF Skipped
    <3>3. QED
      BY <3>1, <3>2
  <2> HIDE DEF S
  <2>3. Lasting \subseteq S
    BY <2>1, <2>2, LastingWithin
  <2>4. QED
    BY <2>3, DirAssumption DEF S
<1>5. Rooted /\ exists \subseteq Dirs => Lasting \subseteq exists
  BY LastingWithin DEF Rooted
<1>6. QED
  BY <1>2, <1>3, <1>4, <1>5

(* The directories there are always form a tree that has the lasting ones. *)
LEMMA RootedAlways ==
    /\ Init => Rooted
    /\ CallsInv /\ Rooted /\ [Next]_vars => Rooted'
<1>1. Init => Rooted
  BY DirAssumption, TreeAssumption DEF Init, Rooted, ToWatch
<1>2. ASSUME CallsInv, Rooted, [Next]_vars
      PROVE  Rooted'
  <2>1. ASSUME NEW d \in Dirs, MakeDir(d)
        PROVE  Rooted'
    BY <1>2, <2>1 DEF MakeDir, Rooted
  <2>2. ASSUME NEW d \in Dirs, RemoveDir(d)
        PROVE  Rooted'
    <3>1. exists' = exists \ {d} /\ d \in Removable /\ SubDirs(d) = {}
      BY <2>2 DEF RemoveDir
    <3>2. d # Root /\ d \notin ToWatch
      BY <3>1, DirAssumption DEF ToWatch
    <3>3. QED
      BY <1>2, <3>1, <3>2 DEF Rooted, SubDirs
  <2>3. CASE UNCHANGED exists
    BY <1>2, <2>3 DEF Rooted
  <2>4. Walk \/ UNCHANGED vars => UNCHANGED exists
    BY DEF Walk, Open, Entry, Self, Return, Corrupted, Done, vars
  <2>5. QED
    BY <1>2, <2>1, <2>2, <2>3, <2>4 DEF Next
<1>3. QED
  BY <1>1, <1>2

(* The working directory stays, and what stays is not ignored.             *)
LEMMA RootLasting == Root \in Lasting /\ Lasting \intersect IgnoreDirs = {}
<1>1. Root \in ToWatch
  BY DirAssumption, RootNotSkipped DEF ToWatch
<1>2. IgnoreDirs \subseteq Skipped
  BY DirAssumption DEF Skipped
<1>3. QED
  BY <1>1, <1>2, LastingFacts

(* The walk begins with the working directory, and nothing read of it.     *)
LEMMA InitLeavesNothing == Init => Listed /\ Finished
<1> SUFFICES ASSUME Init PROVE Listed /\ Finished
  OBVIOUS
<1>1. DOMAIN stack = {1} /\ stack[1] = Call(Root, 1)
  BY DEF Init
<1>2. Listed
  BY <1>1 DEF Listed, Call
<1>3. Finished
  BY <1>1 DEF Init, Finished, Active, Call, Reached
<1>4. QED
  BY <1>2, <1>3

(* A step that changes neither the calls nor what is reached of the        *)
(* lasting directories.                                                    *)
LEMMA CallsAside ==
    ASSUME Listed, Finished, UNCHANGED stack,
           Reached' \intersect Lasting = Reached \intersect Lasting,
           pc' = "done" => stack = <<>>
    PROVE  Listed' /\ Finished'
<1>1. Listed'
  <2>1. \A d : Entries(d)' = Entries(d)
    BY DEF Entries
  <2>2. QED
    BY <2>1 DEF Listed
<1>2. \A d : Entries(d) \subseteq Lasting
  BY DEF Entries
<1>3. Finished'
  BY <1>2, RootLasting DEF Finished, Active
<1>4. QED
  BY <1>1, <1>3

(* An entry that stays is reached when it is recorded, and the directory   *)
(* it names is called for, or is being read (inotify.c 115-122).           *)
LEMMA RecordLeavesNothing ==
    ASSUME CallsInv, Rooted, Listed, Finished, Running, Top.open,
           NEW d \in Dirs, NEW wd, NEW entry, Record(d, wd, entry),
           UNCHANGED <<pc, exists, opened>>,
           entry # "." => entry = d /\ d # ".",
           entry = "." => d = Top.dir
    PROVE  Listed' /\ Finished'
<1> DEFINE n == Len(stack)
           arr == Added(Top.arr, wd).arr
<1>1. n \in Nat \ {0} /\ DOMAIN stack = 1..n /\ Top = stack[n] /\ Top \in Calls
  BY TopFacts
<1>2. /\ \A i \in 1..(n - 1) : stack'[i] = stack[i]
      /\ stack'[n] = [Top EXCEPT !.seen = @ \union {entry}, !.arr = arr]
      /\ entry = "." => DOMAIN stack' = 1..n
      /\ entry # "." => DOMAIN stack' = 1..(n + 1) /\ stack'[n + 1] = Call(d, arr)
  BY RecordShape
<1> HIDE DEF n, arr
<1>3. /\ stack'[n].dir = Top.dir /\ stack'[n].open /\ stack'[n].must = Top.must
      /\ stack'[n].seen = Top.seen \union {entry}
  BY <1>1, <1>2 DEF Calls
<1>4. entry # "." => /\ stack'[n + 1].dir = d /\ ~stack'[n + 1].open
                     /\ stack'[n + 1].seen = {}
  BY <1>2 DEF Call
<1>5. 1..n \subseteq DOMAIN stack' /\ \A i \in DOMAIN stack' : i \in 1..n \/ i = n + 1
  BY <1>1, <1>2
<1>6. \A i \in 1..n : stack'[i].dir = stack[i].dir
  <2>1. \A i \in 1..n : i \in 1..(n - 1) \/ i = n
    BY <1>1
  <2>2. QED
    BY <1>1, <1>2, <1>3, <2>1
<1>7. Reached \subseteq Reached'
  BY DEF Record, Watch, Reached
<1>8. d \in Lasting => d \in Reached'
  BY LastingFacts DEF Record, Watch, Reached, CallsInv, TypeOK
<1>9. Reached' \subseteq Reached \union {d}
  BY DEF Record, Watch, Reached
<1>10. Listed'
  <2>1. ASSUME NEW i \in 1..(n - 1)
        PROVE  /\ IF stack'[i].open THEN Entries(stack'[i].dir) \subseteq stack'[i].must
                                    ELSE stack'[i].seen = {}
               /\ stack'[i].seen \intersect Lasting \subseteq Reached'
               /\ "." \in stack'[i].seen /\ stack'[i].dir \in Lasting
                     => stack'[i].dir \in Reached'
    <3>1. i \in DOMAIN stack /\ stack'[i] = stack[i]
      BY <1>1, <1>2
    <3>2. QED
      BY <3>1, <1>7 DEF Listed
  <2>2. /\ IF stack'[n].open THEN Entries(stack'[n].dir) \subseteq stack'[n].must
                             ELSE stack'[n].seen = {}
        /\ stack'[n].seen \intersect Lasting \subseteq Reached'
        /\ "." \in stack'[n].seen /\ stack'[n].dir \in Lasting
              => stack'[n].dir \in Reached'
    <3>1. n \in DOMAIN stack
      BY <1>1
    <3>2. /\ Entries(Top.dir) \subseteq Top.must
          /\ Top.seen \intersect Lasting \subseteq Reached
          /\ "." \in Top.seen /\ Top.dir \in Lasting => Top.dir \in Reached
      BY <1>1, <3>1 DEF Listed
    <3>3. entry \in Lasting => entry \in Reached'
      BY <1>8, LastingFacts, DirAssumption
    <3>4. QED
      BY <1>3, <1>7, <1>8, <3>2, <3>3
  <2>3. entry # "." =>
          /\ IF stack'[n + 1].open
             THEN Entries(stack'[n + 1].dir) \subseteq stack'[n + 1].must
             ELSE stack'[n + 1].seen = {}
          /\ stack'[n + 1].seen \intersect Lasting \subseteq Reached'
          /\ "." \in stack'[n + 1].seen /\ stack'[n + 1].dir \in Lasting
                => stack'[n + 1].dir \in Reached'
    BY <1>4
  <2>4. \A i \in DOMAIN stack' : i \in 1..(n - 1) \/ i = n \/ (entry # "." /\ i = n + 1)
    BY <1>1, <1>2
  <2>5. QED
    BY <2>1, <2>2, <2>3, <2>4 DEF Listed
<1>11. \A e : Active(e) => Active(e)'
  BY <1>1, <1>5, <1>6 DEF Active
<1>12. Active(d)'
  <2>1. CASE entry = "."
    BY <1>1, <1>3, <1>5, <2>1 DEF Active
  <2>2. CASE entry # "."
    <3>1. n + 1 \in DOMAIN stack'
      BY <1>1, <1>2, <2>2
    <3>2. QED
      BY <1>4, <2>2, <3>1 DEF Active
  <2>3. QED
    BY <2>1, <2>2
<1>13. Finished'
  BY <1>7, <1>9, <1>11, <1>12 DEF Finished, Running
<1>14. QED
  BY <1>10, <1>13

(* Every step of the walk and of the user.                                 *)
LEMMA NextLeavesNothing ==
    CallsInv /\ Rooted /\ Listed /\ Finished /\ [Next]_vars => Listed' /\ Finished'
<1> SUFFICES ASSUME CallsInv, Rooted, Listed, Finished, [Next]_vars
             PROVE  Listed' /\ Finished'
  OBVIOUS
<1>1. Lasting \subseteq exists /\ Lasting \subseteq Dirs
  BY LastingFacts DEF CallsInv, TypeOK
<1>2. CASE Open
  <2>1. Running /\ ~Top.open /\ UNCHANGED <<watched, refused>>
    BY <1>2 DEF Open
  <2>2. CASE Top.dir \in exists /\ opened < MaxOpen
    <3> DEFINE n == Len(stack)
               new == [Top EXCEPT !.open = TRUE, !.must = SubDirs(Top.dir)]
    <3>1. n \in Nat \ {0} /\ DOMAIN stack = 1..n /\ Top = stack[n] /\ Top \in Calls
      BY <2>1, TopFacts
    <3>2. stack' = Append(Front(stack), new) /\ pc' = pc
      BY <1>2, <2>2 DEF Open
    <3>3. new.open /\ new.must = SubDirs(Top.dir) /\ new.seen = Top.seen /\ new.dir = Top.dir
      BY <3>1 DEF Calls
    <3> HIDE DEF new
    <3>4. /\ DOMAIN stack' = 1..n /\ stack'[n] = new
          /\ \A i \in 1..(n - 1) : stack'[i] = stack[i]
      <4>1. stack \in Seq(Calls) /\ stack # <<>>
        BY <2>1 DEF CallsInv, Running
      <4>2. /\ DOMAIN Append(Front(stack), new) = 1..Len(stack)
            /\ \A i \in 1..(Len(stack) - 1) : Append(Front(stack), new)[i] = stack[i]
            /\ Append(Front(stack), new)[Len(stack)] = new
        BY <4>1, TopReplaced
      <4>3. QED
        BY <3>2, <4>2
    <3> HIDE DEF n
    <3>5. Top.seen = {}
      BY <2>1, <3>1 DEF Listed
    <3>6. Entries(Top.dir) \subseteq SubDirs(Top.dir)
      BY <1>1 DEF Entries, SubDirs
    <3>7. \A i \in DOMAIN stack : i \in DOMAIN stack' /\ stack'[i].dir = stack[i].dir
      BY <3>1, <3>3, <3>4
    <3>8. Reached' = Reached
      BY <2>1 DEF Reached
    <3>9. Listed'
      <4>1. \A i \in DOMAIN stack' : i = n \/ (i \in DOMAIN stack /\ stack'[i] = stack[i])
        BY <3>1, <3>4
      <4>2. QED
        BY <3>3, <3>4, <3>5, <3>6, <3>8, <4>1 DEF Listed
    <3>10. Finished'
      BY <2>1, <3>2, <3>7, <3>8 DEF Finished, Active, Running
    <3>11. QED
      BY <3>9, <3>10
  <2>3. CASE ~(Top.dir \in exists /\ opened < MaxOpen)
    BY <1>2, <2>1, <2>3, CallsAside DEF Open, Reached
  <2>4. QED
    BY <2>2, <2>3
<1>3. ASSUME NEW d \in Dirs, Entry(d)
      PROVE  Listed' /\ Finished'
  <2>1. PICK wd : Record(d, wd, d)
    BY <1>3 DEF Entry
  <2>2. d # "."
    BY DirAssumption
  <2>3. QED
    BY <1>3, <2>1, <2>2, RecordLeavesNothing DEF Entry
<1>4. CASE Self
  <2>1. PICK wd : Record(Top.dir, wd, ".")
    BY <1>4 DEF Self
  <2>2. Top.dir \in Dirs
    BY <1>4, TopFacts DEF Self, Calls
  <2>3. QED
    BY <1>4, <2>1, <2>2, RecordLeavesNothing DEF Self
<1>5. CASE Return
  <2> DEFINE n == Len(stack)
  <2>1. /\ Running /\ Top.open /\ UNCHANGED <<pc, watched, refused>>
        /\ (Top.must \intersect exists) \ IgnoreDirs \subseteq Top.seen
        /\ Top.dir \in exists => "." \in Top.seen
    BY <1>5 DEF Return
  <2>2. n \in Nat \ {0} /\ DOMAIN stack = 1..n /\ Top = stack[n]
    BY <2>1, TopFacts
  <2>3. DOMAIN stack' = 1..(n - 1) /\ \A i \in 1..(n - 1) : stack'[i] = stack[i]
    <3>1. stack \in Seq(Calls) /\ stack # <<>> /\ stack' = Front(stack)
      BY <1>5, <2>1 DEF CallsInv, Running, Return
    <3>2. QED
      BY <3>1, StackElements
  <2> HIDE DEF n
  <2>4. Reached' = Reached
    BY <2>1 DEF Reached
  <2>5. Listed'
    <3>1. \A i \in DOMAIN stack' : i \in DOMAIN stack /\ stack'[i] = stack[i]
      BY <2>2, <2>3
    <3>2. QED
      BY <2>4, <3>1 DEF Listed
  <2>6. /\ Entries(Top.dir) \subseteq Top.must
        /\ Top.seen \intersect Lasting \subseteq Reached
        /\ Top.dir \in Lasting => Top.dir \in Reached
    BY <1>1, <2>1, <2>2 DEF Listed
  <2>7. Entries(Top.dir) \subseteq Reached
    BY <1>1, <2>1, <2>6, RootLasting DEF Entries
  <2>8. \A d : Active(d) => d = Top.dir \/ Active(d)'
    <3>1. \A i \in DOMAIN stack : i = n \/ (i \in DOMAIN stack' /\ stack'[i] = stack[i])
      BY <2>2, <2>3
    <3>2. QED
      BY <2>2, <3>1 DEF Active
  <2>9. Finished'
    BY <2>1, <2>4, <2>6, <2>7, <2>8, RootLasting DEF Finished, Running
  <2>10. QED
    BY <2>5, <2>9
<1>6. CASE Corrupted \/ Done \/ UNCHANGED vars
  BY <1>6, CallsAside DEF Corrupted, Done, vars, Reached, Finished
<1>7. ASSUME NEW d \in Dirs, MakeDir(d)
      PROVE  Listed' /\ Finished'
  BY <1>7, CallsAside DEF MakeDir, Reached, Finished
<1>8. ASSUME NEW d \in Dirs, RemoveDir(d)
      PROVE  Listed' /\ Finished'
  <2>1. Rooted' /\ CallsInv'
    BY RootedAlways, NextCalls
  <2>2. d \notin Lasting
    <3>1. exists' = exists \ {d} /\ exists' \subseteq Dirs
      BY <1>8, <2>1 DEF RemoveDir, CallsInv, TypeOK
    <3>2. Lasting \subseteq exists'
      BY <2>1, <3>1, LastingWithin DEF Rooted
    <3>3. QED
      BY <3>1, <3>2
  <2>3. Reached' \intersect Lasting = Reached \intersect Lasting
    BY <1>8, <2>2 DEF RemoveDir, Reached
  <2>4. QED
    BY <1>8, <2>3, CallsAside DEF RemoveDir, Finished
<1>9. QED
  BY <1>2, <1>3, <1>4, <1>5, <1>6, <1>7, <1>8 DEF Next, Walk

(* When nothing is left to do, the reached directories are closed under    *)
(* "being in", so they are all the lasting ones.                           *)
LEMMA NothingLeftOut ==
    ASSUME Finished, stack = <<>>
    PROVE  ToWatch \subseteq Reached
<1>1. \A d : ~Active(d)
  BY DEF Active
<1> DEFINE S == {d \in Dirs : d \in Lasting => d \in Reached}
<1>2. S \in SUBSET Dirs /\ Root \in S
  BY <1>1, DirAssumption DEF Finished
<1>3. ASSUME NEW d \in Dirs \ {Root}, Parent[d] \in S
      PROVE  d \in S
  <2>1. d \in Lasting => Parent[d] \in Lasting \intersect Reached
    BY <1>3, LastingFacts
  <2>2. d \in Lasting => d \in Entries(Parent[d])
    BY DEF Entries
  <2>3. QED
    BY <1>1, <2>1, <2>2 DEF Finished
<1>4. S = Dirs
  BY <1>2, <1>3, TreeAssumption
<1>5. QED
  BY <1>4, LastingFacts

-----------------------------------------------------------------------------
(***************************************************************************)
(* No directory is called for, recorded or opened twice.                   *)
(***************************************************************************)

Walked == Dirs \ Skipped

(* A set of directories that may be walked, and one more of them.          *)
LEMMA WalkedCounts ==
    ASSUME NEW S \in SUBSET Walked
    PROVE  /\ Cardinality(S) \in Nat /\ Cardinality(Walked) \in Nat
           /\ Cardinality(S) <= Cardinality(Walked)
           /\ \A d \in Walked \ S : /\ Cardinality(S \union {d}) = Cardinality(S) + 1
                                    /\ Cardinality(S) + 1 <= Cardinality(Walked)
<1>1. IsFiniteSet(Walked)
  BY DirAssumption, FS_Subset DEF Walked
<1>2. ASSUME NEW T \in SUBSET Walked
      PROVE  /\ IsFiniteSet(T) /\ Cardinality(T) \in Nat
             /\ Cardinality(T) <= Cardinality(Walked)
  BY <1>1, FS_Subset, FS_CardinalityType
<1>3. Cardinality(Walked) \in Nat
  BY <1>1, FS_CardinalityType
<1>4. ASSUME NEW d \in Walked \ S
      PROVE  /\ Cardinality(S \union {d}) = Cardinality(S) + 1
             /\ Cardinality(S) + 1 <= Cardinality(Walked)
  <2>1. IsFiniteSet(S) /\ d \notin S
    BY <1>2
  <2>2. Cardinality(S \union {d}) = Cardinality(S) + 1
    BY <2>1, FS_AddElement
  <2>3. S \union {d} \in SUBSET Walked
    OBVIOUS
  <2>4. Cardinality(S \union {d}) <= Cardinality(Walked)
    BY <1>2, <2>3
  <2>5. QED
    BY <2>2, <2>4
<1>5. QED
  BY <1>2, <1>3, <1>4

(* The array of main() is one.                                             *)
LEMMA HeapTyped ==
    ASSUME CallsInv
    PROVE  /\ heap \in Seq([size : Nat, wds : Seq(Dirs \union {Failed}), freed : BOOLEAN])
           /\ 1 \in 1..Len(heap)
           /\ \A i \in 1..Len(heap) :
                 heap[i] \in [size : Nat, wds : Seq(Dirs \union {Failed}), freed : BOOLEAN]
           /\ heap[1].wds \in Seq(Dirs \union {Failed})
           /\ Len(heap[1].wds) \in Nat /\ heap[1].size \in Nat
<1> DEFINE Arrays == [size : Nat, wds : Seq(Dirs \union {Failed}), freed : BOOLEAN]
<1>1. heap \in Seq(Arrays) /\ 1 \in 1..Len(heap)
  BY DEF CallsInv, TypeOK
<1>2. \A i \in 1..Len(heap) : heap[i] \in Arrays
  <2> HIDE DEF Arrays
  <2>1. QED
    BY <1>1
<1>3. heap[1] \in Arrays
  BY <1>1, <1>2
<1>4. /\ heap[1].wds \in Seq(Dirs \union {Failed})
      /\ Len(heap[1].wds) \in Nat /\ heap[1].size \in Nat
  BY <1>3
<1>5. QED
  BY <1>1, <1>2, <1>4

(* cmon_int_arr_add() leaves the first array its size, and adds at most    *)
(* one descriptor to it (c_int_array.c 35-61).                             *)
LEMMA AddedOne ==
    ASSUME CallsInv, NEW a \in 0..Len(heap), NEW wd \in Dirs \union {Failed}
    PROVE  /\ Added(a, wd).heap[1].size = heap[1].size
           /\ Len(heap[1].wds) \in Nat /\ Len(Added(a, wd).heap[1].wds) \in Nat
           /\ Len(Added(a, wd).heap[1].wds) <= Len(heap[1].wds) + 1
<1> DEFINE Arrays == [size : Nat, wds : Seq(Dirs \union {Failed}), freed : BOOLEAN]
           len == Len(heap[a].wds)
           new == Append(heap[a].wds, wd)
<1>1. heap \in Seq(Arrays) /\ 1 \in 1..Len(heap)
  BY HeapTyped
<1>2. \A i \in 1..Len(heap) : heap[i] \in Arrays
  BY HeapTyped
<1>3. heap[1] \in Arrays /\ Len(heap[1].wds) \in Nat
  BY <1>1, <1>2
<1>4. CASE a = NULL \/ len + 1 > MaxArraySize
  <2>1. Added(a, wd) = [arr |-> NULL, heap |-> heap]
    BY <1>4 DEF Added
  <2>2. QED
    BY <1>3, <2>1
<1>5. CASE ~(a = NULL \/ len + 1 > MaxArraySize)
  <2>1. a \in 1..Len(heap) /\ heap[a] \in Arrays
    BY <1>1, <1>2, <1>5 DEF NULL
  <2>2. new \in Seq(Dirs \union {Failed}) /\ Len(new) = len + 1
    BY <2>1
  <2>3. CASE heap[a].size < len + 1
    <3> DEFINE old == [heap EXCEPT ![a].freed = TRUE]
               rec == [size |-> heap[a].size + Increment, wds |-> new, freed |-> FALSE]
    <3>1. Added(a, wd).heap = Append(old, rec)
      BY <1>5, <2>3 DEF Added
    <3>2. DOMAIN old = 1..Len(heap) /\ Len(old) = Len(heap) /\ old \in Seq(Arrays)
      <4>1. [heap[a] EXCEPT !.freed = TRUE] \in Arrays
        BY <2>1
      <4>2. old = [heap EXCEPT ![a] = [heap[a] EXCEPT !.freed = TRUE]]
        BY <1>1, <2>1
      <4> HIDE DEF old, Arrays
      <4>3. QED
        BY <1>1, <2>1, <4>1, <4>2, Replaced
    <3>3. old[1].size = heap[1].size /\ old[1].wds = heap[1].wds
      BY <1>1, <1>3, <2>1
    <3>4. rec \in Arrays
      BY <2>1, <2>2, SizeAssumption
    <3>5. Append(old, rec)[1] = old[1]
      <4> HIDE DEF old, rec, Arrays
      <4>1. QED
        BY <1>1, <3>2, <3>4
    <3> HIDE DEF old, rec
    <3>6. QED
      BY <1>3, <3>1, <3>3, <3>5
  <2>4. CASE ~(heap[a].size < len + 1)
    <3> DEFINE h == [heap EXCEPT ![a].wds = new]
    <3>1. Added(a, wd).heap = h
      BY <1>5, <2>4 DEF Added
    <3>2. h[1].size = heap[1].size
      BY <1>1, <1>3, <2>1
    <3>3. a # 1 => h[1].wds = heap[1].wds
      BY <1>1, <1>3, <2>1
    <3>4. a = 1 => h[1].wds = new
      BY <1>1, <1>3, <2>1
    <3> HIDE DEF h, new
    <3>5. QED
      BY <1>3, <2>2, <3>1, <3>2, <3>3, <3>4
  <2>5. QED
    BY <2>3, <2>4
<1>6. QED
  BY <1>4, <1>5

(* main()'s call is the only one so far.                                   *)
LEMMA InitOnce == Init => OnceEach
<1> SUFFICES ASSUME Init PROVE OnceEach
  OBVIOUS
<1>1. /\ DOMAIN stack = {1} /\ stack[1].dir = Root /\ stack[1].seen = {} /\ ~stack[1].open
      /\ heap[1].wds = <<>> /\ opened = 0
  BY DEF Init, Call
<1>2. Cardinality({Root}) = 1 /\ Cardinality({}) = 0
  BY FS_Singleton, FS_EmptySet
<1>3. {Root} \in SUBSET (Dirs \ Skipped) /\ {} \in SUBSET (Dirs \ Skipped)
  BY RootNotSkipped
<1>4. Len(heap[1].wds) + 1 <= Cardinality({Root}) + Cardinality({})
  BY <1>1, <1>2
<1>5. opened <= Cardinality({})
  BY <1>1, <1>2
<1>6. ASSUME NEW i \in DOMAIN stack
      PROVE  i = 1
  BY <1>1
<1>7. Once({Root}, {}, {})
  BY <1>1, <1>4, <1>5, <1>6 DEF Once
<1>8. QED
  BY <1>3, <1>7 DEF OnceEach

(* An entry that is recorded is a directory to be walked, in the one that  *)
(* is being read, and has not been returned before.                        *)
EntryConditions(d) ==
    /\ Running /\ Top.open
    /\ d \in Walked /\ d # Root /\ d # "." /\ Parent[d] = Top.dir
    /\ d \notin Top.seen

LEMMA EntryFacts ==
    ASSUME CallsInv, NEW d \in Dirs, Entry(d)
    PROVE  EntryConditions(d) /\ d \in exists \union Top.must
<1>1. Running /\ Top.open /\ Top \in Calls
  BY TopFacts DEF Entry
<1>2. /\ d \in Dirs \ {Root} /\ Parent[d] = Top.dir /\ d \notin IgnoreDirs
      /\ d \notin Top.seen /\ d \in exists \union Top.must
  BY <1>1 DEF Entry, SubDirs, Calls
<1>3. Top.dir \in Dirs \ Skipped
  BY <1>1 DEF Calls
<1>4. d \in Dirs \ Skipped
  BY <1>2, <1>3, EntryNotSkipped
<1>5. QED
  BY <1>1, <1>2, <1>4, DirAssumption DEF EntryConditions, Walked

(* One record more, of a directory that is called for or of "." in one     *)
(* that is being read, was not there before (inotify.c 108-122).           *)
LEMMA RecordOnce ==
    ASSUME CallsInv, OnceEach, Running, Top.open,
           NEW d \in Walked, NEW wd \in {d, Failed}, NEW entry, entry \notin Top.seen,
           Record(d, wd, entry), UNCHANGED <<pc, exists, opened>>,
           entry # "." => /\ entry = d /\ d # Root /\ Parent[d] = Top.dir,
           entry = "." => d = Top.dir
    PROVE  /\ OnceEach'
           /\ Len(heap[1].wds) + 1 <= 2 * Cardinality(Walked) - 1
<1> DEFINE n == Len(stack)
           arr == Added(Top.arr, wd).arr
           N == Cardinality(Walked)
<1>1. n \in Nat \ {0} /\ DOMAIN stack = 1..n /\ Top = stack[n] /\ Top \in Calls
  BY TopFacts
<1>2. /\ \A i \in 1..(n - 1) : stack'[i] = stack[i]
      /\ stack'[n] = [Top EXCEPT !.seen = @ \union {entry}, !.arr = arr]
      /\ entry = "." => DOMAIN stack' = 1..n
      /\ entry # "." => DOMAIN stack' = 1..(n + 1) /\ stack'[n + 1] = Call(d, arr)
  BY ONLY CallsInv, Running, Record(d, wd, entry), RecordShape
<1> HIDE DEF n, arr
<1>3. /\ stack'[n].dir = Top.dir /\ stack'[n].open
      /\ stack'[n].seen = Top.seen \union {entry}
  BY <1>1, <1>2 DEF Calls
<1>4. entry # "." => /\ stack'[n + 1].dir = d /\ ~stack'[n + 1].open
                     /\ stack'[n + 1].seen = {}
  BY <1>2 DEF Call
<1>5. \A i \in DOMAIN stack' : \/ i \in 1..(n - 1) /\ i \in DOMAIN stack /\ stack'[i] = stack[i]
                               \/ i = n
                               \/ i = n + 1 /\ entry # "."
  <2>1. \A i \in 1..n : i \in 1..(n - 1) \/ i = n
    BY <1>1
  <2>2. \A i \in DOMAIN stack' : i \in 1..n \/ (i = n + 1 /\ entry # ".")
    BY <1>1, <1>2
  <2>3. 1..(n - 1) \subseteq DOMAIN stack
    BY <1>1
  <2>4. QED
    BY <1>2, <2>1, <2>2, <2>3
<1>6. n \in DOMAIN stack /\ n \notin 1..(n - 1) /\ n # n + 1
  BY <1>1
<1>7. /\ Len(heap[1].wds) \in Nat /\ Len(heap'[1].wds) \in Nat
      /\ Len(heap'[1].wds) <= Len(heap[1].wds) + 1
  <2>1. Top.arr \in 0..Len(heap) /\ wd \in Dirs \union {Failed}
    BY <1>1 DEF Calls, Walked
  <2>2. heap' = Added(Top.arr, wd).heap
    BY DEF Record
  <2>3. QED
    BY <2>1, <2>2, AddedOne
<1>8. PICK called \in SUBSET Walked, recorded \in SUBSET Walked, open \in SUBSET Walked :
        Once(called, recorded, open)
  BY DEF OnceEach, Walked
<1>9. /\ Cardinality(called) \in Nat /\ Cardinality(recorded) \in Nat /\ N \in Nat
      /\ Cardinality(called) <= N /\ Cardinality(recorded) <= N
  BY WalkedCounts
<1>10. /\ Root \in called /\ \A e \in called \ {Root} : Parent[e] \in called
       /\ recorded \union open \subseteq called
       /\ Len(heap[1].wds) + 1 <= Cardinality(called) + Cardinality(recorded)
       /\ opened <= Cardinality(open)
  BY <1>8 DEF Once
<1>11. \A i \in DOMAIN stack :
         /\ stack[i].dir \in called
         /\ \A e \in called \ {Root} : Parent[e] = stack[i].dir => e \in stack[i].seen
         /\ "." \in stack[i].seen \/ stack[i].dir \notin recorded
         /\ stack[i].open \/ stack[i].dir \notin open
  BY <1>8 DEF Once
<1>12. \A i, j \in DOMAIN stack : stack[i].dir = stack[j].dir => i = j
  BY <1>8 DEF Once
<1>13. CASE entry = "."
  <2>1. /\ d \notin recorded /\ d \in called
        /\ Cardinality(recorded \union {d}) = Cardinality(recorded) + 1
        /\ Cardinality(recorded) + 1 <= N
    BY <1>1, <1>6, <1>11, <1>13, WalkedCounts
  <2>2. Len(heap'[1].wds) + 1 <= Cardinality(called) + Cardinality(recorded \union {d})
    <3> DEFINE len == Len(heap[1].wds)
               new == Len(heap'[1].wds)
               c   == Cardinality(called)
               r   == Cardinality(recorded)
    <3>1. len \in Nat /\ new \in Nat /\ c \in Nat /\ r \in Nat
      BY <1>7, <1>9
    <3>2. new <= len + 1 /\ len + 1 <= c + r
      BY <1>7, <1>10
    <3> HIDE DEF len, new, c, r
    <3>3. new + 1 <= c + (r + 1)
      BY <3>1, <3>2
    <3>4. QED
      BY <2>1, <3>3 DEF new, c, r
  <2>3. Len(heap[1].wds) + 1 <= 2 * N - 1
    BY <1>7, <1>9, <1>10, <2>1
  <2>4. ASSUME NEW i \in DOMAIN stack'
        PROVE  /\ stack'[i].dir \in called
               /\ \A e \in called \ {Root} : Parent[e] = stack'[i].dir => e \in stack'[i].seen
               /\ "." \in stack'[i].seen \/ stack'[i].dir \notin recorded \union {d}
               /\ stack'[i].open \/ stack'[i].dir \notin open
    <3>1. CASE i = n
      BY <1>1, <1>3, <1>6, <1>11, <1>13, <3>1
    <3>2. CASE i \in 1..(n - 1) /\ i \in DOMAIN stack /\ stack'[i] = stack[i]
      <4>1. stack[i].dir # d
        BY <1>1, <1>6, <1>12, <1>13, <3>2
      <4>2. QED
        BY <1>11, <3>2, <4>1
    <3>3. QED
      BY <1>5, <1>13, <3>1, <3>2
  <2>5. \A i \in DOMAIN stack' : i \in DOMAIN stack /\ stack'[i].dir = stack[i].dir
    BY <1>1, <1>3, <1>5, <1>6, <1>13
  <2>6. Once(called, recorded \union {d}, open)'
    BY <1>10, <1>12, <2>1, <2>2, <2>4, <2>5 DEF Once
  <2>7. QED
    BY <2>3, <2>6 DEF OnceEach, Walked
<1>14. CASE entry # "."
  <2>1. d \notin called /\ Top.dir \in called /\ d # Top.dir
    BY <1>1, <1>6, <1>11, <1>14
  <2>2. /\ Cardinality(called \union {d}) = Cardinality(called) + 1
        /\ Cardinality(called) + 1 <= N
    BY <2>1, WalkedCounts
  <2>3. Len(heap'[1].wds) + 1 <= Cardinality(called \union {d}) + Cardinality(recorded)
    <3> DEFINE len == Len(heap[1].wds)
               new == Len(heap'[1].wds)
               c   == Cardinality(called)
               r   == Cardinality(recorded)
    <3>1. len \in Nat /\ new \in Nat /\ c \in Nat /\ r \in Nat
      BY <1>7, <1>9
    <3>2. new <= len + 1 /\ len + 1 <= c + r
      BY <1>7, <1>10
    <3> HIDE DEF len, new, c, r
    <3>3. new + 1 <= (c + 1) + r
      BY <3>1, <3>2
    <3>4. QED
      BY <2>2, <3>3 DEF new, c, r
  <2>4. Len(heap[1].wds) + 1 <= 2 * N - 1
    BY <1>7, <1>9, <1>10, <2>2
  <2>5. ASSUME NEW i \in DOMAIN stack'
        PROVE  /\ stack'[i].dir \in called \union {d}
               /\ \A e \in (called \union {d}) \ {Root} :
                     Parent[e] = stack'[i].dir => e \in stack'[i].seen
               /\ "." \in stack'[i].seen \/ stack'[i].dir \notin recorded
               /\ stack'[i].open \/ stack'[i].dir \notin open
    <3>1. CASE i = n
      BY <1>1, <1>3, <1>6, <1>11, <1>14, <3>1
    <3>2. CASE i \in 1..(n - 1) /\ i \in DOMAIN stack /\ stack'[i] = stack[i]
      <4>1. stack[i].dir # Top.dir
        BY <1>1, <1>6, <1>12, <3>2
      <4>2. QED
        BY <1>11, <1>14, <3>2, <4>1
    <3>3. CASE i = n + 1
      BY <1>4, <1>10, <1>14, <2>1, <3>3
    <3>4. QED
      BY <1>5, <3>1, <3>2, <3>3
  <2>6. ASSUME NEW i \in DOMAIN stack', NEW j \in DOMAIN stack',
               stack'[i].dir = stack'[j].dir
        PROVE  i = j
    <3>1. \A k \in DOMAIN stack' : \/ k \in DOMAIN stack /\ stack'[k].dir = stack[k].dir
                                   \/ k = n + 1
      BY <1>1, <1>3, <1>5, <1>6
    <3>2. stack'[n + 1].dir = d /\ \A k \in DOMAIN stack : stack[k].dir # d
      BY <1>4, <1>11, <1>14, <2>1
    <3>3. QED
      BY <1>12, <2>6, <3>1, <3>2
  <2>7. \A e \in (called \union {d}) \ {Root} : Parent[e] \in called \union {d}
    BY <1>10, <1>14, <2>1
  <2>8. Once(called \union {d}, recorded, open)'
    BY <1>10, <2>3, <2>5, <2>6, <2>7 DEF Once
  <2>9. called \union {d} \in SUBSET Walked
    OBVIOUS
  <2>10. QED
    BY <2>4, <2>8, <2>9 DEF OnceEach, Walked
<1>15. QED
  BY <1>13, <1>14

(* Every step of the walk and of the user.                                 *)
LEMMA NextOnce == CallsInv /\ OnceEach /\ [Next]_vars => OnceEach'
<1> SUFFICES ASSUME CallsInv, OnceEach, [Next]_vars PROVE OnceEach'
  OBVIOUS
<1>1. PICK called \in SUBSET Walked, recorded \in SUBSET Walked, open \in SUBSET Walked :
        Once(called, recorded, open)
  BY DEF OnceEach, Walked
<1>2. CASE Open
  <2> DEFINE n == Len(stack)
             new == [Top EXCEPT !.open = TRUE, !.must = SubDirs(Top.dir)]
  <2>1. Running /\ ~Top.open /\ UNCHANGED heap
    BY <1>2 DEF Open
  <2>2. n \in Nat \ {0} /\ DOMAIN stack = 1..n /\ Top = stack[n] /\ Top \in Calls
    BY <2>1, TopFacts
  <2>3. CASE Top.dir \in exists /\ opened < MaxOpen
    <3>1. stack' = Append(Front(stack), new) /\ opened' = opened + 1
      BY <1>2, <2>3 DEF Open
    <3>2. new.open /\ new.seen = Top.seen /\ new.dir = Top.dir
      BY <2>2 DEF Calls
    <3> HIDE DEF new
    <3>3. /\ DOMAIN stack' = 1..n /\ stack'[n] = new
          /\ \A i \in 1..(n - 1) : stack'[i] = stack[i]
      <4>1. stack \in Seq(Calls) /\ stack # <<>>
        BY <2>1 DEF CallsInv, Running
      <4>2. /\ DOMAIN Append(Front(stack), new) = 1..Len(stack)
            /\ \A i \in 1..(Len(stack) - 1) : Append(Front(stack), new)[i] = stack[i]
            /\ Append(Front(stack), new)[Len(stack)] = new
        BY <4>1, TopReplaced
      <4>3. QED
        BY <3>1, <4>2
    <3> HIDE DEF n
    <3>4. \A i \in DOMAIN stack' : i \in DOMAIN stack /\ (i = n \/ stack'[i] = stack[i])
      BY <2>2, <3>3
    <3>5. n \in DOMAIN stack
      BY <2>2
    <3>0. PICK t : t = Top.dir
      OBVIOUS
    <3>6. t \notin open /\ t \in called /\ t = Top.dir
      BY <1>1, <2>1, <2>2, <3>0, <3>5 DEF Once
    <3>7. opened' <= Cardinality(open \union {t})
      <4>1. /\ Cardinality(open) \in Nat
            /\ Cardinality(open \union {t}) = Cardinality(open) + 1
        BY <3>6, WalkedCounts
      <4>2. opened \in Nat /\ opened <= Cardinality(open)
        BY <1>1 DEF Once, CallsInv, TypeOK
      <4>3. QED
        BY <3>1, <4>1, <4>2
    <3>8. \A i, j \in DOMAIN stack : stack[i].dir = stack[j].dir => i = j
      BY <1>1 DEF Once
    <3>9. ASSUME NEW i \in DOMAIN stack'
          PROVE  /\ i \in DOMAIN stack /\ stack'[i].dir = stack[i].dir
                 /\ stack'[i].seen = stack[i].seen
                 /\ stack'[i].open \/ stack'[i].dir \notin open \union {t}
      <4>1. CASE i = n
        BY <2>2, <3>0, <3>2, <3>3, <3>5, <4>1
      <4>2. CASE i # n
        <5>1. i \in DOMAIN stack /\ stack'[i] = stack[i]
          BY <3>4, <4>2
        <5>2. stack[i].dir # Top.dir
          BY <2>2, <3>5, <3>8, <4>2, <5>1
        <5>3. QED
          BY <1>1, <3>0, <5>1, <5>2 DEF Once
      <4>3. QED
        BY <4>1, <4>2
    <3>10. Once(called, recorded, open \union {t})'
      <4>1. /\ Root \in called /\ \A d \in called \ {Root} : Parent[d] \in called
            /\ recorded \union open \subseteq called
            /\ Len(heap'[1].wds) + 1 <= Cardinality(called) + Cardinality(recorded)
        BY <1>1, <2>1 DEF Once
      <4>2. \A i \in DOMAIN stack :
               /\ stack[i].dir \in called
               /\ \A d \in called \ {Root} : Parent[d] = stack[i].dir => d \in stack[i].seen
               /\ "." \in stack[i].seen \/ stack[i].dir \notin recorded
        BY <1>1 DEF Once
      <4>3. ASSUME NEW i \in DOMAIN stack', NEW j \in DOMAIN stack',
                   stack'[i].dir = stack'[j].dir
            PROVE  i = j
        BY <3>8, <3>9, <4>3
      <4>4. \A i \in DOMAIN stack' :
               /\ stack'[i].dir \in called
               /\ \A d \in called \ {Root} : Parent[d] = stack'[i].dir => d \in stack'[i].seen
               /\ "." \in stack'[i].seen \/ stack'[i].dir \notin recorded
               /\ stack'[i].open \/ stack'[i].dir \notin open \union {t}
        BY <3>9, <4>2
      <4>5. QED
        BY <3>6, <3>7, <4>1, <4>3, <4>4 DEF Once
    <3>11. open \union {t} \in SUBSET Walked
      BY <3>6
    <3>12. QED
      BY <3>10, <3>11 DEF OnceEach, Walked
  <2>4. CASE ~(Top.dir \in exists /\ opened < MaxOpen)
    <3>1. UNCHANGED <<opened, stack>>
      BY <1>2, <2>4 DEF Open
    <3>2. QED
      BY <1>1, <2>1, <3>1 DEF OnceEach, Once, Walked
  <2>5. QED
    BY <2>3, <2>4
<1>3. ASSUME NEW d \in Dirs, Entry(d)
      PROVE  OnceEach'
  <2>1. PICK wd \in {d, Failed} : Record(d, wd, d)
    BY <1>3 DEF Entry
  <2>2. EntryConditions(d)
    BY <1>3, EntryFacts
  <2>3. QED
    BY <1>3, <2>1, <2>2, RecordOnce DEF Entry, EntryConditions
<1>4. CASE Self
  <2>1. PICK wd \in {Top.dir, Failed} : Record(Top.dir, wd, ".")
    BY <1>4 DEF Self
  <2>2. Top.dir \in Walked
    BY <1>4, TopFacts DEF Self, Calls, Walked
  <2>3. QED
    BY <1>4, <2>1, <2>2, RecordOnce DEF Self
<1>5. CASE Return
  <2>1. Running /\ UNCHANGED <<opened, heap>>
    BY <1>5 DEF Return
  <2>2. \A i \in DOMAIN stack' : i \in DOMAIN stack /\ stack'[i] = stack[i]
    <3>1. stack \in Seq(Calls) /\ stack # <<>> /\ stack' = Front(stack)
      BY <1>5, <2>1 DEF CallsInv, Running, Return
    <3>2. QED
      BY <3>1, StackElements
  <2>3. QED
    BY <1>1, <2>1, <2>2 DEF OnceEach, Once, Walked
<1>6. CASE \/ Corrupted \/ Done \/ UNCHANGED vars
           \/ \E d \in Dirs : MakeDir(d) \/ RemoveDir(d)
  <2>1. UNCHANGED <<stack, opened, heap>>
    BY <1>6 DEF Corrupted, Done, vars, MakeDir, RemoveDir
  <2>2. QED
    BY <1>1, <2>1 DEF OnceEach, Once, Walked
<1>7. QED
  BY <1>2, <1>3, <1>4, <1>5, <1>6 DEF Next, Walk

-----------------------------------------------------------------------------
(***************************************************************************)
(* A walk whose array is large enough.                                     *)
(***************************************************************************)

(* What a call knows of is there or has been removed: the user removes     *)
(* only what is removable.                                                 *)
LEMMA KnownAlways ==
    /\ Init => Known
    /\ CallsInv /\ Known /\ [Next]_vars => Known'
<1>1. Init => Known
  BY DirAssumption DEF Init, Known, Call
<1>2. ASSUME CallsInv, Known, [Next]_vars
      PROVE  Known'
  <2>1. exists \subseteq exists' \union Removable
    BY <1>2 DEF Next, Walk, Open, Entry, Self, Return, Corrupted, Done, MakeDir,
                RemoveDir, vars
  <2>2. CASE UNCHANGED stack
    BY <1>2, <2>1, <2>2 DEF Known
  <2>3. CASE Self
    <3>1. PICK wd : Running /\ Record(Top.dir, wd, ".")
      BY <2>3 DEF Self
    <3>2. \A i \in DOMAIN stack' : /\ i \in DOMAIN stack /\ stack'[i].dir = stack[i].dir
                                   /\ stack'[i].must = stack[i].must
      BY <1>2, <3>1, RecordFrames
    <3>3. QED
      BY <1>2, <2>1, <3>2 DEF Known
  <2>4. ASSUME NEW d \in Dirs, Entry(d)
        PROVE  Known'
    <3>1. Running /\ d \in exists \union Top.must
      BY <1>2, <2>4, EntryFacts DEF EntryConditions
    <3>2. PICK wd : Record(d, wd, d)
      BY <2>4 DEF Entry
    <3>3. \A i \in DOMAIN stack' :
             \/ /\ i \in DOMAIN stack /\ stack'[i].dir = stack[i].dir
                /\ stack'[i].must = stack[i].must
             \/ stack'[i].dir = d /\ stack'[i].must = {}
      BY <1>2, <3>1, <3>2, RecordFrames DEF Call
    <3>4. d \in exists \union Removable
      <4>1. Len(stack) \in DOMAIN stack /\ Top = stack[Len(stack)]
        BY <1>2, <3>1, TopFacts
      <4>2. QED
        BY <1>2, <3>1, <4>1 DEF Known
    <3>5. QED
      BY <1>2, <2>1, <3>3, <3>4 DEF Known
  <2>5. CASE Open /\ ~UNCHANGED stack
    <3> DEFINE new == [Top EXCEPT !.open = TRUE, !.must = SubDirs(Top.dir)]
    <3>1. Running /\ stack' = Append(Front(stack), new) /\ exists' = exists
      BY <2>5 DEF Open
    <3>2. /\ Len(stack) \in Nat \ {0} /\ DOMAIN stack = 1..Len(stack)
          /\ Top = stack[Len(stack)] /\ Top \in Calls
      BY <1>2, <3>1, TopFacts
    <3>3. new.dir = Top.dir /\ new.must \subseteq exists
      BY <3>2 DEF Calls, SubDirs
    <3> HIDE DEF new
    <3>4. /\ DOMAIN Append(Front(stack), new) = 1..Len(stack)
          /\ \A i \in 1..(Len(stack) - 1) : Append(Front(stack), new)[i] = stack[i]
          /\ Append(Front(stack), new)[Len(stack)] = new
      <4>1. stack \in Seq(Calls) /\ stack # <<>>
        BY <1>2, <3>1 DEF CallsInv, Running
      <4>2. QED
        BY <4>1, TopReplaced
    <3>5. \A i \in DOMAIN stack' : i \in DOMAIN stack /\ (i = Len(stack) \/ stack'[i] = stack[i])
      <4>1. \A i \in 1..Len(stack) : i = Len(stack) \/ i \in 1..(Len(stack) - 1)
        BY <3>2, LastIndex
      <4>2. QED
        BY <3>1, <3>2, <3>4, <4>1
    <3>6. stack'[Len(stack)] = new
      BY <3>1, <3>4
    <3>7. QED
      BY <1>2, <3>1, <3>2, <3>3, <3>5, <3>6 DEF Known
  <2>6. CASE Return
    <3>1. stack \in Seq(Calls) /\ stack # <<>> /\ stack' = Front(stack) /\ exists' = exists
      BY <1>2, <2>6 DEF CallsInv, Running, Return
    <3>2. \A i \in DOMAIN stack' : i \in DOMAIN stack /\ stack'[i] = stack[i]
      BY <3>1, StackElements
    <3>3. QED
      BY <1>2, <3>1, <3>2 DEF Known
  <2>7. Corrupted \/ Done \/ UNCHANGED vars \/ (\E d \in Dirs : MakeDir(d) \/ RemoveDir(d))
          => UNCHANGED stack
    BY DEF Corrupted, Done, vars, MakeDir, RemoveDir
  <2>8. QED
    BY <1>2, <2>2, <2>3, <2>4, <2>5, <2>6, <2>7 DEF Next, Walk
<1>3. QED
  BY <1>1, <1>2

(* While there is room in it, the array stays where it is.                 *)
LEMMA AddedInPlace ==
    ASSUME CallsInv, Len(heap) = 1, NEW wd \in Dirs \union {Failed},
           Len(heap[1].wds) + 1 <= heap[1].size, heap[1].size <= MaxArraySize
    PROVE  /\ Added(1, wd).arr = 1 /\ Len(Added(1, wd).heap) = 1
           /\ Added(1, wd).heap[1].freed = heap[1].freed
           /\ Range(Added(1, wd).heap[1].wds) = Range(heap[1].wds) \union {wd}
<1> DEFINE Arrays == [size : Nat, wds : Seq(Dirs \union {Failed}), freed : BOOLEAN]
           new == Append(heap[1].wds, wd)
           h == [heap EXCEPT ![1].wds = new]
<1>1. heap \in Seq(Arrays) /\ 1 \in 1..Len(heap)
  BY HeapTyped
<1>2. heap[1] \in Arrays
  BY <1>1, HeapTyped
<1>3. /\ Len(heap[1].wds) \in Nat /\ heap[1].size \in Nat
      /\ heap[1].wds \in Seq(Dirs \union {Failed})
  BY HeapTyped
<1>4. /\ ~(1 = NULL \/ Len(heap[1].wds) + 1 > MaxArraySize)
      /\ ~(heap[1].size < Len(heap[1].wds) + 1)
  BY <1>3, SizeAssumption DEF NULL
<1>5. Added(1, wd) = [arr |-> 1, heap |-> h]
  BY <1>4 DEF Added
<1>6. Len(h) = 1 /\ h[1].freed = heap[1].freed /\ h[1].wds = new
  BY <1>1, <1>2
<1>7. Range(new) = Range(heap[1].wds) \union {wd}
  <2> DEFINE s == heap[1].wds
  <2>1. s \in Seq(Dirs \union {Failed}) /\ wd \in Dirs \union {Failed}
    BY <1>3
  <2> HIDE DEF s
  <2>2. /\ DOMAIN Append(s, wd) = DOMAIN s \union {Len(s) + 1}
        /\ Append(s, wd)[Len(s) + 1] = wd
        /\ \A i \in DOMAIN s : Append(s, wd)[i] = s[i]
    BY <2>1
  <2>3. Range(Append(s, wd)) = Range(s) \union {wd}
    BY <2>2 DEF Range
  <2>4. QED
    BY <2>3 DEF s
<1> HIDE DEF h, new
<1>8. QED
  BY <1>5, <1>6, <1>7

(* The size of the first array never changes.                              *)
LEMMA RoomyStays ==
    ASSUME CallsInv, [Next]_vars
    PROVE  Roomy' <=> Roomy
<1>1. ASSUME Running, NEW d \in Dirs, NEW wd \in {d, Failed}, NEW entry,
             Record(d, wd, entry)
      PROVE  heap'[1].size = heap[1].size
  <2>1. Top.arr \in 0..Len(heap) /\ wd \in Dirs \union {Failed}
    BY <1>1, TopFacts DEF Calls
  <2>2. QED
    BY <1>1, <2>1, AddedOne DEF Record
<1>2. ASSUME NEW d \in Dirs, Entry(d)
      PROVE  heap'[1].size = heap[1].size
  BY <1>1, <1>2 DEF Entry
<1>3. CASE Self
  <2>1. Running /\ Top.dir \in Dirs
    BY <1>3, TopFacts DEF Self, Calls
  <2>2. PICK wd \in {Top.dir, Failed} : Record(Top.dir, wd, ".")
    BY <1>3 DEF Self
  <2>3. heap'[1].size = heap[1].size
    BY <1>1, <2>1, <2>2
  <2>4. QED
    BY <2>3 DEF Roomy
<1>4. Open \/ Return \/ Corrupted \/ Done \/ UNCHANGED vars
        \/ (\E d \in Dirs : MakeDir(d) \/ RemoveDir(d)) => UNCHANGED heap
  BY DEF Open, Return, Corrupted, Done, vars, MakeDir, RemoveDir
<1>5. QED
  BY <1>2, <1>3, <1>4 DEF Next, Walk, Roomy

(* With room for every record, the one array is never replaced: it gets    *)
(* the descriptor of each directory that is watched (inotify.c 118).       *)
LEMMA RecordSmall ==
    ASSUME CallsInv, OneArray, SmallWalkIsSafe, Roomy, Roomy', Running,
           NEW d \in Dirs, NEW wd \in {d, Failed}, NEW entry, Record(d, wd, entry),
           Len(heap[1].wds) + 1 <= 2 * Cardinality(Walked) - 1
    PROVE  OneArray' /\ SmallWalkIsSafe'
<1>1. /\ Len(heap) = 1 /\ ~heap[1].freed /\ ~misused
      /\ \A i \in DOMAIN stack : stack[i].arr = 1
      /\ watched \subseteq Range(heap[1].wds)
  BY DEF OneArray, SmallWalkIsSafe
<1>2. Top.arr = 1
  <2>1. Len(stack) \in DOMAIN stack /\ Top = stack[Len(stack)]
    BY TopFacts
  <2>2. QED
    BY <1>1, <2>1
<1>3. Len(heap[1].wds) + 1 <= heap[1].size /\ heap[1].size <= MaxArraySize
  <2>1. Len(heap[1].wds) \in Nat /\ heap[1].size \in Nat /\ Cardinality(Walked) \in Nat
    <3>1. Cardinality(Walked) \in Nat
      BY WalkedCounts
    <3>2. QED
      BY <3>1, HeapTyped
  <2>2. 2 * Cardinality(Walked) - 1 <= heap[1].size /\ heap[1].size <= MaxArraySize
    BY DEF Roomy, Walked
  <2>3. QED
    BY <2>1, <2>2
<1>4. /\ Added(1, wd).arr = 1 /\ Len(Added(1, wd).heap) = 1
      /\ Added(1, wd).heap[1].freed = heap[1].freed
      /\ Range(Added(1, wd).heap[1].wds) = Range(heap[1].wds) \union {wd}
  BY <1>1, <1>3, AddedInPlace
<1>5. heap' = Added(1, wd).heap
  BY <1>2 DEF Record
<1>6. \A i \in DOMAIN stack' : stack'[i].arr = 1
  <2>1. \A i \in DOMAIN stack' :
           \/ i \in DOMAIN stack /\ stack'[i].arr \in {stack[i].arr, Added(1, wd).arr}
           \/ stack'[i] = Call(d, Added(1, wd).arr)
    BY <1>2, RecordFrames
  <2>2. QED
    BY <1>1, <1>4, <2>1 DEF Call
<1>7. OneArray'
  BY <1>1, <1>4, <1>5, <1>6 DEF OneArray
<1>8. ~misused'
  BY <1>1, <1>2 DEF Record
<1>9. watched' \subseteq watched \union ({wd} \intersect Dirs)
  BY DirAssumption DEF Record, Watch, CallsInv, TypeOK
<1>10. SmallWalkIsSafe'
  BY <1>1, <1>4, <1>5, <1>8, <1>9 DEF SmallWalkIsSafe
<1>11. QED
  BY <1>7, <1>10

LEMMA SmallAlways ==
    /\ Init => OneArray /\ SmallWalkIsSafe
    /\ CallsInv /\ OnceEach /\ OneArray /\ SmallWalkIsSafe /\ [Next]_vars
          => OneArray' /\ SmallWalkIsSafe'
<1>1. Init => OneArray /\ SmallWalkIsSafe
  BY DEF Init, OneArray, SmallWalkIsSafe, Call
<1>2. ASSUME CallsInv, OnceEach, OneArray, SmallWalkIsSafe, [Next]_vars
      PROVE  OneArray' /\ SmallWalkIsSafe'
  <2>1. Roomy' <=> Roomy
    BY <1>2, RoomyStays
  <2>2. CASE ~Roomy
    BY <2>1, <2>2 DEF OneArray, SmallWalkIsSafe
  <2>3. SUFFICES ASSUME Roomy, Roomy' PROVE OneArray' /\ SmallWalkIsSafe'
    BY <2>1, <2>2
  <2>4. ASSUME NEW d \in Dirs, Entry(d)
        PROVE  OneArray' /\ SmallWalkIsSafe'
    <3>1. PICK wd \in {d, Failed} : Record(d, wd, d)
      BY <2>4 DEF Entry
    <3>2. EntryConditions(d)
      BY <1>2, <2>4, EntryFacts
    <3>3. Len(heap[1].wds) + 1 <= 2 * Cardinality(Walked) - 1
      BY <1>2, <2>4, <3>1, <3>2, RecordOnce DEF Entry, EntryConditions
    <3>4. QED
      BY <1>2, <2>3, <3>1, <3>2, <3>3, RecordSmall DEF EntryConditions
  <2>5. CASE Self
    <3>1. PICK wd \in {Top.dir, Failed} : Record(Top.dir, wd, ".")
      BY <2>5 DEF Self
    <3>2. Top.dir \in Walked /\ Top.dir \in Dirs
      BY <1>2, <2>5, TopFacts DEF Self, Calls, Walked
    <3>3. Len(heap[1].wds) + 1 <= 2 * Cardinality(Walked) - 1
      BY <1>2, <2>5, <3>1, <3>2, RecordOnce DEF Self
    <3>4. QED
      BY <1>2, <2>3, <2>5, <3>1, <3>2, <3>3, RecordSmall DEF Self
  <2>6. CASE Open
    <3> DEFINE new == [Top EXCEPT !.open = TRUE, !.must = SubDirs(Top.dir)]
    <3>1. Running /\ UNCHANGED <<heap, misused, watched>>
      BY <2>6 DEF Open
    <3>2. CASE UNCHANGED stack
      BY <1>2, <3>1, <3>2 DEF OneArray, SmallWalkIsSafe, Roomy
    <3>3. CASE stack' = Append(Front(stack), new)
      <4>1. /\ Len(stack) \in Nat \ {0} /\ DOMAIN stack = 1..Len(stack)
            /\ Top = stack[Len(stack)] /\ Top \in Calls
        BY <1>2, <3>1, TopFacts
      <4>2. new.arr = Top.arr
        BY <4>1 DEF Calls
      <4> HIDE DEF new
      <4>3. /\ DOMAIN Append(Front(stack), new) = 1..Len(stack)
            /\ \A i \in 1..(Len(stack) - 1) : Append(Front(stack), new)[i] = stack[i]
            /\ Append(Front(stack), new)[Len(stack)] = new
        <5>1. stack \in Seq(Calls) /\ stack # <<>>
          BY <1>2, <3>1 DEF CallsInv, Running
        <5>2. QED
          BY <5>1, TopReplaced
      <4>4. \A i \in DOMAIN stack' : i \in DOMAIN stack /\ stack'[i].arr = stack[i].arr
        <5>1. \A i \in 1..Len(stack) : i = Len(stack) \/ i \in 1..(Len(stack) - 1)
          BY <4>1, LastIndex
        <5>2. QED
          BY <3>3, <4>1, <4>2, <4>3, <5>1
      <4>5. QED
        BY <1>2, <3>1, <4>4 DEF OneArray, SmallWalkIsSafe, Roomy
    <3>4. QED
      BY <2>6, <3>2, <3>3 DEF Open
  <2>7. CASE Return
    <3>1. /\ stack \in Seq(Calls) /\ stack # <<>> /\ stack' = Front(stack)
          /\ UNCHANGED <<heap, misused, watched>>
      BY <1>2, <2>7 DEF CallsInv, Running, Return
    <3>2. \A i \in DOMAIN stack' : i \in DOMAIN stack /\ stack'[i] = stack[i]
      BY <3>1, StackElements
    <3>3. QED
      BY <1>2, <3>1, <3>2 DEF OneArray, SmallWalkIsSafe, Roomy
  <2>8. CASE \/ Corrupted \/ Done \/ UNCHANGED vars
             \/ \E d \in Dirs : MakeDir(d) \/ RemoveDir(d)
    <3>1. UNCHANGED <<stack, heap, misused>> /\ watched' \subseteq watched
      BY <2>8 DEF Corrupted, Done, vars, MakeDir, RemoveDir
    <3>2. QED
      BY <1>2, <3>1 DEF OneArray, SmallWalkIsSafe, Roomy
  <2>9. QED
    BY <1>2, <2>4, <2>5, <2>6, <2>7, <2>8 DEF Next, Walk
<1>3. QED
  BY <1>1, <1>2

(* What is left to crash at is a directory that the user has removed: the  *)
(* array is never replaced, and the descriptors suffice (inotify.c 104).   *)
LEMMA SurvivesAlways ==
    /\ Init => SmallWalkSurvives
    /\ CallsInv /\ Known /\ OnceEach /\ SmallWalkIsSafe /\ SmallWalkSurvives /\ [Next]_vars
          => SmallWalkSurvives'
<1>1. Init => SmallWalkSurvives
  BY DEF Init, SmallWalkSurvives
<1>2. ASSUME CallsInv, Known, OnceEach, SmallWalkIsSafe, SmallWalkSurvives, [Next]_vars
      PROVE  SmallWalkSurvives'
  <2>1. Roomy' <=> Roomy
    BY <1>2, RoomyStays
  <2>2. SUFFICES ASSUME pc' = "crashed", Roomy, Cardinality(Walked) <= MaxOpen
                 PROVE  Top'.dir \in Removable
    BY <2>1 DEF SmallWalkSurvives, Walked
  <2>3. CASE pc = "crashed"
    <3>1. UNCHANGED stack
      BY <1>2, <2>3 DEF Next, Walk, Open, Entry, Self, Return, Corrupted, Done, Running,
                        MakeDir, RemoveDir, vars
    <3>2. QED
      BY <1>2, <2>2, <2>3, <3>1 DEF SmallWalkSurvives, Top, Walked
  <2>4. CASE pc # "crashed"
    <3>1. ~misused
      BY <1>2, <2>2 DEF SmallWalkIsSafe
    <3>2. /\ Running /\ ~Top.open /\ UNCHANGED stack
          /\ Top.dir \notin exists \/ ~(opened < MaxOpen)
      BY <1>2, <2>2, <2>4, <3>1 DEF Next, Walk, Open, Entry, Self, Return, Corrupted, Done,
                                    MakeDir, RemoveDir, vars
    <3>3. Len(stack) \in DOMAIN stack /\ Top = stack[Len(stack)] /\ Top \in Calls
      BY <1>2, <3>2, TopFacts
    <3>4. opened < MaxOpen
      <4>1. PICK open \in SUBSET Walked :
               /\ opened <= Cardinality(open)
               /\ \A i \in DOMAIN stack : stack[i].open \/ stack[i].dir \notin open
        BY <1>2 DEF OnceEach, Once, Walked
      <4>2. Top.dir \in Walked \ open
        BY <3>2, <3>3, <4>1 DEF Calls, Walked
      <4>3. /\ Cardinality(open) \in Nat /\ Cardinality(Walked) \in Nat
            /\ Cardinality(open) + 1 <= Cardinality(Walked)
        BY <4>2, WalkedCounts
      <4>4. opened \in Nat /\ MaxOpen \in Nat
        BY <1>2, SizeAssumption DEF CallsInv, TypeOK
      <4>5. QED
        BY <2>2, <4>1, <4>3, <4>4
    <3>5. Top.dir \in Removable
      BY <1>2, <3>2, <3>3, <3>4 DEF Known
    <3>6. QED
      BY <3>2, <3>5 DEF Top
  <2>5. QED
    BY <2>3, <2>4
<1>3. QED
  BY <1>1, <1>2

-----------------------------------------------------------------------------
(***************************************************************************)
(* The texts of paths.                                                     *)
(***************************************************************************)

(* A set of numbers has a least one.                                       *)
LEMMA LeastNumber ==
    ASSUME NEW S \in SUBSET Nat, S # {}
    PROVE  \E m \in S : \A n \in S : m <= n
<1>1. PICK N \in S : TRUE
  OBVIOUS
<1> DEFINE T == {1..n : n \in {k \in S : k <= N}}
           Sub == StrictSubsetOrdering(1..N)
<1>2. IsFiniteSet(1..N)
  BY <1>1, FS_Interval
<1>3. T \subseteq SUBSET (1..N) /\ 1..N \in T
  BY <1>1
<1> HIDE DEF T, Sub
<1>4. IsWellFoundedOn(Sub, SUBSET (1..N))
  <2>1. FiniteSubsetsOf(1..N) = SUBSET (1..N)
    BY <1>2, FS_FiniteSubsetsOfFinite
  <2>2. IsWellFoundedOn(StrictSubsetOrdering(1..N), FiniteSubsetsOf(1..N))
    BY FS_StrictSubsetOrderingWellFounded
  <2>3. QED
    BY <2>1, <2>2, Zenon DEF Sub
<1>5. PICK A \in T : \A B \in T : ~(<<B, A>> \in Sub)
  BY <1>3, <1>4, WFMin
<1>6. PICK m \in S : m <= N /\ A = 1..m
  BY DEF T
<1>7. ASSUME NEW n \in S, n < m
      PROVE  FALSE
  <2>1. 1..n \in T
    BY <1>1, <1>6, <1>7 DEF T
  <2>2. 1..n \subseteq 1..m /\ 1..n # 1..m
    BY <1>7
  <2>3. <<1..n, 1..m>> \in Sub
    BY <1>3, <1>6, <2>1, <2>2 DEF Sub, StrictSubsetOrdering
  <2>4. QED
    BY <1>5, <1>6, <2>1, <2>3
<1>8. QED
  BY <1>7

(* What holds at the start, and after each step if before it, holds of all.*)
LEMMA Upward ==
    ASSUME NEW n \in Nat, NEW G, 0 \in G,
           \A k \in 1..n : k - 1 \in G => k \in G
    PROVE  \A k \in 0..n : k \in G
<1> DEFINE Out == {k \in 0..n : k \notin G}
<1>1. SUFFICES ASSUME Out # {} PROVE FALSE
  OBVIOUS
<1>2. PICK m \in Out : \A k \in Out : m <= k
  <2>1. Out \in SUBSET Nat
    OBVIOUS
  <2> HIDE DEF Out
  <2>2. QED
    BY <1>1, <2>1, LeastNumber
<1>3. m \in 1..n /\ m - 1 \in 0..n /\ ~(m <= m - 1)
  BY <1>2
<1>4. m - 1 \in G
  BY <1>2, <1>3
<1>5. QED
  BY <1>2, <1>3, <1>4

(* Steps of one state to the next can be taken one after the other.        *)
Steps(S, base, n, F, f) ==
    f \in [0..n -> S] /\ f[0] = base /\ \A i \in 1..n : f[i] = F[i][f[i - 1]]

(* There is what takes them.                                               *)
LEMMA Recursion ==
    ASSUME NEW S, NEW base \in S, NEW n \in Nat, NEW F \in [1..n -> [S -> S]]
    PROVE  \E f : Steps(S, base, n, F, f)
<1> DEFINE Stepped(k) == \E f \in [0..k -> S] : f[0] = base /\ \A i \in 1..k : f[i] = F[i][f[i - 1]]
           G == {k \in 0..n : Stepped(k)}
<1>1. 0 \in G
  <2>1. [i \in 0..0 |-> base] \in [0..0 -> S]
    OBVIOUS
  <2>2. Stepped(0)
    <3>1. [i \in 0..0 |-> base][0] = base /\ 1..0 = {}
      OBVIOUS
    <3>2. QED
      BY <2>1, <3>1
  <2>3. 0 \in 0..n
    OBVIOUS
  <2> HIDE DEF Stepped
  <2>4. QED
    BY <2>2, <2>3
<1>2. ASSUME NEW k \in 1..n, k - 1 \in G
      PROVE  k \in G
  <2>1. PICK f \in [0..(k - 1) -> S] : f[0] = base /\ \A i \in 1..(k - 1) : f[i] = F[i][f[i - 1]]
    BY <1>2
  <2> DEFINE g == [i \in 0..k |-> IF i = k THEN F[k][f[k - 1]] ELSE f[i]]
  <2>2. g \in [0..k -> S]
    <3>1. f[k - 1] \in S
      BY <2>1
    <3>2. F[k][f[k - 1]] \in S
      BY <3>1
    <3>3. ASSUME NEW i \in 0..k, i # k
          PROVE  f[i] \in S
      <4>1. i \in 0..(k - 1)
        BY <3>3
      <4>2. QED
        BY <2>1, <4>1
    <3>4. QED
      BY <3>2, <3>3
  <2>3. g[0] = base
    BY <2>1
  <2>4. ASSUME NEW i \in 1..k
        PROVE  g[i] = F[i][g[i - 1]]
    <3>1. i - 1 \in 0..k /\ i - 1 # k /\ i \in 0..k
      BY <2>4
    <3>2. g[i - 1] = f[i - 1]
      BY <3>1
    <3>3. CASE i = k
      BY <3>1, <3>2, <3>3
    <3>4. CASE i # k
      <4>1. i \in 1..(k - 1)
        BY <3>4
      <4>2. g[i] = f[i]
        BY <3>1, <3>4
      <4>3. QED
        BY <2>1, <3>2, <4>1, <4>2
    <3>5. QED
      BY <3>3, <3>4
  <2>5. Stepped(k)
    BY <2>2, <2>3, <2>4
  <2>6. k \in 0..n
    BY <1>2
  <2> HIDE DEF Stepped
  <2>7. QED
    BY <2>5, <2>6
<1>3. n \in G
  <2> HIDE DEF G
  <2>1. \A k \in 0..n : k \in G
    BY <1>1, <1>2, Upward
  <2>2. QED
    BY <2>1
<1>4. QED
  BY <1>3 DEF Steps

-----------------------------------------------------------------------------
(* Two computations that take the same steps end alike.                    *)
LEMMA Alike ==
    ASSUME NEW n \in Nat, NEW f, NEW g, f[0] = g[0],
           \A k \in 1..n : f[k - 1] = g[k - 1] => f[k] = g[k]
    PROVE  f[n] = g[n]
<1> DEFINE G == {k \in 0..n : f[k] = g[k]}
<1>1. 0 \in G
  OBVIOUS
<1>2. \A k \in 1..n : k - 1 \in G => k \in G
  OBVIOUS
<1> HIDE DEF G
<1>3. \A k \in 0..n : k \in G
  BY <1>1, <1>2, Upward
<1>4. QED
  BY <1>3 DEF G

(* The texts that the characters of the constants make, and the strings.   *)
Text == Seq({"/", "."} \union UNION {Range(t) : t \in Cwds \union EntryNames \union Values})

Strings == [text : Text, size : Nat]

(* What the constants give are texts.                                      *)
LEMMA TextsTyped ==
    /\ Slash \in Text /\ Dot \in Text /\ Len(Slash) = 1 /\ Len(Dot) = 1
    /\ Cwds \subseteq Text /\ EntryNames \subseteq Text /\ Values \subseteq Text
    /\ \A chain \in Chains : chain \in Seq(EntryNames)
    /\ \A t \in EntryNames \union Values : Len(t) <= MaxChars
    /\ MaxChars \in Nat
<1> DEFINE Char == {"/", "."} \union UNION {Range(t) : t \in Cwds \union EntryNames \union Values}
<1>1. "/" \in Char /\ "." \in Char
  BY Zenon
<1>2. ASSUME NEW t \in Cwds \union EntryNames \union Values
      PROVE  Range(t) \subseteq Char
  BY <1>2, Zenon
<1>3. Text = Seq(Char)
  BY Zenon DEF Text
<1>4. \A a \in Char : <<a>> \in Seq(Char) /\ Len(<<a>>) = 1
  <2> HIDE DEF Char
  <2>1. QED
    OBVIOUS
<1>5. Slash \in Text /\ Dot \in Text /\ Len(Slash) = 1 /\ Len(Dot) = 1
  BY <1>1, <1>3, <1>4, Zenon DEF Slash, Dot
<1>6. ASSUME NEW t \in Cwds \union EntryNames \union Values
      PROVE  t \in Text
  <2>1. t \in Seq(Range(t)) /\ Range(t) \subseteq Char
    BY <1>2, TextAssumption
  <2> HIDE DEF Char
  <2>2. QED
    BY <1>3, <2>1
<1>7. QED
  BY <1>5, <1>6, TextAssumption

(* Texts that are put together.                                            *)
LEMMA Together ==
    ASSUME NEW T, NEW a \in Seq(T), NEW b \in Seq(T)
    PROVE  /\ a \o b \in Seq(T) /\ Len(a \o b) = Len(a) + Len(b)
           /\ Len(a) \in Nat /\ Len(b) \in Nat
           /\ SubSeq(a, 1, Len(a)) = a
OBVIOUS

(* They may be put together in any order, ...                              *)
LEMMA AnyOrder ==
    ASSUME NEW a \in Text, NEW b \in Text, NEW c \in Text
    PROVE  (a \o b) \o c = a \o (b \o c)
<1>1. PICK T : Text = Seq(T)
  BY Zenon DEF Text
<1>2. a \in Seq(T) /\ b \in Seq(T) /\ c \in Seq(T)
  BY <1>1
<1>3. QED
  BY ONLY <1>2, ConcatAssociative

(* ... what is put together is what it is made of, ...                     *)
LEMMA Concat ==
    ASSUME NEW T, NEW f \in Seq(T), NEW g \in Seq(T), NEW h, h = f \o g,
           NEW m, m = Len(f), NEW l, l = Len(g)
    PROVE  /\ m \in Nat /\ l \in Nat /\ Len(h) = m + l
           /\ \A i \in 1..l : h[m + i] = g[i]
OBVIOUS

(* ... and what begins alike is equal if what follows is.                  *)
LEMMA Cancel ==
    ASSUME NEW a \in Text, NEW b \in Text, NEW c \in Text, a \o b = a \o c
    PROVE  b = c
<1>1. PICK T : Text = Seq(T)
  BY Zenon DEF Text
<1>2. a \in Seq(T) /\ b \in Seq(T) /\ c \in Seq(T)
  BY <1>1
<1>3. PICK d, l, m, n : d = a \o b /\ l = Len(a) /\ m = Len(b) /\ n = Len(c)
  OBVIOUS
<1>4. l \in Nat /\ m \in Nat /\ n \in Nat
  BY <1>2, <1>3
<1>5. Len(d) = l + m /\ \A i \in 1..m : d[l + i] = b[i]
  BY ONLY <1>2, <1>3, Concat
<1>6. Len(d) = l + n /\ \A i \in 1..n : d[l + i] = c[i]
  <2>1. d = a \o c
    BY <1>3
  <2>2. QED
    BY ONLY <1>2, <1>3, <2>1, Concat
<1>7. m = n /\ \A i \in 1..m : b[i] = c[i]
  <2>1. m = n
    BY ONLY <1>4, <1>5, <1>6
  <2>2. QED
    BY <1>5, <1>6, <2>1, Zenon
<1>8. QED
  BY ONLY <1>2, <1>3, <1>7, SeqEqual

(* A string is exact if its size is the length of its text.                *)
Exact(s) == s \in Strings /\ s.size = Len(s.text)

(* Two texts that are counted make an exact string.  (c_utils_string.c     *)
(* 9-82.)                                                                  *)
LEMMA Counted ==
    ASSUME NEW a \in Text, NEW b \in Text, Len(a) <= MaxChars, Len(b) <= MaxChars
    PROVE  /\ Exact(StrNew(a, b)) /\ Sound(StrNew(a, b))
           /\ StrNew(a, b).text = a \o b /\ Len(StrNew(a, b).text) = Len(a) + Len(b)
<1>1. PICK l, m : l = Len(a) /\ m = Len(b)
  OBVIOUS
<1>2. l \in Nat /\ m \in Nat /\ MaxChars \in Nat /\ l <= MaxChars /\ m <= MaxChars
  BY <1>1, TextsTyped DEF Text
<1>3. PICK t : t = a \o b
  OBVIOUS
<1>4. t \in Text /\ Len(t) = l + m
  BY <1>1, <1>3, Together, Zenon DEF Text
<1>5. CharArrLen(a) = l /\ CharArrLen(b) = m
  BY <1>1, <1>2 DEF CharArrLen
<1>6. StrNew(a, b) = [text |-> t, size |-> l + m]
  BY <1>3, <1>5, Zenon DEF StrNew
<1>7. PICK s : s = StrNew(a, b)
  OBVIOUS
<1>8. s.text = t /\ s.size = l + m /\ s \in Strings
  BY <1>2, <1>4, <1>6, <1>7 DEF Strings
<1>9. Exact(s) /\ Sound(s)
  BY <1>2, <1>4, <1>8 DEF Exact, Sound
<1>10. QED
  BY <1>1, <1>3, <1>4, <1>7, <1>8, <1>9, Zenon

(* Every two texts make a string.                                          *)
LEMMA StrNewTyped ==
    ASSUME NEW a \in Text, NEW b \in Text
    PROVE  StrNew(a, b) \in Strings
<1>1. CharArrLen(a) \in Nat /\ CharArrLen(b) \in Nat
  <2>1. \A t \in Text : Len(t) \in Nat
    BY DEF Text
  <2>2. QED
    BY <2>1 DEF CharArrLen
<1>2. a \o b \in Text
  BY Together DEF Text
<1>3. PICK t, n : t = a \o b /\ n = CharArrLen(a) + CharArrLen(b)
  OBVIOUS
<1>4. StrNew(a, b) = [text |-> t, size |-> n] /\ n \in Nat /\ t \in Text
  BY <1>1, <1>2, <1>3 DEF StrNew
<1>5. QED
  BY <1>4 DEF Strings

-----------------------------------------------------------------------------
(* What names spell, from their beginning on.                              *)
Spell(t, n, name) == IF n = 1 THEN name ELSE t \o Slash \o name

SpelledBy(j, names) ==
    /\ j \in [0..Len(names) -> Text] /\ j[0] = <<>>
    /\ \A n \in 1..Len(names) : j[n] = Spell(j[n - 1], n, names[n])

Spells(j, names) == SpelledBy(j, names) /\ Joined(names) = j[Len(names)]

LEMMA SpellTyped ==
    ASSUME NEW t \in Text, NEW n, NEW name \in EntryNames
    PROVE  Spell(t, n, name) \in Text
<1>1. name \in Text /\ Slash \in Text
  BY TextsTyped
<1>2. t \o Slash \in Text /\ (t \o Slash) \o name \in Text
  BY <1>1, Together, Zenon DEF Text
<1>3. QED
  BY <1>1, <1>2, Zenon DEF Spell

(* The names of a chain.                                                   *)
LEMMA NamesOf ==
    ASSUME NEW names \in Seq(EntryNames)
    PROVE  Len(names) \in Nat /\ \A i \in 1..Len(names) : names[i] \in EntryNames
OBVIOUS

LEMMA EmptyText == <<>> \in Text
BY DEF Text

LEMMA JoinedSteps ==
    ASSUME NEW names \in Seq(EntryNames)
    PROVE  \E j : Spells(j, names)
<1> DEFINE L == Len(names)
           F == [i \in 1..L |-> [t \in Text |-> Spell(t, i, names[i])]]
           Turns(f) == f = [n \in 0..L |-> CASE n = 0 -> <<>>
                                             [] n = 1 -> names[1]
                                             [] OTHER -> f[n - 1] \o Slash \o names[n]]
<1>1. L \in Nat /\ \A i \in 1..L : names[i] \in EntryNames
  BY NamesOf, Zenon
<1>2. <<>> \in Text
  BY EmptyText
<1>3. Joined(names) = (CHOOSE f : Turns(f))[L]
  BY Zenon DEF Joined
<1> HIDE DEF L
<1>4. PICK f : f \in [0..L -> Text] /\ f[0] = <<>>
               /\ \A i \in 1..L : f[i] = F[i][f[i - 1]]
  <2>1. F \in [1..L -> [Text -> Text]]
    <3>1. \A i \in 1..L, t \in Text : Spell(t, i, names[i]) \in Text
      BY <1>1, SpellTyped, Zenon
    <3>2. QED
      BY <3>1
  <2> HIDE DEF F
  <2>2. \E f : Steps(Text, <<>>, L, F, f)
    BY ONLY <1>1, <1>2, <2>1, Recursion
  <2>3. QED
    BY <2>2, Zenon DEF Steps
<1>5. \A i \in 1..L : f[i] = Spell(f[i - 1], i, names[i])
  <2>1. ASSUME NEW i \in 1..L
        PROVE  f[i] = Spell(f[i - 1], i, names[i])
    <3>1. i - 1 \in 0..L
      BY <1>1
    <3>2. f[i - 1] \in Text /\ f[i] = F[i][f[i - 1]]
      BY <1>4, <3>1, Zenon
    <3>3. QED
      BY <3>2, Zenon DEF F
  <2>2. QED
    BY <2>1
<1> HIDE DEF F
<1>6. Turns(f)
  <2>1. ASSUME NEW n \in 0..L
        PROVE  f[n] = CASE n = 0 -> <<>> [] n = 1 -> names[1]
                         [] OTHER -> f[n - 1] \o Slash \o names[n]
    <3>1. n \in Nat /\ (n = 0 \/ (n = 1 /\ n \in 1..L) \/ (n # 0 /\ n # 1 /\ n \in 1..L))
      BY <1>1
    <3>2. CASE n = 0
      BY <1>4, <3>2
    <3>3. CASE n = 1 /\ n \in 1..L
      <4>1. f[n] = names[1]
        BY <1>5, <3>3, Zenon DEF Spell
      <4>2. QED
        BY <3>3, <4>1
    <3>4. CASE n # 0 /\ n # 1 /\ n \in 1..L
      <4>1. f[n] = f[n - 1] \o Slash \o names[n]
        BY <1>5, <3>4, Zenon DEF Spell
      <4>2. QED
        BY <3>4, <4>1
    <3>5. QED
      BY <3>1, <3>2, <3>3, <3>4
  <2>2. f \in [0..L -> Text]
    BY <1>4
  <2>3. QED
    BY <2>1, <2>2
<1> DEFINE j == CHOOSE g : Turns(g)
<1>7. Turns(j)
  BY <1>6, Zenon
<1>8. Joined(names) = j[L]
  BY <1>3
<1> HIDE DEF j
<1>9. j[0] = <<>> /\ \A n \in 1..L : j[n] = Spell(j[n - 1], n, names[n])
  <2>1. \A n \in 0..L : j[n] = CASE n = 0 -> <<>> [] n = 1 -> names[1]
                                  [] OTHER -> j[n - 1] \o Slash \o names[n]
    BY <1>7
  <2>2. 0 \in 0..L
    BY <1>1
  <2>3. ASSUME NEW n \in 1..L
        PROVE  j[n] = Spell(j[n - 1], n, names[n])
    <3>1. n \in 0..L /\ n # 0
      BY <1>1
    <3>2. PICK t : t = j[n - 1] \o Slash \o names[n]
      OBVIOUS
    <3>3. j[n] = CASE n = 0 -> <<>> [] n = 1 -> names[1] [] OTHER -> t
      BY <2>1, <3>1, <3>2, Zenon
    <3>4. (n = 1 /\ j[n] = names[n]) \/ (n # 1 /\ j[n] = t)
      BY <3>1, <3>3
    <3>5. QED
      BY <3>2, <3>4, Zenon DEF Spell
  <2>4. QED
    BY <2>1, <2>2, <2>3
<1>10. \A k \in 0..L : j[k] \in Text
  <2> DEFINE G == {k \in 0..L : j[k] \in Text}
  <2>1. 0 \in G
    BY <1>1, <1>2, <1>9
  <2>2. \A k \in 1..L : k - 1 \in G => k \in G
    <3>1. ASSUME NEW k \in 1..L, k - 1 \in G
          PROVE  k \in G
      <4>1. j[k - 1] \in Text /\ names[k] \in EntryNames /\ k \in 0..L
        BY <1>1, <3>1
      <4>2. j[k] \in Text
        BY <1>9, <4>1, SpellTyped, Zenon
      <4>3. QED
        BY <4>1, <4>2
    <3>2. QED
      BY <3>1
  <2> HIDE DEF G
  <2>3. \A k \in 0..L : k \in G
    BY <1>1, <2>1, <2>2, Upward
  <2>4. QED
    BY <2>3 DEF G
<1>11. j \in [0..L -> Text]
  BY <1>7, <1>10
<1>12. SpelledBy(j, names)
  BY <1>9, <1>11, Zenon DEF SpelledBy, L
<1>13. QED
  BY <1>8, <1>12, Zenon DEF Spells, L

(* What comes later does not change what has been spelled.                 *)
LEMMA SpelledBefore ==
    ASSUME NEW names \in Seq(EntryNames), NEW name \in EntryNames
    PROVE  \E j : /\ Spells(j, Append(names, name))
                  /\ Joined(names) = j[Len(names)]
<1>1. PICK all, n : all = Append(names, name) /\ n = Len(names)
  OBVIOUS
<1>2. /\ all \in Seq(EntryNames) /\ n \in Nat /\ Len(all) = n + 1 /\ all[n + 1] = name
      /\ \A i \in 1..n : all[i] = names[i]
  BY <1>1
<1>3. PICK j : Spells(j, all)
  BY <1>2, JoinedSteps, Zenon
<1>4. PICK h : Spells(h, names)
  BY JoinedSteps, Zenon
<1>5. h[0] = j[0] /\ \A k \in 1..n : h[k] = Spell(h[k - 1], k, names[k])
  BY <1>1, <1>3, <1>4, Zenon DEF Spells, SpelledBy
<1>6. \A k \in 1..n : j[k] = Spell(j[k - 1], k, names[k])
  <2>1. \A k \in 1..n : k \in 1..Len(all)
    BY <1>2
  <2>2. QED
    BY <1>2, <1>3, <2>1, Zenon DEF Spells, SpelledBy
<1>7. \A k \in 1..n : h[k - 1] = j[k - 1] => h[k] = j[k]
  BY <1>5, <1>6, Zenon
<1>8. h[n] = j[n]
  BY ONLY <1>2, <1>5, <1>7, Alike
<1>9. Joined(names) = j[n]
  BY <1>1, <1>4, <1>8, Zenon DEF Spells
<1>10. QED
  BY <1>1, <1>3, <1>9, Zenon

(* The paths on the way.                                                   *)
Ways(path, c, chain) ==
    /\ path[0] = Copy(Cwd(c))
    /\ \A n \in 1..Len(chain) : path[n] = NewPath(path[n - 1], chain[n])

LEMMA WalkToSteps ==
    ASSUME NEW c \in Cwds, NEW chain \in Seq(EntryNames)
    PROVE  Ways(WalkTo(c, chain), c, chain)
<1> DEFINE L == Len(chain)
           base == Copy(Cwd(c))
           F == [i \in 1..L |-> [s \in Strings |-> NewPath(s, chain[i])]]
           Turns(f) == f = [n \in 0..L |-> IF n = 0 THEN Copy(Cwd(c))
                                           ELSE NewPath(f[n - 1], chain[n])]
<1>1. L \in Nat /\ \A i \in 1..L : chain[i] \in EntryNames
  BY NamesOf, Zenon
<1>2. \A s \in Strings : s.text \in Text
  BY DEF Strings
<1>3. base \in Strings
  <2>1. Cwd(c) \in Strings
    BY TextsTyped, StrNewTyped, Zenon DEF Cwd
  <2>2. Cwd(c).text \in Text
    BY <1>2, <2>1, Zenon
  <2>3. QED
    BY <2>2, EmptyText, StrNewTyped, Zenon DEF Copy
<1>4. ASSUME NEW s \in Strings, NEW name \in EntryNames
      PROVE  NewPath(s, name) \in Strings
  <2>1. s.text \in Text /\ name \in Text /\ Slash \in Text
    BY <1>2, TextsTyped, Zenon
  <2>2. EntryPath(s, name) \in Strings
    BY <2>1, StrNewTyped, Zenon DEF EntryPath
  <2>3. EntryPath(s, name).text \in Text
    BY <1>2, <2>2, Zenon
  <2>4. QED
    BY <2>1, <2>3, StrNewTyped, Zenon DEF NewPath
<1>5. WalkTo(c, chain) = CHOOSE f : Turns(f)
  BY Zenon DEF WalkTo
<1> HIDE DEF L
<1>6. PICK f : Turns(f)
  <2>1. F \in [1..L -> [Strings -> Strings]]
    <3>1. \A i \in 1..L, s \in Strings : NewPath(s, chain[i]) \in Strings
      BY <1>1, <1>4, Zenon
    <3>2. QED
      BY <3>1
  <2> HIDE DEF F, base
  <2>2. \E f : Steps(Strings, base, L, F, f)
    BY ONLY <1>1, <1>3, <2>1, Recursion
  <2>3. PICK f \in [0..L -> Strings] : f[0] = base /\ \A i \in 1..L : f[i] = F[i][f[i - 1]]
    BY <2>2 DEF Steps
  <2>4. ASSUME NEW i \in 0..L
        PROVE  f[i] = IF i = 0 THEN Copy(Cwd(c)) ELSE NewPath(f[i - 1], chain[i])
    <3>1. CASE i = 0
      BY <2>3, <3>1, Zenon DEF base
    <3>2. CASE i # 0
      <4>1. i \in 1..L /\ i - 1 \in 0..L
        BY <1>1, <3>2
      <4>2. f[i - 1] \in Strings /\ f[i] = F[i][f[i - 1]]
        BY <2>3, <4>1
      <4>3. f[i] = NewPath(f[i - 1], chain[i])
        BY <4>1, <4>2, Zenon DEF F
      <4>4. QED
        BY <3>2, <4>3
    <3>3. QED
      BY <3>1, <3>2
  <2>5. Turns(f)
    BY <2>3, <2>4
  <2> HIDE DEF Turns
  <2>6. QED
    BY <2>5
<1> DEFINE path == CHOOSE g : Turns(g)
<1>7. Turns(path)
  BY <1>6, Zenon
<1> HIDE DEF path
<1>8. path[0] = Copy(Cwd(c)) /\ \A n \in 1..L : path[n] = NewPath(path[n - 1], chain[n])
  <2>1. \A n \in 0..L : path[n] = IF n = 0 THEN Copy(Cwd(c)) ELSE NewPath(path[n - 1], chain[n])
    BY <1>7
  <2>2. 0 \in 0..L /\ \A n \in 1..L : n \in 0..L /\ n # 0
    BY <1>1
  <2>3. QED
    BY <2>1, <2>2, Zenon
<1>9. QED
  BY <1>5, <1>8, Zenon DEF Ways, L, path

-----------------------------------------------------------------------------
(* Where n names lead, as a text: the slash that each path ends in.        *)
Below(c, j, n) == IF n = 0 THEN c \o Slash ELSE ((c \o Slash) \o j[n]) \o Slash

(* A name below is spelled with those before it.                           *)
LEMMA BelowSpells ==
    ASSUME NEW c \in Cwds, NEW names \in Seq(EntryNames), NEW j, SpelledBy(j, names),
           NEW n \in 1..Len(names)
    PROVE  Below(c, j, n - 1) \o names[n] = (c \o Slash) \o j[n]
<1>1. PICK p, name : p = j[n - 1] /\ name = names[n]
  OBVIOUS
<1>2. /\ c \in Text /\ Slash \in Text /\ name \in Text
      /\ Len(names) \in Nat /\ n \in Nat /\ n - 1 \in 0..Len(names)
  <2>1. Len(names) \in Nat /\ name \in EntryNames
    BY <1>1, NamesOf
  <2>2. QED
    BY <2>1, TextsTyped
<1>3. p \in Text
  BY <1>1, <1>2 DEF SpelledBy
<1>4. j[n] = Spell(p, n, name)
  BY <1>1, Zenon DEF SpelledBy
<1>5. CASE n = 1
  <2>1. n - 1 = 0
    BY <1>5
  <2>2. QED
    BY <1>1, <1>4, <1>5, <2>1, Zenon DEF Below, Spell
<1>6. CASE n # 1
  <2>1. n - 1 # 0
    BY <1>2, <1>6
  <2>2. Below(c, j, n - 1) = ((c \o Slash) \o p) \o Slash
    BY <1>1, <2>1, Zenon DEF Below
  <2>3. j[n] = (p \o Slash) \o name
    BY <1>4, <1>6, Zenon DEF Spell
  <2>4. PICK cs, ps : cs = c \o Slash /\ ps = p \o Slash
    OBVIOUS
  <2>5. cs \in Text /\ ps \in Text
    BY <1>2, <1>3, <2>4, Together, Zenon DEF Text
  <2>6. (cs \o p) \o Slash = cs \o ps
    <3>1. cs \in Text /\ p \in Text /\ Slash \in Text
      BY <1>2, <1>3, <2>5, Zenon
    <3>2. (cs \o p) \o Slash = cs \o (p \o Slash)
      BY ONLY <3>1, AnyOrder
    <3>3. QED
      BY ONLY <2>4, <3>2, Zenon
  <2>7. (cs \o ps) \o name = cs \o (ps \o name)
    <3>1. cs \in Text /\ ps \in Text /\ name \in Text
      BY <1>2, <2>5, Zenon
    <3>2. QED
      BY ONLY <3>1, AnyOrder
  <2>8. QED
    BY <1>1, <2>2, <2>3, <2>4, <2>6, <2>7, Zenon
<1>7. QED
  BY <1>5, <1>6

(* The names on the way are no longer than all of them.                    *)
LEMMA SpelledGrows ==
    ASSUME NEW names \in Seq(EntryNames), NEW j, SpelledBy(j, names),
           NEW n \in 0..Len(names)
    PROVE  Len(j[n]) <= Len(j[Len(names)])
<1>1. PICK L, T : L = Len(names) /\ T = [k \in 0..L |-> Len(j[k])]
  OBVIOUS
<1>2. L \in Nat /\ \A k \in 0..L : j[k] \in Text
  BY <1>1, NamesOf DEF SpelledBy
<1>3. T \in [0..L -> Nat] /\ \A k \in 0..L : T[k] = Len(j[k])
  <2>1. \A t \in Text : Len(t) \in Nat
    BY DEF Text
  <2>2. QED
    BY <1>1, <1>2, <2>1
<1>4. ASSUME NEW k \in 1..L
      PROVE  T[k - 1] <= T[k]
  <2>1. names[k] \in EntryNames /\ names[k] \in Text /\ Slash \in Text /\ Len(Slash) = 1
    BY <1>1, NamesOf, TextsTyped
  <2>2. k - 1 \in 0..L /\ k \in 0..L
    BY <1>2
  <2>3. PICK p, name : p = j[k - 1] /\ name = names[k]
    OBVIOUS
  <2>4. p \in Text /\ name \in Text /\ j[k] = Spell(p, k, name)
    BY <1>1, <1>2, <2>1, <2>2, <2>3, Zenon DEF SpelledBy
  <2>5. Len(p) \in Nat /\ Len(name) \in Nat
    BY <2>4 DEF Text
  <2>6. CASE k = 1
    <3>1. k - 1 = 0
      BY <2>6
    <3>2. p = <<>>
      BY <2>3, <3>1, Zenon DEF SpelledBy
    <3>3. Len(p) = 0
      BY <3>2
    <3>4. T[k - 1] = 0 /\ T[k] \in Nat
      BY <1>3, <2>2, <2>3, <3>3
    <3>5. QED
      BY <3>4
  <2>7. CASE k # 1
    <3>1. j[k] = (p \o Slash) \o name
      BY <2>4, <2>7, Zenon DEF Spell
    <3>2. p \o Slash \in Text /\ Len(p \o Slash) = Len(p) + Len(Slash)
      BY <2>1, <2>4, Together, Zenon DEF Text
    <3>3. Len(j[k]) = Len(p \o Slash) + Len(name)
      BY <2>4, <3>1, <3>2, Together, Zenon DEF Text
    <3>4. T[k - 1] = Len(p) /\ T[k] = (Len(p) + 1) + Len(name)
      BY <1>3, <2>1, <2>2, <2>3, <3>2, <3>3, Zenon
    <3>5. QED
      BY <2>5, <3>4
  <2>8. QED
    BY <2>6, <2>7
<1>5. ASSUME NEW m \in 0..L
      PROVE  T[m] <= T[L]
  <2> DEFINE G == {k \in 0..(L - m) : T[m] <= T[m + k]}
  <2>1. L - m \in Nat
    BY <1>2
  <2>2. 0 \in G
    BY <1>2, <1>3, <2>1
  <2>3. ASSUME NEW k \in 1..(L - m), k - 1 \in G
        PROVE  k \in G
    <3>1. m + k \in 1..L /\ m + (k - 1) = (m + k) - 1 /\ k \in 0..(L - m)
          /\ (m + k) - 1 \in 0..L /\ m + k \in 0..L
      BY <1>2, <2>1
    <3>2. T[m] <= T[(m + k) - 1] /\ T[(m + k) - 1] <= T[m + k]
      BY <1>4, <2>3, <3>1
    <3>3. T[m] \in Nat /\ T[(m + k) - 1] \in Nat /\ T[m + k] \in Nat
      BY <1>3, <3>1
    <3>4. T[m] <= T[m + k]
      BY <3>2, <3>3
    <3>5. QED
      BY <3>1, <3>4
  <2>4. \A k \in 1..(L - m) : k - 1 \in G => k \in G
    BY <2>3
  <2> HIDE DEF G
  <2>5. L - m \in G
    <3>1. \A k \in 0..(L - m) : k \in G
      BY <2>1, <2>2, <2>4, Upward
    <3>2. QED
      BY <2>1, <3>1
  <2>6. m + (L - m) = L
    BY <1>2
  <2>7. QED
    BY <2>5, <2>6 DEF G
<1>6. L \in 0..L
  BY <1>2
<1>7. QED
  BY <1>1, <1>3, <1>5, <1>6

(* There is room for each of them.                                         *)
LEMMA BelowFits ==
    ASSUME NEW c \in Cwds, NEW names \in Seq(EntryNames), NEW j, Spells(j, names),
           RoomBelow(c, names), NEW n \in 0..Len(names)
    PROVE  /\ Below(c, j, n) \in Text /\ Len(Below(c, j, n)) < MaxChars
           /\ (c \o Slash) \o j[n] \in Text
           /\ Len((c \o Slash) \o j[n]) + 1 < MaxChars
<1>1. PICK cs, p, J : cs = c \o Slash /\ p = j[n] /\ J = Joined(names)
  OBVIOUS
<1>2. c \in Text /\ Slash \in Text /\ Len(Slash) = 1 /\ MaxChars \in Nat
  BY TextsTyped
<1>3. p \in Text /\ J \in Text /\ J = j[Len(names)] /\ SpelledBy(j, names)
  <2>1. Len(names) \in 0..Len(names)
    BY NamesOf
  <2>2. QED
    BY <1>1, <2>1 DEF Spells, SpelledBy
<1>4. Len(p) <= Len(J) /\ Len(p) \in Nat /\ Len(J) \in Nat /\ Len(c) \in Nat
  <2>1. Len(p) <= Len(J)
    BY <1>1, <1>3, SpelledGrows
  <2>2. \A t \in Text : Len(t) \in Nat
    BY DEF Text
  <2>3. QED
    BY <1>2, <1>3, <2>1, <2>2
<1>5. cs \in Text /\ Len(cs) = Len(c) + Len(Slash)
  BY <1>1, <1>2, Together, Zenon DEF Text
<1>6. cs \o p \in Text /\ Len(cs \o p) = Len(cs) + Len(p)
  BY <1>3, <1>5, Together, Zenon DEF Text
<1>7. (cs \o p) \o Slash \in Text /\ Len((cs \o p) \o Slash) = Len(cs \o p) + Len(Slash)
  BY <1>2, <1>6, Together, Zenon DEF Text
<1>8. Len(c) + 1 + Len(J) + 1 < MaxChars
  BY <1>1, Zenon DEF RoomBelow
<1>9. PICK t, u : t = cs \o p /\ u = t \o Slash
  OBVIOUS
<1>10. /\ t \in Text /\ u \in Text /\ Len(t) + 1 < MaxChars
       /\ Len(cs) < MaxChars /\ Len(u) < MaxChars
  <2>1. Len(t) = (Len(c) + 1) + Len(p) /\ Len(u) = Len(t) + 1 /\ t \in Text /\ u \in Text
    BY <1>2, <1>5, <1>6, <1>7, <1>9, Zenon
  <2>2. Len(cs) = Len(c) + 1
    BY <1>2, <1>5, Zenon
  <2>3. QED
    BY ONLY <1>2, <1>4, <1>8, <2>1, <2>2
<1>11. Below(c, j, n) = cs \/ Below(c, j, n) = u
  BY <1>1, <1>9, Zenon DEF Below
<1>12. QED
  BY <1>1, <1>5, <1>9, <1>10, <1>11, Zenon

(* The path of a call on the way, and each string that a call makes there, *)
(* is exact.  (inotify.c 109, 119.)                                        *)
LEMMA WayIsSound ==
    ASSUME NEW c \in Cwds, NEW names \in Seq(EntryNames), NEW j, Spells(j, names),
           RoomBelow(c, names)
    PROVE  /\ WaySound(c, names)
           /\ WalkTo(c, names)[Len(names)].text = Below(c, j, Len(names))
<1> DEFINE L == Len(names)
           path == WalkTo(c, names)
           Good(n) == path[n].text = Below(c, j, n) /\ Sound(path[n])
<1>1. L \in Nat /\ \A i \in 1..L : names[i] \in EntryNames
  BY NamesOf
<1>2. path[0] = Copy(Cwd(c)) /\ \A n \in 1..L : path[n] = NewPath(path[n - 1], names[n])
  BY WalkToSteps, Zenon DEF Ways
<1>3. \A n \in 0..L : /\ Below(c, j, n) \in Text /\ Len(Below(c, j, n)) < MaxChars
                      /\ (c \o Slash) \o j[n] \in Text
                      /\ Len((c \o Slash) \o j[n]) + 1 < MaxChars
  BY BelowFits
<1>4. /\ c \in Text /\ Slash \in Text /\ Dot \in Text /\ Len(Slash) = 1 /\ Len(Dot) = 1
      /\ MaxChars \in Nat /\ \A t \in EntryNames : t \in Text /\ Len(t) <= MaxChars
  BY TextsTyped
<1> HIDE DEF L, path
<1>5. \A t \in Text : Len(t) \in Nat
  BY DEF Text
<1>6. Sound(Cwd(c)) /\ Good(0)
  <2>1. 0 \in 0..L
    BY <1>1
  <2>2. PICK cs : cs = c \o Slash
    OBVIOUS
  <2>3. Below(c, j, 0) = cs /\ cs \in Text /\ Len(cs) < MaxChars
    BY <1>3, <2>1, <2>2, Zenon DEF Below
  <2>4. Len(cs) = Len(c) + Len(Slash) /\ Len(c) \in Nat
    BY <1>4, <2>2, Together, Zenon DEF Text
  <2>5. Len(c) <= MaxChars /\ 1 <= MaxChars /\ Len(cs) <= MaxChars
    BY <1>4, <1>5, <2>3, <2>4
  <2>6. Sound(Cwd(c)) /\ Cwd(c).text = cs
    BY <1>4, <2>2, <2>5, Counted, Zenon DEF Cwd
  <2>7. <<>> \in Text /\ Len(<<>>) <= MaxChars
    BY <1>4, EmptyText
  <2>8. Sound(Copy(Cwd(c))) /\ Copy(Cwd(c)).text = cs \o <<>>
    BY <2>3, <2>5, <2>6, <2>7, Counted, Zenon DEF Copy
  <2>9. cs \o <<>> = cs
    BY <2>3 DEF Text
  <2>10. QED
    BY <1>2, <2>3, <2>6, <2>8, <2>9, Zenon
<1>7. ASSUME NEW n \in 0..L, Good(n), NEW name \in Text, Len(name) <= MaxChars,
             Len(Below(c, j, n) \o name) <= MaxChars
      PROVE  /\ Sound(EntryPath(path[n], name)) /\ Sound(NewPath(path[n], name))
             /\ NewPath(path[n], name).text = (Below(c, j, n) \o name) \o Slash
  <2>1. PICK b, e : b = Below(c, j, n) /\ e = b \o name
    OBVIOUS
  <2>2. b \in Text /\ Len(b) < MaxChars /\ Len(b) \in Nat
    BY <1>3, <1>5, <2>1
  <2>3. Len(b) <= MaxChars /\ Len(Slash) <= MaxChars
    BY <1>4, <2>2
  <2>4. e \in Text /\ Len(e) <= MaxChars
    BY <1>7, <2>1, <2>2, Together, Zenon DEF Text
  <2>5. Sound(EntryPath(path[n], name)) /\ EntryPath(path[n], name).text = e
    BY <1>7, <2>1, <2>2, <2>3, Counted, Zenon DEF EntryPath
  <2>6. Sound(NewPath(path[n], name)) /\ NewPath(path[n], name).text = e \o Slash
    BY <1>4, <2>3, <2>4, <2>5, Counted, Zenon DEF NewPath
  <2>7. QED
    BY <2>1, <2>5, <2>6, Zenon
<1>8. ASSUME NEW n \in 1..L, Good(n - 1)
      PROVE  Good(n) /\ Sound(EntryPath(path[n - 1], names[n]))
             /\ Sound(NewPath(path[n - 1], names[n]))
  <2>1. n - 1 \in 0..L /\ n \in 0..L /\ n # 0 /\ n \in 1..Len(names)
    BY <1>1 DEF L
  <2>2. Below(c, j, n - 1) \o names[n] = (c \o Slash) \o j[n]
    BY <2>1, BelowSpells, Zenon DEF Spells
  <2>3. PICK t : t = (c \o Slash) \o j[n]
    OBVIOUS
  <2>4. t \in Text /\ Len(t) + 1 < MaxChars
    BY <1>3, <2>1, <2>3, Zenon
  <2>5. Len(t) <= MaxChars
    BY <1>4, <1>5, <2>4
  <2>6. names[n] \in Text /\ Len(names[n]) <= MaxChars
    BY <1>1, <1>4
  <2>7. /\ Sound(EntryPath(path[n - 1], names[n])) /\ Sound(NewPath(path[n - 1], names[n]))
        /\ NewPath(path[n - 1], names[n]).text = t \o Slash
    BY <1>7, <1>8, <2>1, <2>2, <2>3, <2>5, <2>6, Zenon
  <2>8. Below(c, j, n) = t \o Slash
    BY <2>1, <2>3, Zenon DEF Below
  <2>9. QED
    BY <1>2, <2>7, <2>8, Zenon
<1>9. \A n \in 0..L : Good(n)
  <2> DEFINE G == {n \in 0..L : Good(n)}
  <2> HIDE DEF Good
  <2>1. 0 \in G
    BY <1>1, <1>6
  <2>2. \A n \in 1..L : n - 1 \in G => n \in G
    <3>1. \A n \in 1..L : n \in 0..L
      BY <1>1
    <3>2. QED
      BY <1>8, <3>1, Zenon
  <2> HIDE DEF G
  <2>3. \A n \in 0..L : n \in G
    BY <1>1, <2>1, <2>2, Upward
  <2>4. QED
    BY <2>3 DEF G
<1>10. ASSUME NEW n \in 0..L
       PROVE  Sound(EntryPath(path[n], Dot)) /\ Sound(NewPath(path[n], Dot))
  <2>1. PICK b, e : b = Below(c, j, n) /\ e = b \o Dot
    OBVIOUS
  <2>2. b \in Text /\ Len(b) < MaxChars
    BY <1>3, <2>1, Zenon
  <2>3. Len(e) = Len(b) + Len(Dot) /\ Len(b) \in Nat
    BY <1>4, <2>1, <2>2, Together, Zenon DEF Text
  <2>4. Len(e) <= MaxChars /\ Len(Dot) <= MaxChars
    BY <1>4, <2>2, <2>3
  <2>5. QED
    BY <1>4, <1>7, <1>9, <2>1, <2>4, Zenon
<1>11. ASSUME NEW n \in 1..L
       PROVE  Sound(EntryPath(path[n - 1], names[n])) /\ Sound(NewPath(path[n - 1], names[n]))
  <2>1. n - 1 \in 0..L
    BY <1>1
  <2>2. QED
    BY <1>8, <1>9, <2>1, Zenon
<1>12. L \in 0..L /\ Sound(path[0])
  BY <1>1, <1>6
<1>13. WaySound(c, names)
  BY <1>6, <1>10, <1>11, <1>12, Zenon DEF WaySound, L, path
<1>14. QED
  BY <1>9, <1>12, <1>13, Zenon DEF L, path

(* Two exact strings are equal if their texts are.  (c_utils_string.c      *)
(* 132-147.)                                                               *)
LEMMA StrCmpExact ==
    ASSUME NEW a, NEW b, Exact(a), Exact(b)
    PROVE  StrCmp(a, b) <=> a.text = b.text
<1>1. PICK s, t : s = a.text /\ t = b.text
  OBVIOUS
<1>2. s \in Text /\ t \in Text /\ a.size = Len(s) /\ b.size = Len(t)
  BY <1>1 DEF Exact, Strings
<1>3. SubSeq(s, 1, Len(s)) = s /\ SubSeq(t, 1, Len(t)) = t
  BY <1>2, Together, Zenon DEF Text
<1>4. StrCmp(a, b) <=> Len(s) = Len(t) /\ SubSeq(s, 1, Len(s)) = SubSeq(t, 1, Len(s))
  BY <1>1, <1>2, Zenon DEF StrCmp
<1>5. CASE Len(s) = Len(t)
  BY <1>1, <1>3, <1>4, <1>5, Zenon
<1>6. CASE Len(s) # Len(t)
  BY <1>1, <1>4, <1>6, Zenon
<1>7. QED
  BY <1>5, <1>6

(* A name below a chain is found in ignoreDirs exactly if it is there.     *)
LEMMA PathsCompared ==
    ASSUME NEW c \in Cwds, NEW names \in Seq(EntryNames), NEW name \in EntryNames,
           NEW v \in Values, RoomBelow(c, names)
    PROVE  Compares(c, names, name, v)
<1>1. PICK all, n : all = Append(names, name) /\ n = Len(names)
  OBVIOUS
<1>2. /\ all \in Seq(EntryNames) /\ n \in Nat /\ Len(all) = n + 1 /\ all[n + 1] = name
      /\ n + 1 \in 1..Len(all) /\ (n + 1) - 1 = n /\ n \in 0..n
  BY <1>1
<1>3. PICK j : Spells(j, all) /\ Joined(names) = j[n]
  BY <1>1, SpelledBefore, Zenon
<1>4. PICK h : Spells(h, names)
  BY JoinedSteps, Zenon
<1>5. PICK path, b, cs : /\ path = WalkTo(c, names)[n] /\ b = Below(c, j, n)
                         /\ cs = c \o Slash
  OBVIOUS
<1>6. Below(c, h, n) = b
  BY <1>1, <1>3, <1>4, <1>5, Zenon DEF Below, Spells
<1>7. WaySound(c, names) /\ path.text = b
  BY <1>1, <1>4, <1>5, <1>6, WayIsSound, Zenon
<1>8. b \in Text /\ Len(b) < MaxChars
  BY <1>1, <1>2, <1>4, <1>6, BelowFits, Zenon
<1>9. /\ c \in Text /\ Slash \in Text /\ Len(Slash) = 1 /\ MaxChars \in Nat
      /\ v \in Text /\ Len(v) <= MaxChars /\ name \in Text /\ Len(name) <= MaxChars
  BY TextsTyped
<1>10. Below(c, h, 0) = cs /\ cs \in Text /\ Len(cs) < MaxChars
  <2>1. 0 \in 0..Len(names)
    BY <1>1, <1>2
  <2>2. Below(c, h, 0) = cs
    BY <1>5, Zenon DEF Below
  <2>3. QED
    BY <1>4, <2>1, <2>2, BelowFits, Zenon
<1>11. /\ Len(b) <= MaxChars /\ Len(cs) <= MaxChars /\ Len(Slash) <= MaxChars
       /\ Len(c) <= MaxChars
  <2>1. Len(cs) = Len(c) + Len(Slash) /\ Len(c) \in Nat
    BY <1>5, <1>9, Together, Zenon DEF Text
  <2>2. Len(b) \in Nat
    BY <1>8 DEF Text
  <2>3. QED
    BY <1>8, <1>9, <1>10, <2>1, <2>2
<1>12. PICK entry, ignored : entry = EntryPath(path, name) /\ ignored = IgnoreEntry(c, v)
  OBVIOUS
<1>13. Exact(entry) /\ Sound(entry) /\ entry.text = b \o name
  BY <1>7, <1>8, <1>9, <1>11, <1>12, Counted, Zenon DEF EntryPath
<1>14. Exact(ignored) /\ Sound(ignored) /\ ignored.text = cs \o v
  <2>1. Cwd(c).text = cs
    BY <1>5, <1>9, <1>11, Counted, Zenon DEF Cwd
  <2>2. QED
    BY <1>9, <1>10, <1>11, <1>12, <2>1, Counted, Zenon DEF IgnoreEntry
<1>15. PICK J : J = Joined(all)
  OBVIOUS
<1>16. b \o name = cs \o J /\ J \in Text
  <2>1. J = j[n + 1] /\ j[n + 1] \in Text
    <3>1. n + 1 \in 0..Len(all)
      BY <1>2
    <3>2. j[n + 1] \in Text
      BY <1>3, <3>1 DEF Spells, SpelledBy
    <3>3. QED
      BY <1>2, <1>3, <1>15, <3>2, Zenon DEF Spells
  <2>2. Below(c, j, (n + 1) - 1) \o all[n + 1] = (c \o Slash) \o j[n + 1]
    BY <1>2, <1>3, BelowSpells, Zenon DEF Spells
  <2>3. QED
    BY <1>2, <1>5, <2>1, <2>2, Zenon
<1>17. cs \o J = cs \o v => J = v
  BY <1>9, <1>10, <1>16, Cancel, Zenon
<1>18. StrCmp(entry, ignored) <=> v = J
  <2>1. StrCmp(entry, ignored) <=> entry.text = ignored.text
    BY <1>13, <1>14, StrCmpExact, Zenon
  <2>2. QED
    BY <1>13, <1>14, <1>16, <1>17, <2>1, Zenon
<1>19. QED
  BY <1>1, <1>5, <1>7, <1>12, <1>13, <1>14, <1>15, <1>18, Zenon DEF Compares

-----------------------------------------------------------------------------
(***************************************************************************)
(* The walk, in every tree.                                                *)
(***************************************************************************)

(* Every reachable state satisfies the inductive invariant.                *)
THEOREM Invariance == Spec => []IInv
<1>1. Init => IInv
  BY InitCalls, RootedAlways, InitLeavesNothing, KnownAlways, InitOnce, SmallAlways,
     SurvivesAlways DEF IInv
<1>2. IInv /\ [Next]_vars => IInv'
  BY NextCalls, RootedAlways, NextLeavesNothing, KnownAlways, NextOnce, SmallAlways,
     SurvivesAlways DEF IInv
<1>3. QED
  BY <1>1, <1>2, PTL DEF Spec

(* No ignored directory is ever watched, nor anything below one.           *)
THEOREM NothingSkippedIsWatched == Spec => []NothingSkippedWatched
<1>1. IInv => NothingSkippedWatched
  BY DEF IInv, CallsInv
<1>2. QED
  BY <1>1, Invariance, PTL

(* A walk that is over has left out no directory that was there all along, *)
(* but for those whose watch the kernel refused.  (inotify.c 107-126.)     *)
THEOREM AllAreWatched == Spec => []AllWatched
<1>1. IInv => AllWatched
  BY NothingLeftOut DEF IInv, Finished, AllWatched, Reached
<1>2. QED
  BY <1>1, Invariance, PTL

(* An array with room for two descriptors of each directory is never       *)
(* replaced, so no call uses a freed one, and main() is left with every    *)
(* descriptor.  (inotify.c 118, c_int_array.c 35-61.)                      *)
THEOREM RoomyWalkIsSafe == Spec => []SmallWalkIsSafe
<1>1. IInv => SmallWalkIsSafe
  BY DEF IInv
<1>2. QED
  BY <1>1, Invariance, PTL

(* Such a walk crashes at nothing but a directory that the user removes,   *)
(* if there is a file descriptor for every directory.  (inotify.c 104.)    *)
THEOREM RoomyWalkSurvives == Spec => []SmallWalkSurvives
<1>1. IInv => SmallWalkSurvives
  BY DEF IInv
<1>2. QED
  BY <1>1, Invariance, PTL

(* A name that the walk comes to is compared as it is spelled, and each    *)
(* string made on the way has room for its text, as long as a name of one  *)
(* character has room below the directory.  (c_utils_string.c 9-82,        *)
(* 132-147; inotify.c 109-121; config.c 346-351.)                          *)
THEOREM PathsAreCompared == Spec => []PathsCompare
<1>1. PathsCompare
  BY PathsCompared, TextsTyped, Zenon DEF PathsCompare
<1>2. QED
  BY <1>1, PTL

-----------------------------------------------------------------------------
(***************************************************************************)
(* Refinement: the walk of Watcher.                                        *)
(***************************************************************************)

(* Both begin with nothing watched.                                        *)
LEMMA InitWalks == Init => Watcher!Init
<1>1. [f \in {} |-> 0] = <<>>
  OBVIOUS
<1>2. QED
  BY <1>1 DEF Init, Watcher!Init

(* A record is a step that comes to one more directory, or to none; the    *)
(* end of the walk, and its crash, are Watcher's.                          *)
LEMMA NextWalks == IInv /\ [Next]_vars => [Watcher!Next]_(Watcher!vars)
<1> SUFFICES ASSUME IInv, [Next]_vars PROVE [Watcher!Next]_(Watcher!vars)
  OBVIOUS
<1>1. ASSUME UNCHANGED <<exists, watched, refused, pc>>
      PROVE  UNCHANGED Watcher!vars
  BY <1>1 DEF Watcher!vars
<1>2. ASSUME Running, NEW d \in Dirs \ Skipped, NEW wd, NEW entry, Record(d, wd, entry),
             UNCHANGED <<pc, exists>>
      PROVE  [Watcher!Next]_(Watcher!vars)
  <2>1. pc = "walk" /\ pc' = "walk"
    BY <1>2 DEF Running
  <2>2. CASE UNCHANGED <<watched, refused>>
    BY <1>1, <1>2, <2>2
  <2>3. CASE ~UNCHANGED <<watched, refused>>
    <3>1. \/ /\ d \in exists /\ watched' = watched \union {d} /\ refused' = refused \ {d}
          \/ /\ d \in exists \ watched /\ Cardinality(refused) < MaxRefusals
             /\ refused' = refused \union {d} /\ UNCHANGED watched
      BY <1>2, <2>3 DEF Record, Watch
    <3>2. Watcher!Reach(d)
      BY <1>2, <2>1, <3>1
      DEF Watcher!Reach, Watcher!AddWatch, Watcher!RefuseWatch, Watcher!userVars,
          Watcher!queueVars, Watcher!Cardinality, Cardinality
    <3>3. QED
      BY <3>2 DEF Watcher!Next, Watcher!Cmon
  <2>4. QED
    BY <2>2, <2>3
<1>3. ASSUME NEW d \in Dirs, Entry(d)
      PROVE  [Watcher!Next]_(Watcher!vars)
  BY <1>2, <1>3, EntryFacts DEF Entry, EntryConditions, Walked, IInv
<1>4. CASE Self
  <2>1. Running /\ Top.dir \in Dirs \ Skipped
    BY <1>4, TopFacts DEF Self, Calls, IInv
  <2>2. QED
    BY <1>2, <1>4, <2>1 DEF Self
<1>5. CASE Done
  <2>1. pc = "walk" /\ pc' = "done" /\ UNCHANGED <<exists, watched, refused>>
    BY <1>5 DEF Done
  <2>2. ToWatch \subseteq watched \union refused
    BY <1>5, NothingLeftOut DEF Done, IInv, Reached
  <2>3. Watcher!WalkDone
    BY <2>1, <2>2 DEF Watcher!WalkDone, Watcher!userVars, Watcher!queueVars,
                      Watcher!watchVars, Watcher!ToWatch, ToWatch
  <2>4. QED
    BY <2>3 DEF Watcher!Next, Watcher!Cmon, Watcher!Loop
<1>6. CASE Open \/ Corrupted
  <2>1. UNCHANGED <<exists, watched, refused>> /\ pc = "walk" /\ pc' \in {"walk", "crashed"}
    BY <1>6 DEF Open, Corrupted, Running
  <2>2. CASE pc' = "walk"
    BY <1>1, <2>1, <2>2
  <2>3. CASE pc' = "crashed"
    <3>1. Watcher!WalkCrashes
      BY <2>1, <2>3 DEF Watcher!WalkCrashes, Watcher!userVars, Watcher!queueVars,
                        Watcher!watchVars
    <3>2. QED
      BY <3>1 DEF Watcher!Next, Watcher!Cmon, Watcher!Loop
  <2>4. QED
    BY <2>1, <2>2, <2>3
<1>61. CASE Return \/ UNCHANGED vars
  BY <1>1, <1>61 DEF Return, vars
<1>7. ASSUME NEW d \in Dirs, MakeDir(d)
      PROVE  [Watcher!Next]_(Watcher!vars)
  <2>1. Watcher!MakeDir(d)
    BY <1>7 DEF MakeDir, Watcher!MakeDir, Watcher!queueVars, Watcher!watchVars
  <2>2. QED
    BY <2>1 DEF Watcher!Next, Watcher!Environment
<1>8. ASSUME NEW d \in Dirs, RemoveDir(d)
      PROVE  [Watcher!Next]_(Watcher!vars)
  <2>1. Watcher!RemoveDir(d)
    BY <1>8 DEF RemoveDir, Watcher!RemoveDir, Watcher!queueVars
  <2>2. QED
    BY <2>1 DEF Watcher!Next, Watcher!Environment
<1>9. QED
  BY <1>3, <1>4, <1>5, <1>6, <1>61, <1>7, <1>8 DEF Next, Walk

(* Whatever the user does meanwhile, the walk is one that Watcher takes    *)
(* its directories to be found by (inotify.c 96-128).                      *)
THEOREM WalksLikeWatcher == Spec => WalkOfWatcher
<1>1. QED
  BY InitWalks, NextWalks, Invariance, PTL DEF Spec, WalkOfWatcher, Watcher!Spec

=============================================================================
