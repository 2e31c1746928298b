---------------------------- MODULE BufferProofs ----------------------------
(***************************************************************************)
(* For buffers of any size, strings of any length and any bytes: no        *)
(* sequence of calls leads outside the memory, and an insertion or a shift *)
(* yields the same text in place and in new memory.                        *)
(***************************************************************************)
EXTENDS Buffer, SequenceTheorems, TLAPS

(* New memory of n equal bytes (calloc, malloc).                           *)
LEMMA CellsFacts ==
    ASSUME NEW n \in Nat, NEW v \in Cell
    PROVE  Cells(n, v) \in Seq(Cell) /\ Len(Cells(n, v)) = n
  BY DEF Cells

(* What strncpy() copies is as long as what it is given.                   *)
LEMMA UpToNulFacts ==
    ASSUME NEW s \in Seq(Byte), Nul \in Byte
    PROVE  UpToNul(s) \in Seq(Byte) /\ Len(UpToNul(s)) = Len(s)
<1>1. DOMAIN s = 1..Len(s) /\ Len(s) \in Nat /\ \A i \in 1..Len(s) : s[i] \in Byte
  OBVIOUS
<1>2. UpToNul(s) \in [1..Len(s) -> Byte]
  BY <1>1 DEF UpToNul
<1>3. QED
  BY <1>1, <1>2

(* The text with s put in after its first i bytes, as the branches that    *)
(* take new memory write it: how long it is and what each byte of it is.   *)
LEMMA SplicedFacts ==
    ASSUME buf \in Seq(Cell), len \in 0..Len(buf),
           NEW i \in 0..len, NEW s \in Seq(Cell)
    PROVE  /\ Spliced(s, i) \in Seq(Cell)
           /\ Len(Spliced(s, i)) = len + Len(s)
           /\ \A j \in 1..i : Spliced(s, i)[j] = buf[j]
           /\ \A j \in (i + 1)..(i + Len(s)) : Spliced(s, i)[j] = s[j - i]
           /\ \A j \in (i + Len(s) + 1)..(len + Len(s)) :
                 Spliced(s, i)[j] = buf[j - Len(s)]
<1> DEFINE a == SubSeq(buf, 1, i)
           b == SubSeq(buf, i + 1, len)
<1>1. \A j \in 1..Len(buf) : buf[j] \in Cell
  OBVIOUS
<1>2. a \in Seq(Cell) /\ Len(a) = i /\ \A j \in 1..i : a[j] = buf[j]
  BY <1>1
<1>3. b \in Seq(Cell) /\ Len(b) = len - i /\ \A j \in 1..(len - i) : b[j] = buf[i + j]
  BY <1>1
<1>4. /\ a \o s \in Seq(Cell)
      /\ Len(a \o s) = i + Len(s)
      /\ \A j \in 1..(i + Len(s)) : (a \o s)[j] = IF j <= i THEN a[j] ELSE s[j - i]
  BY <1>2, ConcatProperties
<1>5. /\ (a \o s) \o b \in Seq(Cell)
      /\ Len((a \o s) \o b) = len + Len(s)
      /\ \A j \in 1..(len + Len(s)) :
            ((a \o s) \o b)[j] = IF j <= i + Len(s) THEN (a \o s)[j] ELSE b[j - (i + Len(s))]
  <2> DEFINE c == a \o s
  <2> HIDE DEF a, b
  <2>0. c \in Seq(Cell) /\ b \in Seq(Cell) /\ Len(c) = i + Len(s) /\ Len(b) = len - i
    BY <1>3, <1>4
  <2> HIDE DEF c
  <2>1. /\ c \in Seq(Cell) /\ b \in Seq(Cell)
        /\ Len(c) = i + Len(s) /\ Len(c) + Len(b) = len + Len(s)
    <3>1. Len(s) \in Nat /\ i \in Int /\ len \in Int
      OBVIOUS
    <3>2. QED
      BY <2>0, <3>1
  <2>2. /\ c \o b \in Seq(Cell)
        /\ Len(c \o b) = Len(c) + Len(b)
        /\ \A j \in 1..(Len(c) + Len(b)) :
              (c \o b)[j] = IF j <= Len(c) THEN c[j] ELSE b[j - Len(c)]
    BY <2>1, ConcatProperties
  <2>3. /\ c \o b \in Seq(Cell)
        /\ Len(c \o b) = len + Len(s)
        /\ \A j \in 1..(len + Len(s)) :
              (c \o b)[j] = IF j <= i + Len(s) THEN c[j] ELSE b[j - (i + Len(s))]
    BY <2>1, <2>2
  <2>4. QED
    BY <2>3 DEF c
<1>6. Spliced(s, i) = (a \o s) \o b
  BY DEF Spliced
<1> HIDE DEF a, b
<1>7. Len(s) \in Nat
  OBVIOUS
<1>8. \A j \in 1..i : Spliced(s, i)[j] = buf[j]
  BY <1>2, <1>4, <1>5, <1>6, <1>7
<1>9. \A j \in (i + 1)..(i + Len(s)) : Spliced(s, i)[j] = s[j - i]
  BY <1>4, <1>5, <1>6, <1>7
<1>10. \A j \in (i + Len(s) + 1)..(len + Len(s)) : Spliced(s, i)[j] = buf[j - Len(s)]
  <2> SUFFICES ASSUME NEW j \in (i + Len(s) + 1)..(len + Len(s))
               PROVE  Spliced(s, i)[j] = buf[j - Len(s)]
    OBVIOUS
  <2>1. j - (i + Len(s)) \in 1..(len - i) /\ i + (j - (i + Len(s))) = j - Len(s)
    BY <1>7
  <2>2. Spliced(s, i)[j] = b[j - (i + Len(s))]
    BY <1>5, <1>6, <1>7
  <2>3. QED
    BY <1>3, <2>1, <2>2
<1>11. QED
  BY <1>5, <1>6, <1>8, <1>9, <1>10

(* The same with fresh cells behind it.                                    *)
LEMMA GrownFacts ==
    ASSUME buf \in Seq(Cell), len \in 0..Len(buf),
           NEW i \in 0..len, NEW s \in Seq(Cell), NEW n \in Nat, NEW v \in Cell
    PROVE  LET new == Spliced(s, i) \o Cells(n, v)
           IN  /\ new \in Seq(Cell)
               /\ Len(new) = len + Len(s) + n
               /\ \A j \in 1..(len + Len(s)) : new[j] = Spliced(s, i)[j]
<1>1. Spliced(s, i) \in Seq(Cell) /\ Len(Spliced(s, i)) = len + Len(s)
  BY SplicedFacts
<1>2. Cells(n, v) \in Seq(Cell) /\ Len(Cells(n, v)) = n
  BY CellsFacts
<1>3. Len(s) \in Nat
  OBVIOUS
<1> DEFINE a == Spliced(s, i)
           b == Cells(n, v)
<1> HIDE DEF a, b
<1>4. a \in Seq(Cell) /\ b \in Seq(Cell) /\ Len(a) = len + Len(s) /\ Len(b) = n
  BY <1>1, <1>2 DEF a, b
<1>5. /\ a \o b \in Seq(Cell)
      /\ Len(a \o b) = Len(a) + Len(b)
      /\ \A j \in 1..(Len(a) + Len(b)) :
            (a \o b)[j] = IF j <= Len(a) THEN a[j] ELSE b[j - Len(a)]
  <2>1. a \in Seq(Cell) /\ b \in Seq(Cell)
    BY <1>4
  <2>2. QED
    BY ONLY <2>1, ConcatProperties
<1>6. \A j \in 1..(len + Len(s)) : (a \o b)[j] = a[j]
  BY <1>3, <1>4, <1>5
<1>7. QED
  BY <1>4, <1>5, <1>6 DEF a, b

(* What an insertion leaves in the memory, in place or in new memory, is   *)
(* the spliced text.                                                       *)
LEMMA InsertAtFacts ==
    ASSUME IInv, NEW s \in Sources, NEW i \in Lengths, InsertAt(s, i)
    PROVE  /\ i \in 0..len /\ len' = len + Len(s) /\ Len(s) \in Nat
           /\ buf' \in Seq(Cell) /\ len' <= Len(buf')
           /\ cap' \in Nat /\ Len(buf') = cap'
           /\ \A j \in 1..(len + Len(s)) : buf'[j] = Spliced(s, i)[j]
<1>1. /\ buf \in Seq(Cell) /\ Len(buf) = cap /\ cap \in Nat /\ len \in 0..cap
      /\ Lengths \subseteq Nat /\ Unset \in Cell /\ Extra \in Nat
      /\ \A j \in 1..cap : buf[j] \in Cell
  BY BufferAssumption DEF IInv, Cell, Lengths
<1>2. i \in 0..len /\ len \in 0..Len(buf) /\ len' = len + Len(s)
  BY <1>1 DEF InsertAt
<1>3. s \in Seq(Cell) /\ Len(s) \in Nat /\ \A j \in 1..Len(s) : s[j] \in Cell
  BY BufferAssumption DEF Cell
<1>4. CASE len + Len(s) > cap
  <2>1. buf' = Spliced(s, i) \o Cells(Extra, Unset)
    BY <1>4 DEF InsertAt
  <2> DEFINE new == Spliced(s, i) \o Cells(Extra, Unset)
  <2>2. /\ new \in Seq(Cell) /\ Len(new) = len + Len(s) + Extra
        /\ \A j \in 1..(len + Len(s)) : new[j] = Spliced(s, i)[j]
    <3>1. /\ buf \in Seq(Cell) /\ len \in 0..Len(buf) /\ i \in 0..len
          /\ s \in Seq(Cell) /\ Extra \in Nat /\ Unset \in Cell
      BY <1>1, <1>2, <1>3
    <3>2. QED
      BY <3>1, GrownFacts
  <2>3. buf' = new /\ cap' = len + Len(s) + Extra
    BY <1>4, <2>1 DEF InsertAt
  <2> HIDE DEF new
  <2>4. QED
    BY <1>1, <1>2, <1>3, <2>2, <2>3
<1>5. CASE ~(len + Len(s) > cap)
  <2>1. buf' = [j \in 1..cap |->
                  CASE j \in (i + 1)..(i + Len(s)) -> s[j - i]
                    [] j \in (i + Len(s) + 1)..(len + Len(s)) -> buf[j - Len(s)]
                    [] OTHER -> buf[j]]
    BY <1>5 DEF InsertAt
  <2>2. cap' = cap
    BY <1>5 DEF InsertAt
  <2>3. \A j \in 1..cap : buf'[j] \in Cell
    BY <1>1, <1>2, <1>3, <1>5, <2>1
  <2>4. buf' \in [1..cap -> Cell]
    BY <2>1, <2>3
  <2>5. /\ \A j \in 1..i : Spliced(s, i)[j] = buf[j]
        /\ \A j \in (i + 1)..(i + Len(s)) : Spliced(s, i)[j] = s[j - i]
        /\ \A j \in (i + Len(s) + 1)..(len + Len(s)) :
              Spliced(s, i)[j] = buf[j - Len(s)]
    BY <1>1, <1>2, <1>3, SplicedFacts
  <2>6. \A j \in 1..(len + Len(s)) : buf'[j] = Spliced(s, i)[j]
    <3> SUFFICES ASSUME NEW j \in 1..(len + Len(s)) PROVE buf'[j] = Spliced(s, i)[j]
      OBVIOUS
    <3>1. j \in 1..cap
      BY <1>1, <1>3, <1>5
    <3>2. CASE j \in 1..i
      BY <1>2, <1>3, <2>1, <2>5, <3>1, <3>2
    <3>3. CASE j \in (i + 1)..(i + Len(s))
      BY <2>1, <2>5, <3>1, <3>3
    <3>4. CASE j \in (i + Len(s) + 1)..(len + Len(s))
      BY <1>2, <1>3, <2>1, <2>5, <3>1, <3>4
    <3>5. QED
      BY <1>1, <1>2, <1>3, <3>2, <3>3, <3>4
  <2>7. QED
    BY <1>1, <1>2, <1>3, <1>5, <2>4, <2>6, <2>2
<1>6. QED
  BY <1>4, <1>5

(* What a shift leaves in the memory, in place or in new memory: the bytes *)
(* before its place, and n places further those after it.                  *)
LEMMA ShiftFromFacts ==
    ASSUME IInv, NEW i \in Lengths, NEW n \in Lengths, ShiftFrom(i, n)
    PROVE  /\ i \in 0..len /\ len' = len + n /\ n \in Nat
           /\ buf' \in Seq(Cell) /\ len' <= Len(buf')
           /\ cap' \in Nat /\ Len(buf') = cap'
           /\ \A j \in 1..i : buf'[j] = buf[j]
           /\ \A j \in (i + n + 1)..(len + n) : buf'[j] = buf[j - n]
<1>1. /\ buf \in Seq(Cell) /\ Len(buf) = cap /\ cap \in Nat /\ len \in 0..cap
      /\ Lengths \subseteq Nat /\ Nul \in Cell /\ Extra \in Nat
      /\ \A j \in 1..cap : buf[j] \in Cell
  BY BufferAssumption DEF IInv, Cell, Lengths
<1>2. i \in 0..len /\ len \in 0..Len(buf) /\ len' = len + n /\ n \in Nat
  BY <1>1 DEF ShiftFrom
<1>3. CASE cap - len < n
  <2> DEFINE c == Cells(n, Nul)
             new == Spliced(c, i) \o Cells(Extra, Nul)
  <2>1. c \in Seq(Cell) /\ Len(c) = n
    BY <1>1, <1>2, CellsFacts
  <2>2. buf' = new /\ cap' = len + n + Extra
    BY <1>3 DEF ShiftFrom
  <2> HIDE DEF c
  <2>3. /\ \A j \in 1..i : Spliced(c, i)[j] = buf[j]
        /\ \A j \in (i + n + 1)..(len + n) : Spliced(c, i)[j] = buf[j - n]
    BY <1>1, <1>2, <2>1, SplicedFacts
  <2>4. /\ new \in Seq(Cell) /\ Len(new) = len + n + Extra
        /\ \A j \in 1..(len + n) : new[j] = Spliced(c, i)[j]
    <3>1. /\ new \in Seq(Cell) /\ Len(new) = len + Len(c) + Extra
          /\ \A j \in 1..(len + Len(c)) : new[j] = Spliced(c, i)[j]
      <4>1. /\ buf \in Seq(Cell) /\ len \in 0..Len(buf) /\ i \in 0..len
            /\ c \in Seq(Cell) /\ Extra \in Nat /\ Nul \in Cell
        BY <1>1, <1>2, <2>1
      <4>2. QED
        BY <4>1, GrownFacts
    <3>2. QED
      BY <2>1, <3>1
  <2> HIDE DEF new
  <2>5. QED
    BY <1>1, <1>2, <2>2, <2>3, <2>4
<1>4. CASE ~(cap - len < n)
  <2>1. buf' = [j \in 1..cap |->
                  IF j \in (i + n + 1)..(len + n) THEN buf[j - n] ELSE buf[j]]
    BY <1>4 DEF ShiftFrom
  <2>2. cap' = cap
    BY <1>4 DEF ShiftFrom
  <2>3. \A j \in 1..cap : buf'[j] \in Cell
    BY <1>1, <1>2, <1>4, <2>1
  <2>4. buf' \in [1..cap -> Cell]
    BY <2>1, <2>3
  <2>5. QED
    BY <1>1, <1>2, <1>4, <2>1, <2>4, <2>2
<1>5. QED
  BY <1>3, <1>4

-----------------------------------------------------------------------------
(* The text stays in the memory.  (c_utils_buffer.c, every call.)          *)
THEOREM Invariance == Spec => []IInv
<1>1. Init => IInv
  <2>1. ASSUME NEW n \in 0..MaxLen, Empty(n) PROVE IInv
    <3>1. n \in Nat
      BY BufferAssumption
    <3>2. buf \in Seq(Cell) /\ Len(buf) = n
      BY <2>1, <3>1, CellsFacts DEF Empty, Cell
    <3>3. QED
      BY <2>1, <3>1, <3>2 DEF Empty, IInv
  <2>2. ASSUME NEW s \in Sources, New(s) PROVE IInv
    <3>1. s \in Seq(Byte) /\ Extra \in Nat /\ Len(s) \in Nat /\ Unset \in Cell
      BY BufferAssumption DEF Cell
    <3>2. UpToNul(s) \in Seq(Cell) /\ Len(UpToNul(s)) = Len(s)
      BY <3>1, UpToNulFacts, BufferAssumption DEF Cell
    <3>3. Cells(Extra, Unset) \in Seq(Cell) /\ Len(Cells(Extra, Unset)) = Extra
      BY <3>1, CellsFacts
    <3>4. buf \in Seq(Cell) /\ Len(buf) = Len(s) + Extra
      <4> DEFINE a == UpToNul(s)
                 b == Cells(Extra, Unset)
      <4>1. a \in Seq(Cell) /\ b \in Seq(Cell) /\ buf = a \o b
        BY <2>2, <3>2, <3>3 DEF New
      <4> HIDE DEF a, b
      <4>2. buf \in Seq(Cell) /\ Len(buf) = Len(a) + Len(b)
        BY <4>1, ConcatProperties
      <4>3. QED
        BY <3>2, <3>3, <4>2 DEF a, b
    <3>5. QED
      BY <2>2, <3>1, <3>4 DEF New, IInv
  <2>3. QED
    BY <2>1, <2>2 DEF Init
<1>2. IInv /\ [Next]_vars => IInv'
  <2> SUFFICES ASSUME IInv, [Next]_vars PROVE IInv'
    OBVIOUS
  <2> USE BufferAssumption
  <2>0. /\ buf \in Seq(Cell) /\ Len(buf) = cap /\ cap \in Nat /\ len \in 0..cap
        /\ Lengths \subseteq Nat
        /\ Nul \in Cell /\ Unset \in Cell
        /\ \A j \in 1..cap : buf[j] \in Cell
    BY DEF IInv, Cell, Lengths
  <2>1. ASSUME NEW s \in Sources, NEW i \in Lengths, InsertAt(s, i) PROVE IInv'
    <3>1. /\ len' \in Nat /\ buf' \in Seq(Cell) /\ cap' \in Nat
          /\ Len(buf') = cap' /\ len' <= cap'
      BY <2>0, <2>1, InsertAtFacts
    <3>2. QED
      BY <2>1, <3>1 DEF InsertAt, IInv
  <2>2. ASSUME NEW i \in Lengths, NEW n \in Lengths, ShiftFrom(i, n) PROVE IInv'
    <3>1. /\ len' \in Nat /\ buf' \in Seq(Cell) /\ cap' \in Nat
          /\ Len(buf') = cap' /\ len' <= cap'
      BY <2>0, <2>2, ShiftFromFacts
    <3>2. QED
      BY <2>2, <3>1 DEF ShiftFrom, IInv
  <2>3. ASSUME NEW n \in Lengths, SetLen(n) PROVE IInv'
    BY <2>0, <2>3 DEF SetLen, IInv
  <2>4. ASSUME NEW n \in Lengths, SetCapacity(n) PROVE IInv'
    BY <2>4 DEF SetCapacity, IInv
  <2>5. ASSUME NEW s \in Sources, Receive(s) PROVE IInv'
    <3>1. s \in Seq(Cell) /\ Len(s) \in 0..cap
      BY <2>0, <2>5 DEF Receive, Cell
    <3>2. /\ SubSeq(buf, Len(s) + 1, cap) \in Seq(Cell)
          /\ Len(SubSeq(buf, Len(s) + 1, cap)) = cap - Len(s)
      BY <2>0, <3>1
    <3>3. buf' \in Seq(Cell) /\ Len(buf') = cap
      BY <2>0, <2>5, <3>1, <3>2, ConcatProperties DEF Receive
    <3>4. QED
      BY <2>0, <2>5, <3>1, <3>3 DEF Receive, IInv
  <2>6. CASE UNCHANGED vars
    BY <2>6 DEF vars, IInv
  <2>7. QED
    BY <2>1, <2>2, <2>3, <2>4, <2>5, <2>6 DEF Next
<1>3. QED
  BY <1>1, <1>2, PTL DEF Spec

-----------------------------------------------------------------------------
(* The text before and after a place is the memory before and after it.    *)
LEMMA TextFacts ==
    ASSUME buf \in Seq(Cell), len \in 0..Len(buf), NEW i \in 0..len
    PROVE  /\ Text \in Seq(Cell) /\ Len(Text) = len
           /\ \A j \in 1..len : Text[j] = buf[j]
           /\ SubSeq(Text, 1, i) = SubSeq(buf, 1, i)
           /\ SubSeq(Text, i + 1, Len(Text)) = SubSeq(buf, i + 1, len)
<1>1. \A j \in 1..Len(buf) : buf[j] \in Cell
  OBVIOUS
<1>2. Text \in Seq(Cell) /\ Len(Text) = len /\ \A j \in 1..len : Text[j] = buf[j]
  BY <1>1 DEF Text
<1>3. \A j \in 1..len : Text[j] \in Cell
  BY <1>2
<1>4. SubSeq(Text, 1, i) = SubSeq(buf, 1, i)
  <2>1. /\ SubSeq(Text, 1, i) \in Seq(Cell) /\ Len(SubSeq(Text, 1, i)) = i
        /\ \A j \in 1..i : SubSeq(Text, 1, i)[j] = Text[j]
    BY <1>3
  <2>2. /\ SubSeq(buf, 1, i) \in Seq(Cell) /\ Len(SubSeq(buf, 1, i)) = i
        /\ \A j \in 1..i : SubSeq(buf, 1, i)[j] = buf[j]
    BY <1>1
  <2>3. QED
    BY <1>2, <2>1, <2>2, SeqEqual
<1>5. SubSeq(Text, i + 1, len) = SubSeq(buf, i + 1, len)
  <2>1. /\ SubSeq(Text, i + 1, len) \in Seq(Cell)
        /\ Len(SubSeq(Text, i + 1, len)) = len - i
        /\ \A j \in 1..(len - i) : SubSeq(Text, i + 1, len)[j] = Text[i + j]
    BY <1>3
  <2>2. /\ SubSeq(buf, i + 1, len) \in Seq(Cell)
        /\ Len(SubSeq(buf, i + 1, len)) = len - i
        /\ \A j \in 1..(len - i) : SubSeq(buf, i + 1, len)[j] = buf[i + j]
    BY <1>1
  <2>3. \A j \in 1..(len - i) : Text[i + j] = buf[i + j]
    BY <1>2
  <2>4. QED
    BY <2>1, <2>2, <2>3, SeqEqual
<1>6. QED
  BY <1>2, <1>4, <1>5

(* An insertion puts its string in at its place and keeps the other bytes  *)
(* in order.  (c_u_buffer_insert_at, c_u_buffer_append.)                   *)
THEOREM InsertionInserts == Spec => InsertInserts
<1>1. ASSUME IInv, NEW s \in Sources, NEW i \in Lengths, InsertAt(s, i)
      PROVE  Text' = SubSeq(Text, 1, i) \o s \o SubSeq(Text, i + 1, Len(Text))
  <2>1. /\ i \in 0..len /\ len' = len + Len(s) /\ Len(s) \in Nat
        /\ buf' \in Seq(Cell) /\ len' <= Len(buf')
        /\ \A j \in 1..(len + Len(s)) : buf'[j] = Spliced(s, i)[j]
    BY <1>1, InsertAtFacts
  <2>2. buf \in Seq(Cell) /\ len \in 0..Len(buf) /\ s \in Seq(Cell)
    BY <1>1, BufferAssumption DEF IInv, Cell
  <2>3. /\ SubSeq(Text, 1, i) = SubSeq(buf, 1, i)
        /\ SubSeq(Text, i + 1, Len(Text)) = SubSeq(buf, i + 1, len)
    BY <2>1, <2>2, TextFacts
  <2>4. Spliced(s, i) \in Seq(Cell) /\ Len(Spliced(s, i)) = len + Len(s)
    BY <2>1, <2>2, SplicedFacts
  <2>5. /\ Text' \in Seq(Cell) /\ Len(Text') = len + Len(s)
        /\ \A j \in 1..(len + Len(s)) : Text'[j] = buf'[j]
    <3>1. \A j \in 1..Len(buf') : buf'[j] \in Cell
      BY <2>1
    <3>2. Text' = SubSeq(buf', 1, len + Len(s))
      BY <2>1 DEF Text
    <3>3. QED
      BY <2>1, <2>2, <3>1, <3>2
  <2>6. Text' = Spliced(s, i)
    BY <2>1, <2>4, <2>5, SeqEqual
  <2>7. QED
    BY <2>3, <2>6 DEF Spliced
<1>2. IInv /\ [Next]_vars =>
        [\A s \in Sources, i \in Lengths :
            InsertAt(s, i) =>
              Text' = SubSeq(Text, 1, i) \o s \o SubSeq(Text, i + 1, Len(Text))]_vars
  BY <1>1
<1>3. QED
  BY <1>2, Invariance, PTL DEF Spec, InsertInserts

(* A shift keeps the bytes before its place and moves the others by n.     *)
(* (c_u_buffer_shift_from.)                                                *)
THEOREM ShiftingShifts == Spec => ShiftShifts
<1>1. ASSUME IInv, NEW i \in Lengths, NEW n \in Lengths, ShiftFrom(i, n)
      PROVE  /\ SubSeq(Text', 1, i) = SubSeq(Text, 1, i)
             /\ SubSeq(Text', i + n + 1, Len(Text')) = SubSeq(Text, i + 1, Len(Text))
  <2>1. /\ i \in 0..len /\ len' = len + n /\ n \in Nat
        /\ buf' \in Seq(Cell) /\ len' <= Len(buf')
        /\ \A j \in 1..i : buf'[j] = buf[j]
        /\ \A j \in (i + n + 1)..(len + n) : buf'[j] = buf[j - n]
    BY <1>1, ShiftFromFacts
  <2>2. buf \in Seq(Cell) /\ len \in 0..Len(buf)
    BY <1>1 DEF IInv
  <2>3. /\ Text \in Seq(Cell) /\ Len(Text) = len
        /\ \A j \in 1..len : Text[j] = buf[j] /\ Text[j] \in Cell
    BY <2>1, <2>2, TextFacts
  <2>4. /\ Text' \in Seq(Cell) /\ Len(Text') = len + n
        /\ \A j \in 1..(len + n) : Text'[j] = buf'[j] /\ Text'[j] \in Cell
    <3>1. \A j \in 1..Len(buf') : buf'[j] \in Cell
      BY <2>1
    <3>2. Text' = SubSeq(buf', 1, len + n)
      BY <2>1 DEF Text
    <3>3. QED
      BY <2>1, <2>2, <3>1, <3>2
  <2>5. SubSeq(Text', 1, i) = SubSeq(Text, 1, i)
    <3>1. /\ SubSeq(Text, 1, i) \in Seq(Cell) /\ Len(SubSeq(Text, 1, i)) = i
          /\ \A j \in 1..i : SubSeq(Text, 1, i)[j] = Text[j]
      BY <2>1, <2>2, <2>3
    <3>2. /\ SubSeq(Text', 1, i) \in Seq(Cell) /\ Len(SubSeq(Text', 1, i)) = i
          /\ \A j \in 1..i : SubSeq(Text', 1, i)[j] = Text'[j]
      BY <2>1, <2>2, <2>4
    <3>3. \A j \in 1..i : Text'[j] = Text[j]
      BY <2>1, <2>2, <2>3, <2>4
    <3>4. QED
      BY <3>1, <3>2, <3>3, SeqEqual
  <2>6. SubSeq(Text', i + n + 1, len + n) = SubSeq(Text, i + 1, len)
    <3>1. /\ SubSeq(Text, i + 1, len) \in Seq(Cell)
          /\ Len(SubSeq(Text, i + 1, len)) = len - i
          /\ \A j \in 1..(len - i) : SubSeq(Text, i + 1, len)[j] = Text[i + j]
      BY <2>1, <2>2, <2>3
    <3>2. /\ SubSeq(Text', i + n + 1, len + n) \in Seq(Cell)
          /\ Len(SubSeq(Text', i + n + 1, len + n)) = len - i
          /\ \A j \in 1..(len - i) :
                SubSeq(Text', i + n + 1, len + n)[j] = Text'[i + n + j]
      <4> DEFINE t == Text'
                 p == i + n + 1
                 q == len + n
      <4>1. \A j \in 1..q : t[j] \in Cell
        BY <2>4
      <4>2. /\ p \in Int /\ q \in Int /\ p >= 1
            /\ q - p + 1 = len - i /\ p <= q + 1
        BY <2>1, <2>2
      <4>3. \A j \in 1..(len - i) : p + j - 1 = i + n + j
        BY <2>1, <2>2
      <4> HIDE DEF t, p, q
      <4>4. /\ SubSeq(t, p, q) \in Seq(Cell)
            /\ Len(SubSeq(t, p, q)) = IF p <= q THEN q - p + 1 ELSE 0
            /\ \A j \in 1..(q - p + 1) : SubSeq(t, p, q)[j] = t[p + j - 1]
        <5>1. \A j \in p..q : t[j] \in Cell
          BY <4>1, <4>2
        <5>2. QED
          BY <4>2, <5>1, SubSeqProperties
      <4>5. /\ SubSeq(t, p, q) \in Seq(Cell)
            /\ Len(SubSeq(t, p, q)) = len - i
            /\ \A j \in 1..(len - i) : SubSeq(t, p, q)[j] = t[i + n + j]
        BY <4>2, <4>3, <4>4
      <4>6. QED
        BY <4>5 DEF t, p, q
    <3>3. \A j \in 1..(len - i) : Text'[i + n + j] = Text[i + j]
      <4> SUFFICES ASSUME NEW j \in 1..(len - i) PROVE Text'[i + n + j] = Text[i + j]
        OBVIOUS
      <4>1. i + n + j \in (i + n + 1)..(len + n) /\ (i + n + j) - n = i + j
        BY <2>1, <2>2
      <4>2. buf'[i + n + j] = buf[i + j]
        BY <2>1, <4>1
      <4>3. QED
        BY <2>1, <2>2, <2>3, <2>4, <4>1, <4>2
    <3>4. QED
      BY <3>1, <3>2, <3>3, SeqEqual
  <2>7. QED
    BY <2>3, <2>4, <2>5, <2>6
<1>2. IInv /\ [Next]_vars =>
        [\A i, n \in Lengths :
            ShiftFrom(i, n) =>
              /\ SubSeq(Text', 1, i) = SubSeq(Text, 1, i)
              /\ SubSeq(Text', i + n + 1, Len(Text')) = SubSeq(Text, i + 1, Len(Text))]_vars
  BY <1>1
<1>3. QED
  BY <1>2, Invariance, PTL DEF Spec, ShiftShifts

=============================================================================
