--------------------------- MODULE HttpRelayProofs ---------------------------
(***************************************************************************)
(* What holds of HttpRelay between peers that keep to HTTP (Orderly), for  *)
(* every number of messages, every length of header, body, buffer and      *)
(* chunk, and every way the bytes come.                                    *)
(*                                                                         *)
(* The streams are made by a recursive function of the library, so there   *)
(* is first what it makes of one message more, by least counterexample;    *)
(* then where the units of a message are in its stream (AtMessage); then   *)
(* one lemma per action, of which the reads share Receives, and the writes *)
(* Writing and PassOn.  The last part is about the functions that read a   *)
(* header: where a value begins and ends, and which number its digits make.*)
(***************************************************************************)
EXTENDS HttpRelay, SequenceTheorems, FiniteSetTheorems, WellFoundedInduction, TLAPS

(* A set of numbers has a least one.                                       *)
LEMMA LeastNumber ==
    ASSUME NEW S \in SUBSET Nat, S # {}
    PROVE  \E m \in S : \A n \in S : m <= n
<1>1. PICK N \in S : TRUE
  OBVIOUS
<1> DEFINE T == {1..n : n \in {k \in S : k <= N}}
           Sub == StrictSubsetOrdering(1..N)
<1>2. IsFiniteSet(1..N)
  BY <1>1, FS_Interval
<1>3. T \subseteq SUBSET (1..N) /\ 1..N \in T
  BY <1>1
<1> HIDE DEF T, Sub
<1>4. IsWellFoundedOn(Sub, SUBSET (1..N))
  <2>1. FiniteSubsetsOf(1..N) = SUBSET (1..N)
    BY <1>2, FS_FiniteSubsetsOfFinite
  <2>2. IsWellFoundedOn(StrictSubsetOrdering(1..N), FiniteSubsetsOf(1..N))
    BY FS_StrictSubsetOrderingWellFounded
  <2>3. QED
    BY <2>1, <2>2, Zenon DEF Sub
<1>5. PICK A \in T : \A B \in T : ~(<<B, A>> \in Sub)
  BY <1>3, <1>4, WFMin
<1>6. PICK m \in S : m <= N /\ A = 1..m
  BY DEF T
<1>7. ASSUME NEW n \in S, n < m
      PROVE  FALSE
  <2>1. 1..n \in T
    BY <1>1, <1>6, <1>7 DEF T
  <2>2. 1..n \subseteq 1..m /\ 1..n # 1..m
    BY <1>7
  <2>3. <<1..n, 1..m>> \in Sub
    BY <1>3, <1>6, <2>1, <2>2 DEF Sub, StrictSubsetOrdering
  <2>4. QED
    BY <1>5, <1>6, <2>1, <2>3
<1>8. QED
  BY <1>7

-----------------------------------------------------------------------------
(* The function by which FlattenSeq joins the elements of s, one after the *)
(* other: there is one, ...                                                *)
Joins(s, f) ==
    f = [i \in 1..Len(s) |-> IF i = 1 THEN s[i] ELSE f[i - 1] \o s[i]]

LEMMA JoinsExists ==
    ASSUME NEW s, Len(s) \in Nat
    PROVE  \E f : Joins(s, f)
<1> DEFINE Joined(n) == \E f : f = [i \in 1..n |-> IF i = 1 THEN s[i] ELSE f[i - 1] \o s[i]]
           Open == {n \in 0..Len(s) : ~Joined(n)}
<1>1. CASE Open = {}
  <2>1. Len(s) \in 0..Len(s)
    OBVIOUS
  <2>2. Joined(Len(s))
    BY <1>1, <2>1
  <2>3. QED
    BY <2>2 DEF Joins
<1>2. CASE Open # {}
  <2>1. Open \in SUBSET Nat
    <3> HIDE DEF Joined
    <3>1. QED
      OBVIOUS
  <2> HIDE DEF Open
  <2>2. PICK m \in Open : \A n \in Open : m <= n
    BY <1>2, <2>1, LeastNumber
  <2>3. m \in 0..Len(s) /\ ~Joined(m)
    BY DEF Open
  <2>4. CASE m = 0
    <3> DEFINE g == [i \in 1..m |-> s[i]]
    <3>1. g = [i \in 1..m |-> IF i = 1 THEN s[i] ELSE g[i - 1] \o s[i]]
      BY <2>4
    <3>2. QED
      BY <2>3, <3>1
  <2>5. CASE m # 0
    <3>1. m - 1 \in 0..Len(s) /\ ~(m <= m - 1)
      BY <2>3, <2>5
    <3>2. m - 1 \notin Open
      BY <2>2, <3>1
    <3>3. Joined(m - 1)
      BY <3>1, <3>2 DEF Open
    <3>4. PICK f : f = [i \in 1..(m - 1) |-> IF i = 1 THEN s[i] ELSE f[i - 1] \o s[i]]
      BY <3>3
    <3> DEFINE g == [i \in 1..m |-> IF i = m THEN (IF m = 1 THEN s[m] ELSE f[m - 1] \o s[m])
                                    ELSE f[i]]
    <3>5. ASSUME NEW i \in 1..m
          PROVE  g[i] = IF i = 1 THEN s[i] ELSE g[i - 1] \o s[i]
      <4>1. CASE i = m
        BY <2>3, <2>5, <4>1
      <4>2. CASE i # m
        <5>1. i \in 1..(m - 1) /\ (i # 1 => i - 1 \in 1..(m - 1))
          BY <2>3, <4>2
        <5>2. g[i] = f[i] /\ (i # 1 => g[i - 1] = f[i - 1])
          BY <2>3, <4>2, <5>1
        <5>3. f[i] = IF i = 1 THEN s[i] ELSE f[i - 1] \o s[i]
          BY <3>4, <5>1
        <5>4. QED
          BY <5>2, <5>3
      <4>3. QED
        BY <4>1, <4>2
    <3>6. g = [i \in 1..m |-> IF i = 1 THEN s[i] ELSE g[i - 1] \o s[i]]
      BY <3>5
    <3>7. QED
      BY <2>3, <3>6
  <2>6. QED
    BY <2>4, <2>5
<1>3. QED
  BY <1>1, <1>2

(* ... and it joins the first elements of a longer sequence alike.         *)
LEMMA JoinsAlike ==
    ASSUME NEW s, NEW t, NEW f, NEW g, Len(s) \in Nat, Len(t) \in Nat, Len(t) <= Len(s),
           \A i \in 1..Len(t) : t[i] = s[i], Joins(s, f), Joins(t, g)
    PROVE  \A i \in 1..Len(t) : g[i] = f[i]
<1> DEFINE Unlike == {i \in 1..Len(t) : g[i] # f[i]}
<1>1. SUFFICES ASSUME Unlike # {} PROVE FALSE
  OBVIOUS
<1>2. Unlike \in SUBSET Nat
  OBVIOUS
<1> HIDE DEF Unlike
<1>3. PICK m \in Unlike : \A n \in Unlike : m <= n
  BY <1>1, <1>2, LeastNumber
<1>4. m \in 1..Len(t) /\ m \in 1..Len(s) /\ g[m] # f[m]
  BY DEF Unlike
<1>5. g[m] = IF m = 1 THEN t[m] ELSE g[m - 1] \o t[m]
  BY <1>4 DEF Joins
<1>6. f[m] = IF m = 1 THEN s[m] ELSE f[m - 1] \o s[m]
  BY <1>4 DEF Joins
<1>7. m # 1 => g[m - 1] = f[m - 1]
  <2> SUFFICES ASSUME m # 1 PROVE g[m - 1] = f[m - 1]
    OBVIOUS
  <2>1. m - 1 \in 1..Len(t) /\ ~(m <= m - 1)
    BY <1>4
  <2>2. QED
    BY <1>3, <2>1 DEF Unlike
<1>8. QED
  BY <1>4, <1>5, <1>6, <1>7

LEMMA JoinsAt ==
    ASSUME NEW s, NEW f, Joins(s, f), NEW i \in 1..Len(s)
    PROVE  /\ i = 1 => f[i] = s[i]
           /\ i # 1 => f[i] = f[i - 1] \o s[i]
BY DEF Joins

(* One element more is joined at the end.                                  *)
LEMMA FlattenMore ==
    ASSUME NEW k \in Nat, NEW n \in Nat, n = k + 1,
           NEW s, NEW t, Len(t) = k, Len(s) = n,
           \A i \in 1..k : t[i] = s[i]
    PROVE  /\ k = 0 => FlattenSeq(s) = s[n]
           /\ k # 0 => FlattenSeq(s) = FlattenSeq(t) \o s[n]
<1>1. PICK f : Joins(s, f)
  BY JoinsExists
<1>2. PICK g : Joins(t, g)
  BY JoinsExists
<1> DEFINE F == CHOOSE h : h = [i \in 1..Len(s) |-> IF i = 1 THEN s[i] ELSE h[i - 1] \o s[i]]
           G == CHOOSE h : h = [i \in 1..Len(t) |-> IF i = 1 THEN t[i] ELSE h[i - 1] \o t[i]]
<1>3. FlattenSeq(s) = F[n]
  BY DEF FlattenSeq
<1>4. k # 0 => FlattenSeq(t) = G[k]
  BY DEF FlattenSeq
<1>5. Joins(s, F) /\ Joins(t, G)
  BY <1>1, <1>2 DEF Joins
<1> HIDE DEF F, G
<1>6. n \in 1..Len(s) /\ n - 1 = k /\ (n = 1 <=> k = 0)
  OBVIOUS
<1>7. /\ n = 1 => F[n] = s[n]
      /\ n # 1 => F[n] = F[n - 1] \o s[n]
  BY ONLY <1>5, <1>6, JoinsAt
<1>8. k # 0 => G[k] = F[k]
  BY <1>5, JoinsAlike
<1>9. QED
  BY ONLY <1>3, <1>4, <1>6, <1>7, <1>8, Zenon

-----------------------------------------------------------------------------
(* All of a direction up to message k.                                     *)
Upto(d, k) == FlattenSeq([j \in 1..k |-> Msg(d, j)])

Unit == Nat \X Nat

LEMMA MsgFacts ==
    ASSUME NEW d \in Directions, NEW k \in 1..Messages
    PROVE  /\ Msg(d, k) \in Seq(Unit)
           /\ HeadLen + Body[d][k] \in Nat
           /\ Len(Msg(d, k)) = HeadLen + Body[d][k]
           /\ \A i \in 1..(HeadLen + Body[d][k]) : Msg(d, k)[i] = <<k, i>>
<1>1. HeadLen + Body[d][k] \in Nat /\ k \in Nat
  BY RelayAssumption
<1> DEFINE n == HeadLen + Body[d][k]
<1>2. Msg(d, k) = [i \in 1..n |-> <<k, i>>]
  BY DEF Msg
<1> HIDE DEF n
<1>3. n \in Nat /\ \A i \in 1..n : <<k, i>> \in Unit
  BY <1>1 DEF Unit, n
<1>4. Msg(d, k) \in Seq(Unit) /\ Len(Msg(d, k)) = n /\ \A i \in 1..n : Msg(d, k)[i] = <<k, i>>
  BY <1>2, <1>3
<1>5. QED
  BY <1>3, <1>4 DEF n

LEMMA UptoNone == ASSUME NEW d PROVE Upto(d, 0) = <<>>
<1> DEFINE s == [j \in 1..0 |-> Msg(d, j)]
<1>1. s = <<>>
  OBVIOUS
<1>2. Len(s) = 0
  BY <1>1
<1> HIDE DEF s
<1>3. FlattenSeq(s) = s
  BY <1>2 DEF FlattenSeq
<1>4. QED
  BY <1>1, <1>3 DEF Upto, s

LEMMA UptoMore ==
    ASSUME NEW d \in Directions, NEW k \in Nat, NEW n \in 1..Messages, n = k + 1,
           Upto(d, k) \in Seq(Unit)
    PROVE  Upto(d, n) = Upto(d, k) \o Msg(d, n)
<1> DEFINE s == [j \in 1..n |-> Msg(d, j)]
           t == [j \in 1..k |-> Msg(d, j)]
<1>1. /\ n \in Nat /\ Len(t) = k /\ Len(s) = n /\ s[n] = Msg(d, n)
      /\ \A i \in 1..k : t[i] = s[i]
  OBVIOUS
<1>2. Upto(d, n) = FlattenSeq(s) /\ Upto(d, k) = FlattenSeq(t)
  BY DEF Upto
<1> HIDE DEF s, t
<1>3. /\ k = 0 => FlattenSeq(s) = s[n]
      /\ k # 0 => FlattenSeq(s) = FlattenSeq(t) \o s[n]
  BY ONLY <1>1, n = k + 1, k \in Nat, FlattenMore, SMTT(30)
<1>4. CASE k = 0
  <2>1. Upto(d, k) = <<>>
    BY <1>4, UptoNone
  <2>2. Msg(d, n) \in Seq(Unit)
    BY MsgFacts
  <2>3. QED
    BY <1>1, <1>2, <1>3, <1>4, <2>1, <2>2
<1>5. CASE k # 0
  BY <1>1, <1>2, <1>3, <1>5
<1>6. QED
  BY <1>4, <1>5

LEMMA UptoTyped ==
    ASSUME NEW d \in Directions, NEW k \in 0..Messages
    PROVE  Upto(d, k) \in Seq(Unit)
<1> DEFINE Untyped == {n \in 0..Messages : Upto(d, n) \notin Seq(Unit)}
<1>1. SUFFICES ASSUME Untyped # {} PROVE FALSE
  OBVIOUS
<1>2. Untyped \in SUBSET Nat
  OBVIOUS
<1> HIDE DEF Untyped
<1>3. PICK m \in Untyped : \A n \in Untyped : m <= n
  BY <1>1, <1>2, LeastNumber
<1>4. m \in 0..Messages /\ Upto(d, m) \notin Seq(Unit)
  BY DEF Untyped
<1>5. m # 0
  <2>1. Upto(d, 0) = <<>> /\ <<>> \in Seq(Unit)
    BY UptoNone
  <2>2. QED
    BY <1>4, <2>1
<1>6. m - 1 \in Nat /\ m \in 1..Messages /\ m = (m - 1) + 1 /\ m - 1 \in 0..Messages
  BY <1>4, <1>5, RelayAssumption
<1>7. Upto(d, m - 1) \in Seq(Unit)
  BY <1>3, <1>6 DEF Untyped
<1>8. Upto(d, m) = Upto(d, m - 1) \o Msg(d, m)
  BY <1>6, <1>7, UptoMore
<1>9. Msg(d, m) \in Seq(Unit)
  BY <1>6, MsgFacts
<1>10. QED
  BY <1>4, <1>7, <1>8, <1>9

(* Where the units of a message are in its stream.                         *)
LEMMA StreamFacts ==
    ASSUME NEW d \in Directions, NEW k \in 0..Messages, NEW n \in 1..Messages, n = k + 1
    PROVE  /\ LengthTo(d, k) \in Nat /\ LengthTo(d, n) \in Nat
           /\ LengthTo(d, n) = LengthTo(d, k) + HeadLen + Body[d][n]
           /\ \A i \in 1..LengthTo(d, k) : Upto(d, n)[i] = Upto(d, k)[i]
           /\ \A i \in 1..(HeadLen + Body[d][n]) : Upto(d, n)[LengthTo(d, k) + i] = <<n, i>>
<1> DEFINE a == Upto(d, k)
           b == Msg(d, n)
<1>1. a \in Seq(Unit) /\ b \in Seq(Unit) /\ Upto(d, n) = a \o b
  <2>1. Upto(d, k) \in Seq(Unit)
    BY UptoTyped
  <2>2. b \in Seq(Unit)
    BY MsgFacts
  <2>3. k \in Nat
    OBVIOUS
  <2>4. Upto(d, n) = Upto(d, k) \o Msg(d, n)
    BY <2>1, <2>3, UptoMore
  <2>5. QED
    BY <2>1, <2>2, <2>4
<1>2. Len(b) = HeadLen + Body[d][n] /\ \A i \in 1..(HeadLen + Body[d][n]) : b[i] = <<n, i>>
  BY MsgFacts
<1>3. LengthTo(d, k) = Len(a) /\ LengthTo(d, n) = Len(Upto(d, n))
  BY DEF LengthTo, Upto
<1> HIDE DEF a, b
<1>4. /\ Len(a) \in Nat /\ Len(b) \in Nat /\ Len(a \o b) = Len(a) + Len(b)
      /\ \A i \in 1..Len(a) : (a \o b)[i] = a[i]
      /\ \A i \in 1..Len(b) : (a \o b)[Len(a) + i] = b[i]
  BY <1>1
<1>5. HeadLen \in Nat /\ Body[d][n] \in Nat
  BY RelayAssumption
<1>6. LengthTo(d, n) = LengthTo(d, k) + HeadLen + Body[d][n]
  <2>1. PICK t, m, l, c : /\ t = LengthTo(d, k) /\ m = LengthTo(d, n)
                          /\ l = Len(b) /\ c = Body[d][n]
    OBVIOUS
  <2>2. t = Len(a) /\ m = Len(a \o b) /\ l = HeadLen + c
    BY <1>1, <1>2, <1>3, <2>1
  <2>3. t \in Nat /\ m = t + l /\ HeadLen \in Nat /\ c \in Nat
    BY <1>4, <1>5, <2>1, <2>2
  <2>4. m = t + HeadLen + c
    BY ONLY <2>2, <2>3
  <2>5. QED
    BY <2>1, <2>4
<1>7. \A i \in 1..LengthTo(d, k) : Upto(d, n)[i] = Upto(d, k)[i]
  BY <1>1, <1>3, <1>4 DEF a
<1>8. \A i \in 1..(HeadLen + Body[d][n]) : Upto(d, n)[LengthTo(d, k) + i] = <<n, i>>
  BY <1>1, <1>2, <1>3, <1>4
<1>9. QED
  BY <1>1, <1>3, <1>4, <1>6, <1>7, <1>8

-----------------------------------------------------------------------------
LEMMA Sides ==
    ASSUME NEW d \in Directions
    PROVE  Other(d) \in Directions /\ Other(d) # d /\ Other(Other(d)) = d
BY DEF Directions, Other

(* What the peers have sent, in the exchange the relay is at.              *)
LEMMA Exchange ==
    ASSUME TypeOK, TurnInv
    PROVE  /\ dir \in Directions /\ Turn \in 0..Messages
           /\ given[dir] \in {Turn, Turn + 1}
           /\ given[Other(dir)] = IF dir = "req" THEN Turn ELSE Turn + 1
           /\ \A d \in Directions : /\ given[d] \in 0..Messages
                                    /\ Stream(d) = Upto(d, given[d])
                                    /\ Stream(d) \in Seq(Unit)
                                    /\ Len(Stream(d)) = LengthTo(d, given[d])
                                    /\ LengthTo(d, given[d]) \in Nat
                                    /\ LengthTo(d, Turn) \in Nat
<1>1. /\ dir \in Directions /\ \A d \in Directions : given[d] \in 0..Messages
      /\ given[dir] \in {Turn, Turn + 1} /\ Turn \in Nat
  BY DEF TypeOK, TurnInv
<1>2. Turn \in 0..Messages
  BY <1>1, RelayAssumption DEF Turn, Directions
<1>3. given[Other(dir)] = IF dir = "req" THEN Turn ELSE Turn + 1
  BY <1>1 DEF Turn, Directions, Other
<1>4. ASSUME NEW d \in Directions, NEW k \in 0..Messages
      PROVE  Upto(d, k) \in Seq(Unit) /\ LengthTo(d, k) = Len(Upto(d, k)) /\ LengthTo(d, k) \in Nat
  BY UptoTyped DEF LengthTo, Upto
<1>5. \A d \in Directions : Stream(d) = Upto(d, given[d])
  BY DEF Stream, Upto
<1>6. QED
  BY <1>1, <1>2, <1>3, <1>4, <1>5

(* ... and, when its message has been sent, where it is in the stream.     *)
LEMMA AtMessage ==
    ASSUME TypeOK, TurnInv, given[dir] = Turn + 1
    PROVE  /\ Turn + 1 \in 1..Messages
           /\ Body[dir][Turn + 1] \in Nat
           /\ Len(Stream(dir)) = LengthTo(dir, Turn) + HeadLen + Body[dir][Turn + 1]
           /\ \A i \in 1..(HeadLen + Body[dir][Turn + 1]) :
                 Stream(dir)[LengthTo(dir, Turn) + i] = <<Turn + 1, i>>
<1>1. PICK n : n = Turn + 1
  OBVIOUS
<1>2. /\ dir \in Directions /\ Turn \in 0..Messages /\ n \in 1..Messages
      /\ Stream(dir) = Upto(dir, n) /\ Len(Stream(dir)) = LengthTo(dir, n)
  BY <1>1, Exchange
<1>3. /\ LengthTo(dir, n) = LengthTo(dir, Turn) + HeadLen + Body[dir][n]
      /\ \A i \in 1..(HeadLen + Body[dir][n]) : Upto(dir, n)[LengthTo(dir, Turn) + i] = <<n, i>>
  BY <1>1, <1>2, StreamFacts
<1>4. Body[dir][n] \in Nat
  BY <1>2, RelayAssumption
<1>5. QED
  BY <1>1, <1>2, <1>3, <1>4

(* A part of a sequence, and two sequences joined.                         *)
LEMMA Part ==
    ASSUME NEW T, NEW s \in Seq(T), NEW a \in Nat, NEW e \in Nat, a <= e, e <= Len(s)
    PROVE  /\ SubSeq(s, a + 1, e) \in Seq(T)
           /\ Len(SubSeq(s, a + 1, e)) = e - a
           /\ \A i \in 1..(e - a) : SubSeq(s, a + 1, e)[i] = s[a + i]
<1> DEFINE n == e - a
           t == [i \in 1..n |-> s[a + i]]
<1>1. n \in Nat /\ \A i \in 1..n : a + i \in 1..Len(s) /\ s[a + i] \in T
  OBVIOUS
<1>2. SubSeq(s, a + 1, e) = t
  OBVIOUS
<1> HIDE DEF n
<1>3. t \in Seq(T) /\ Len(t) = n /\ \A i \in 1..n : t[i] = s[a + i]
  BY <1>1
<1>4. QED
  BY <1>2, <1>3 DEF n

LEMMA Joined ==
    ASSUME NEW T, NEW s \in Seq(T), NEW t \in Seq(T)
    PROVE  /\ s \o t \in Seq(T) /\ Len(s \o t) = Len(s) + Len(t)
           /\ \A i \in 1..Len(s) : (s \o t)[i] = s[i]
           /\ \A i \in 1..Len(t) : (s \o t)[Len(s) + i] = t[i]
OBVIOUS

(* Units that are taken from a pipe and held stay in their place.          *)
LEMMA Taken ==
    ASSUME NEW S, NEW X, NEW b \in Nat, NEW h \in Seq(Unit), NEW p \in Seq(Unit),
           NEW n \in 1..Len(p),
           \A i \in DOMAIN h : h[i] \in {S[b + i]} \union X,
           \A i \in DOMAIN p : p[i] = S[b + Len(h) + i]
    PROVE  LET g == h \o SubSeq(p, 1, n)
               q == SubSeq(p, n + 1, Len(p))
           IN /\ g \in Seq(Unit) /\ q \in Seq(Unit)
              /\ Len(g) = Len(h) + n /\ Len(q) = Len(p) - n
              /\ \A i \in DOMAIN g : g[i] \in {S[b + i]} \union X
              /\ \A i \in DOMAIN q : q[i] = S[b + Len(g) + i]
<1> DEFINE f == SubSeq(p, 1, n)
           g == h \o f
           q == SubSeq(p, n + 1, Len(p))
<1>1. Len(p) \in Nat /\ n \in Nat /\ n <= Len(p) /\ Len(h) \in Nat
      /\ DOMAIN p = 1..Len(p) /\ DOMAIN h = 1..Len(h)
  OBVIOUS
<1>2. f \in Seq(Unit) /\ Len(f) = n /\ \A i \in 1..n : f[i] = p[i]
  BY <1>1
<1>3. q \in Seq(Unit) /\ Len(q) = Len(p) - n /\ \A i \in 1..(Len(p) - n) : q[i] = p[n + i]
  <2>1. n \in Nat /\ Len(p) \in Nat /\ n <= Len(p) /\ Len(p) <= Len(p)
    BY <1>1
  <2>2. /\ SubSeq(p, n + 1, Len(p)) \in Seq(Unit)
        /\ Len(SubSeq(p, n + 1, Len(p))) = Len(p) - n
        /\ \A i \in 1..(Len(p) - n) : SubSeq(p, n + 1, Len(p))[i] = p[n + i]
    BY ONLY <2>1, p \in Seq(Unit), Part
  <2>3. QED
    BY <2>2
<1> HIDE DEF f, q
<1>4. /\ g \in Seq(Unit) /\ Len(g) = Len(h) + n
      /\ \A i \in 1..Len(h) : g[i] = h[i]
      /\ \A i \in 1..n : g[Len(h) + i] = f[i]
  <2>1. /\ g \in Seq(Unit) /\ Len(g) = Len(h) + Len(f)
        /\ \A i \in 1..Len(h) : g[i] = h[i]
        /\ \A i \in 1..Len(f) : g[Len(h) + i] = f[i]
    BY ONLY <1>2, h \in Seq(Unit)
  <2>2. QED
    BY ONLY <1>2, <2>1
<1> HIDE DEF g
<1>5. ASSUME NEW i \in DOMAIN g
      PROVE  g[i] \in {S[b + i]} \union X
  <2>1. i \in 1..(Len(h) + n)
    BY <1>4
  <2>2. CASE i <= Len(h)
    BY <1>1, <1>4, <2>1, <2>2
  <2>3. CASE i > Len(h)
    <3>1. PICK j \in 1..n : i = Len(h) + j
      <4>1. i - Len(h) \in 1..n /\ i = Len(h) + (i - Len(h))
        BY <1>1, <2>1, <2>3
      <4>2. QED
        BY <4>1
    <3>2. g[i] = p[j] /\ j \in DOMAIN p
      BY <1>1, <1>2, <1>4, <3>1
    <3>3. b + Len(h) + j = b + i
      BY <1>1, <3>1
    <3>4. QED
      BY <3>2, <3>3
  <2>4. QED
    BY <1>1, <2>1, <2>2, <2>3
<1>6. ASSUME NEW i \in DOMAIN q
      PROVE  q[i] = S[b + Len(g) + i]
  <2>1. i \in 1..(Len(p) - n)
    BY <1>3
  <2>2. n + i \in DOMAIN p /\ q[i] = p[n + i]
    BY <1>1, <1>3, <2>1
  <2>3. b + Len(h) + (n + i) = b + Len(g) + i
    BY <1>1, <1>4, <2>1
  <2>4. QED
    BY <2>2, <2>3
<1>7. QED
  BY <1>3, <1>4, <1>5, <1>6 DEF f, g, q

(* Units that are written after those before them are in their place.      *)
LEMMA Written ==
    ASSUME NEW S, NEW X, NEW o \in Seq(Unit), NEW w \in Seq(Unit),
           \A i \in DOMAIN o : o[i] \in {S[i]} \union X,
           \A i \in DOMAIN w : w[i] \in {S[Len(o) + i]} \union X
    PROVE  /\ o \o w \in Seq(Unit) /\ Len(o \o w) = Len(o) + Len(w)
           /\ \A i \in DOMAIN (o \o w) : (o \o w)[i] \in {S[i]} \union X
<1> DEFINE g == o \o w
<1>1. /\ Len(o) \in Nat /\ Len(w) \in Nat
      /\ DOMAIN o = 1..Len(o) /\ DOMAIN w = 1..Len(w)
  OBVIOUS
<1>2. /\ g \in Seq(Unit) /\ Len(g) = Len(o) + Len(w)
      /\ \A i \in 1..Len(o) : g[i] = o[i]
      /\ \A i \in 1..Len(w) : g[Len(o) + i] = w[i]
  BY Joined
<1> HIDE DEF g
<1>3. ASSUME NEW i \in DOMAIN g
      PROVE  g[i] \in {S[i]} \union X
  <2>1. i \in 1..(Len(o) + Len(w))
    BY <1>2
  <2>2. CASE i <= Len(o)
    BY <1>1, <1>2, <2>1, <2>2
  <2>3. CASE i > Len(o)
    <3>1. PICK j \in 1..Len(w) : i = Len(o) + j
      <4>1. i - Len(o) \in 1..Len(w) /\ i = Len(o) + (i - Len(o))
        BY <1>1, <2>1, <2>3
      <4>2. QED
        BY <4>1
    <3>2. QED
      BY <1>1, <1>2, <3>1
  <2>4. QED
    BY <1>1, <2>1, <2>2, <2>3
<1>4. QED
  BY <1>2, <1>3 DEF g

-----------------------------------------------------------------------------
(* The relay begins with nothing asked.                                    *)
LEMMA InitIInv == Init => IInv
<1> SUFFICES ASSUME Init PROVE IInv
  OBVIOUS
<1>1. <<>> \in Seq(Nat \X Nat) /\ Len(<<>>) = 0
  OBVIOUS
<1>2. TypeOK
  <2>1. 0 \in 0..Messages /\ 0 \in Nat /\ 0 \in Int /\ 0 <= HeadSpace
    BY RelayAssumption
  <2>2. /\ given \in [Directions -> 0..Messages]
        /\ pipe \in [Directions -> Seq(Nat \X Nat)] /\ out \in [Directions -> Seq(Nat \X Nat)]
    BY <1>1, <2>1 DEF Init
  <2>3. QED
    BY <1>1, <2>1, <2>2 DEF Init, TypeOK, Directions
<1>3. TurnInv
  BY DEF Init, TurnInv, Turn, Directions
<1>4. \A d \in Directions : Stream(d) = <<>> /\ LengthTo(d, 0) = 0 /\ given[d] = 0
  <2> SUFFICES ASSUME NEW d \in Directions
               PROVE  Stream(d) = <<>> /\ LengthTo(d, 0) = 0 /\ given[d] = 0
    OBVIOUS
  <2>1. given[d] = 0
    BY DEF Init
  <2>2. Upto(d, 0) = <<>>
    BY UptoNone
  <2>3. Stream(d) = Upto(d, 0) /\ LengthTo(d, 0) = Len(Upto(d, 0))
    BY <2>1 DEF Stream, LengthTo, Upto
  <2>4. QED
    BY <1>1, <2>1, <2>2, <2>3
<1>5. Turn = 0 /\ Held = <<>> /\ Other(dir) \in Directions /\ dir \in Directions
  BY DEF Init, Turn, Held, Directions, Other
<1>6. LengthInv
  <2>1. /\ pipe[dir] = <<>> /\ pipe[Other(dir)] = <<>>
        /\ out[dir] = <<>> /\ out[Other(dir)] = <<>> /\ pc = "head"
    BY <1>5 DEF Init
  <2>2. /\ Stream(dir) = <<>> /\ Stream(Other(dir)) = <<>> /\ LengthTo(dir, Turn) = 0
    BY <1>4, <1>5
  <2>3. Len(<<>>) = 0 + 0 /\ Len(<<>>) + Len(<<>>) + Len(<<>>) = Len(<<>>)
    BY <1>1
  <2>4. QED
    BY <1>5, <2>1, <2>2, <2>3 DEF LengthInv
<1>7. UnitsInv
  BY <1>1, <1>5 DEF Init, UnitsInv
<1>8. MessageInv
  BY <1>1, RelayAssumption DEF Init, MessageInv, Accounted
<1>9. QED
  BY <1>2, <1>3, <1>6, <1>7, <1>8 DEF IInv

(* When the relay has come to its end there is no more to keep than types. *)
LEMMA AtRest == TypeOK' /\ pc' \in {"closed", "crashed", "undefined"} => IInv'
BY DEF IInv, Alive

LEMMA NextAtRest ==
    ASSUME IInv, NoHeader \/ Killed \/ WriteFails \/ Overrun
    PROVE  IInv'
<1>1. TypeOK'
  <2>1. CASE NoHeader \/ Killed \/ Overrun
    BY <2>1 DEF IInv, TypeOK, NoHeader, NoMessage, Killed, Overrun, msgVars
  <2>2. CASE WriteFails
    <3>1. /\ headders \in Seq(Unit) /\ chunk \in Seq(Unit) /\ size \in Nat
          /\ out \in [Directions -> Seq(Unit)] /\ dir \in Directions
      BY DEF IInv, TypeOK, Unit
    <3>2. PICK s, n : /\ s = IF pc = "send" THEN SubSeq(headders, 1, size) ELSE chunk
                      /\ pc = "send" => size <= Len(headders)
                      /\ n \in 0..(Len(s) - 1) /\ Write(SubSeq(s, 1, n))
      BY <2>2 DEF WriteFails, IInv, Alive, MessageInv
    <3>3. s \in Seq(Unit)
      BY <3>1, <3>2
    <3>4. SubSeq(s, 1, n) \in Seq(Unit)
      BY <3>2, <3>3
    <3>5. out' \in [Directions -> Seq(Unit)]
      BY <3>1, <3>2, <3>4 DEF Write
    <3>6. QED
      BY <2>2, <3>5 DEF IInv, TypeOK, WriteFails, msgVars, Unit
  <2>3. QED
    BY <2>1, <2>2
<1>2. pc' \in {"closed", "crashed", "undefined"}
  BY DEF NoHeader, NoMessage, Killed, WriteFails, Overrun
<1>3. QED
  BY <1>1, <1>2, AtRest

(* What is read of the pipe of the direction that is forwarded.            *)
LEMMA Reading ==
    ASSUME IInv, Alive, NEW n \in 1..Len(pipe[dir]), Take(n)
    PROVE  LET g == Held \o SubSeq(pipe[dir], 1, n)
               S == Stream(dir)
               X == IF pc \in {"recv", "write"} THEN Spoilt(dir) ELSE {}
           IN /\ pipe' \in [Directions -> Seq(Unit)]
              /\ pipe'[Other(dir)] = <<>>
              /\ g \in Seq(Unit) /\ Len(g) = Len(Held) + n /\ Len(g) \in Nat
              /\ Len(g) + Len(pipe'[dir]) = Len(Held) + Len(pipe[dir])
              /\ Len(pipe'[dir]) \in Nat /\ Len(out[dir]) \in Nat
              /\ \A i \in DOMAIN g : g[i] \in {S[Len(out[dir]) + i]} \union X
              /\ \A i \in DOMAIN pipe'[dir] :
                    pipe'[dir][i] = S[Len(out[dir]) + Len(g) + i]
<1> DEFINE S == Stream(dir)
           X == IF pc \in {"recv", "write"} THEN Spoilt(dir) ELSE {}
           b == Len(out[dir])
           h == Held
           p == pipe[dir]
           g == h \o SubSeq(p, 1, n)
           q == SubSeq(p, n + 1, Len(p))
<1>1. /\ dir \in Directions /\ pipe \in [Directions -> Seq(Unit)]
      /\ p \in Seq(Unit) /\ b \in Nat /\ h \in Seq(Unit) /\ n \in 1..Len(p)
  <2>1. TypeOK
    BY DEF IInv
  <2>2. /\ dir \in Directions /\ pipe \in [Directions -> Seq(Unit)]
        /\ out \in [Directions -> Seq(Unit)]
        /\ headders \in Seq(Unit) /\ chunk \in Seq(Unit)
    BY <2>1, Zenon DEF TypeOK, Unit
  <2>3. h \in Seq(Unit)
    <3>1. <<>> \in Seq(Unit)
      OBVIOUS
    <3>2. QED
      BY <2>2, <3>1 DEF Held
  <2>4. p \in Seq(Unit) /\ out[dir] \in Seq(Unit)
    BY <2>2
  <2>5. b \in Nat
    BY <2>4
  <2>6. QED
    BY <2>2, <2>3, <2>4, <2>5
<1>2. /\ \A i \in DOMAIN h : h[i] \in {S[b + i]} \union X
      /\ \A i \in DOMAIN p : p[i] = S[b + Len(h) + i]
      /\ pipe[Other(dir)] = <<>>
  BY DEF IInv, UnitsInv, LengthInv
<1>3. pipe' = [pipe EXCEPT ![dir] = q]
  BY DEF Take
<1> HIDE DEF S, X, b, h, p
<1>4. /\ g \in Seq(Unit) /\ q \in Seq(Unit)
      /\ Len(g) = Len(h) + n /\ Len(q) = Len(p) - n
      /\ \A i \in DOMAIN g : g[i] \in {S[b + i]} \union X
      /\ \A i \in DOMAIN q : q[i] = S[b + Len(g) + i]
  <2>1. g \in Seq(Unit) /\ Len(g) = Len(h) + n
    BY ONLY <1>1, <1>2, Taken
  <2>2. q \in Seq(Unit) /\ Len(q) = Len(p) - n
    BY ONLY <1>1, Part
  <2>3. \A i \in DOMAIN g : g[i] \in {S[b + i]} \union X
    BY ONLY <1>1, <1>2, Taken
  <2>4. \A i \in DOMAIN q : q[i] = S[b + Len(g) + i]
    BY ONLY <1>1, <1>2, Taken, SMTT(30)
  <2>5. QED
    BY <2>1, <2>2, <2>3, <2>4
<1> HIDE DEF g, q
<1>5. pipe'[dir] = q /\ pipe'[Other(dir)] = <<>> /\ pipe' \in [Directions -> Seq(Unit)]
  BY <1>1, <1>2, <1>3, <1>4, Sides
<1>6. Len(g) \in Nat /\ Len(q) \in Nat /\ Len(g) + Len(q) = Len(h) + Len(p)
  BY <1>1, <1>4
<1>7. QED
  BY <1>1, <1>4, <1>5, <1>6 DEF b, h, p, g, S, X

(* The header as it is read: what there is of it so far, and where it ends.*)
LEMMA HeaderRead ==
    ASSUME IInv, pc = "head", NEW n \in 1..Len(pipe[dir]), Take(n)
    PROVE  LET read == headders \o SubSeq(pipe[dir], 1, n)
               k == Turn + 1
           IN /\ given[dir] = k /\ k \in 1..Messages
              /\ Len(read) \in 1..(HeadLen + Body[dir][k])
              /\ \A i \in 1..Len(read) : read[i] = <<k, i>>
              /\ {i \in DOMAIN read : EndsHeader(read[i])}
                    = IF HeadLen <= Len(read) THEN {HeadLen} ELSE {}
<1> DEFINE read == headders \o SubSeq(pipe[dir], 1, n)
           k == Turn + 1
           S == Stream(dir)
           b == Len(out[dir])
           T == HeadLen + Body[dir][k]
<1>1. Held = headders /\ Alive /\ TypeOK /\ TurnInv /\ LengthInv
  BY DEF Held, Alive, IInv
<1>2. /\ read \in Seq(Unit) /\ Len(read) \in Nat /\ Len(read) = Len(headders) + n
      /\ Len(read) + Len(pipe'[dir]) = Len(headders) + Len(pipe[dir])
      /\ Len(pipe'[dir]) \in Nat /\ b \in Nat
      /\ \A i \in DOMAIN read : read[i] = S[b + i]
  BY <1>1, Reading
<1>3. /\ b = LengthTo(dir, Turn) /\ Len(headders) \in Nat /\ Len(pipe[dir]) \in Nat
      /\ b + Len(headders) + Len(pipe[dir]) <= Len(S)
  <2>1. Len(headders) \in Nat /\ Len(pipe[dir]) \in Nat
    <3>1. headders \in Seq(Unit) /\ pipe \in [Directions -> Seq(Unit)] /\ dir \in Directions
      BY <1>1, Zenon DEF TypeOK, Unit
    <3>2. pipe[dir] \in Seq(Unit)
      BY ONLY <3>1
    <3>3. QED
      BY ONLY <3>1, <3>2
  <2>2. b = LengthTo(dir, Turn) + 0
    BY <1>1 DEF LengthInv
  <2>3. b + Len(Held) + Len(pipe[dir]) <= Len(S)
    BY <1>1 DEF LengthInv
  <2>4. QED
    BY <1>1, <1>2, <2>1, <2>2, <2>3, Exchange
<1>4. /\ dir \in Directions /\ given[dir] \in {Turn, k}
      /\ Len(S) = LengthTo(dir, given[dir]) /\ LengthTo(dir, Turn) \in Nat
      /\ Len(S) \in Nat
  <2>1. TypeOK /\ TurnInv
    BY <1>1, Zenon
  <2>2. /\ dir \in Directions /\ given[dir] \in {Turn, k} /\ LengthTo(dir, Turn) \in Nat
        /\ Len(S) = LengthTo(dir, given[dir]) /\ LengthTo(dir, given[dir]) \in Nat
    BY <2>1, Exchange, Zenon
  <2>3. QED
    BY <2>2, Zenon
<1> HIDE DEF read, S, b
<1>5. Len(read) > 0 /\ b + Len(read) <= Len(S)
  <2>1. /\ Len(read) \in Nat /\ Len(read) = Len(headders) + n
        /\ Len(read) + Len(pipe'[dir]) = Len(headders) + Len(pipe[dir])
        /\ Len(pipe'[dir]) \in Nat /\ b \in Nat
    BY <1>2, Zenon
  <2>2. n \in 1..Len(pipe[dir])
    OBVIOUS
  <2>3. PICK r, h, p, q, m : /\ r = Len(read) /\ h = Len(headders) /\ p = Len(pipe[dir])
                             /\ q = Len(pipe'[dir]) /\ m = Len(S)
    OBVIOUS
  <2>4. /\ r \in Nat /\ h \in Nat /\ p \in Nat /\ q \in Nat /\ m \in Nat /\ b \in Nat
        /\ r = h + n /\ n \in 1..p /\ r + q = h + p /\ b + h + p <= m
    BY <1>3, <1>4, <2>1, <2>2, <2>3, Zenon
  <2>5. r > 0 /\ b + r <= m
    BY ONLY <2>4
  <2>6. QED
    BY <2>3, <2>5, Zenon
<1>6. given[dir] = k
  <2>1. CASE given[dir] = Turn
    <3>1. Len(S) = b
      BY <1>3, <1>4, <2>1, Zenon
    <3>2. Len(read) \in Nat /\ b \in Nat
      BY <1>2, Zenon
    <3>3. QED
      BY ONLY <1>5, <3>1, <3>2
  <2>2. QED
    BY <1>4, <2>1, Zenon
<1>7. /\ k \in 1..Messages /\ Body[dir][k] \in Nat
      /\ Len(S) = LengthTo(dir, Turn) + HeadLen + Body[dir][k]
      /\ \A i \in 1..T : S[LengthTo(dir, Turn) + i] = <<k, i>>
  BY <1>1, <1>6, AtMessage DEF S
<1>8. Len(read) \in 1..T
  <2>1. HeadLen \in Nat
    BY RelayAssumption
  <2> DEFINE n0 == Len(read)
             m0 == Len(S)
             t0 == LengthTo(dir, Turn)
             c0 == Body[dir][k]
  <2>2. n0 \in Nat /\ n0 > 0 /\ t0 + n0 <= m0 /\ t0 \in Nat /\ c0 \in Nat /\ m0 = t0 + HeadLen + c0
    BY <1>2, <1>3, <1>4, <1>5, <1>7
  <2> HIDE DEF n0, m0, t0, c0
  <2>3. n0 \in 1..(HeadLen + c0)
    BY <2>1, <2>2
  <2>4. QED
    BY <2>3 DEF n0, c0
<1>9. \A i \in 1..Len(read) : read[i] = <<k, i>>
  <2> SUFFICES ASSUME NEW i \in 1..Len(read) PROVE read[i] = <<k, i>>
    OBVIOUS
  <2>1. i \in 1..T /\ i \in DOMAIN read
    <3>1. HeadLen \in Nat /\ T \in Int
      BY <1>7, RelayAssumption
    <3>2. i \in 1..T
      <4>1. PICK r, l : r = Len(read) /\ l = T
        OBVIOUS
      <4>2. l \in Int /\ r \in 1..l /\ i \in 1..r
        BY <1>8, <3>1, <4>1, Zenon
      <4>3. i \in 1..l
        BY ONLY <4>2
      <4>4. QED
        BY <4>1, <4>3, Zenon
    <3>3. DOMAIN read = 1..Len(read)
      <4>1. read \in Seq(Unit)
        BY <1>2, Zenon
      <4>2. QED
        BY ONLY <4>1
    <3>4. QED
      BY <3>2, <3>3, Zenon
  <2>2. read[i] = S[b + i]
    BY <1>2, <2>1, Zenon
  <2>3. S[LengthTo(dir, Turn) + i] = <<k, i>>
    BY <1>7, <2>1, Zenon
  <2>4. QED
    BY <1>3, <2>2, <2>3, Zenon
<1>10. {i \in DOMAIN read : EndsHeader(read[i])}
          = IF HeadLen <= Len(read) THEN {HeadLen} ELSE {}
  <2>1. DOMAIN read = 1..Len(read) /\ HeadLen \in Nat \ {0}
    BY <1>2, RelayAssumption
  <2>2. \A i \in 1..Len(read) : EndsHeader(read[i]) <=> i = HeadLen
    BY <1>9 DEF EndsHeader
  <2>3. QED
    BY <1>2, <2>1, <2>2
<1>11. QED
  BY <1>6, <1>7, <1>8, <1>9, <1>10 DEF read

LEMMA LeastOfOne == ASSUME NEW n \in Nat PROVE Min({n}) = n
BY DEF Min

LEMMA NextReadHeader ==
    ASSUME Orderly, IInv, NEW n \in 1..HeadSpace, ReadHeader(n)
    PROVE  IInv'
<1> DEFINE read == headders \o SubSeq(pipe[dir], 1, n)
           ends == {i \in DOMAIN read : EndsHeader(read[i])}
           k == Turn + 1
           b == Len(out[dir])
<1>1. /\ pc = "head" /\ n \in 1..Len(pipe[dir]) /\ n <= HeadSpace - Len(headders)
      /\ Take(n) /\ headders' = read
      /\ UNCHANGED <<dir, given, eof, out, sent, injected>>
  BY DEF ReadHeader
<1>2. Held = headders /\ Alive /\ TypeOK /\ TurnInv /\ LengthInv /\ UnitsInv /\ MessageInv
  BY <1>1 DEF Held, Alive, IInv
<1>3. /\ pipe' \in [Directions -> Seq(Unit)] /\ pipe'[Other(dir)] = <<>>
      /\ read \in Seq(Unit) /\ Len(read) \in Nat /\ Len(read) = Len(headders) + n
      /\ Len(read) + Len(pipe'[dir]) = Len(headders) + Len(pipe[dir])
      /\ Len(pipe'[dir]) \in Nat /\ b \in Nat
      /\ \A i \in DOMAIN read : read[i] \in {Stream(dir)[b + i]}
      /\ \A i \in DOMAIN pipe'[dir] : pipe'[dir][i] = Stream(dir)[b + Len(read) + i]
  BY <1>1, <1>2, Reading
<1>4. /\ given[dir] = k /\ k \in 1..Messages
      /\ Len(read) \in 1..(HeadLen + Body[dir][k])
      /\ \A i \in 1..Len(read) : read[i] = <<k, i>>
      /\ ends = IF HeadLen <= Len(read) THEN {HeadLen} ELSE {}
  BY <1>1, <1>2, HeaderRead
<1>5. Len(read) <= HeadSpace /\ HeadLen \in Nat \ {0} /\ HeadSpace \in Nat /\ Body[dir][k] \in Nat
      /\ Declared[dir][k] = Body[dir][k] /\ Turn \in Nat
  BY <1>1, <1>2, <1>3, <1>4, AtMessage, RelayAssumption DEF Orderly, TypeOK, TurnInv
<1>6. \/ ends # {} /\ Message(read, Min(ends))
      \/ /\ ends = {}
         /\ IF Len(read) = HeadSpace THEN NoMessage ELSE UNCHANGED pc
         /\ UNCHANGED <<size, chunk, total, remaining>>
      \/ /\ RunsOn(read)
         /\ pc' = "undefined"
         /\ UNCHANGED <<size, chunk, total, remaining>>
  BY DEF ReadHeader
<1>7. Turn' = Turn /\ Other(dir)' = Other(dir) /\ Stream(dir)' = Stream(dir)
      /\ Stream(Other(dir))' = Stream(Other(dir)) /\ LengthTo(dir, Turn)' = LengthTo(dir, Turn)
      /\ \A d \in Directions : Stream(d)' = Stream(d)
  BY <1>1 DEF Turn, Other, Stream, LengthTo, Msg
<1> HIDE DEF read, ends, b
(* What every outcome has in common.                                       *)
<1>8. /\ given \in [Directions -> 0..Messages] /\ dir \in Directions
  BY <1>2 DEF TypeOK
<1>9. ASSUME pc' \in {"head", "send"}
      PROVE  Alive' /\ TurnInv' /\ LengthInv' /\ UnitsInv'
  <2>1. Held' = read /\ Alive'
    BY <1>1, <1>9 DEF Held, Alive
  <2>2. TurnInv'
    BY <1>1, <1>4, <1>5, <1>7 DEF TurnInv
  <2>3. LengthInv'
    <3>1. /\ b = LengthTo(dir, Turn) + 0
          /\ b + Len(headders) + Len(pipe[dir]) <= Len(Stream(dir))
          /\ dir \notin eof => b + Len(headders) + Len(pipe[dir]) = Len(Stream(dir))
          /\ Len(out[Other(dir)]) = Len(Stream(Other(dir)))
      BY <1>1, <1>2 DEF LengthInv, b
    <3>2. b + Len(read) + Len(pipe'[dir]) = b + Len(headders) + Len(pipe[dir])
      <4>1. /\ Len(headders) \in Nat /\ Len(pipe[dir]) \in Nat
            /\ dir \in DOMAIN pipe /\ dir \in DOMAIN pipe'
        <5>1. pipe \in [Directions -> Seq(Nat \X Nat)] /\ headders \in Seq(Nat \X Nat)
          BY <1>2 DEF TypeOK
        <5>2. pipe' \in [Directions -> Seq(Unit)]
          BY <1>3
        <5>3. DOMAIN pipe = Directions /\ DOMAIN pipe' = Directions
          BY ONLY <5>1, <5>2
        <5>4. Len(headders) \in Nat /\ Len(pipe[dir]) \in Nat
          BY ONLY <1>8, <5>1
        <5>5. QED
          BY ONLY <1>8, <5>3, <5>4
      <4>2. /\ Len(read) + Len(pipe'[dir]) = Len(headders) + Len(pipe[dir])
            /\ b \in Nat /\ Len(read) \in Nat /\ Len(pipe'[dir]) \in Nat
        BY <1>3
      <4>3. QED
        BY ONLY <4>1, <4>2
    <3>3. /\ Len(out'[dir]) = b /\ out'[Other(dir)] = out[Other(dir)]
          /\ Len(Held') = Len(read) /\ dir' = dir /\ eof' = eof
      BY <1>1, <2>1 DEF b
    <3>4. QED
      BY <1>3, <1>7, <1>9, <3>1, <3>2, <3>3 DEF LengthInv
  <2>4. UnitsInv'
    BY <1>1, <1>2, <1>3, <1>7, <1>9, <2>1 DEF UnitsInv, b, Spoilt
  <2>5. QED
    BY <2>1, <2>2, <2>3, <2>4
<1>10. CASE ends # {} /\ Message(read, Min(ends))
  <2>1. HeadLen <= Len(read) /\ Min(ends) = HeadLen /\ read[HeadLen][1] = k
    BY <1>4, <1>5, <1>10, LeastOfOne
  <2>2. Declared[dir][read[HeadLen][1]] = Body[dir][k] /\ Body[dir][k] # -1
    BY <1>5, <2>1
  <2>3. /\ pc' = "send" /\ size' = HeadLen
        /\ chunk' = SubSeq(read, HeadLen + 1, Len(read))
        /\ total' = HeadLen + Body[dir][k]
        /\ remaining' = HeadLen + Body[dir][k] - Len(read)
    BY <1>10, <2>1, <2>2 DEF Message
  <2>4. chunk' \in Seq(Unit)
    BY <1>3, <1>5, <2>1, <2>3, Part
  <2>5. TypeOK'
    <3>1. total' \in Nat /\ remaining' \in Int /\ size' \in Nat
      BY <1>3, <1>5, <2>3, SMTT(30)
    <3>2. QED
      BY <1>1, <1>2, <1>3, <1>5, <2>3, <2>4, <3>1 DEF TypeOK, Unit
  <2>6. MessageInv'
    <3>1. remaining' = total' - Len(headders')
      BY <1>1, <1>5, <2>3
    <3>2. chunk' = SubSeq(headders', size' + 1, Len(headders'))
      BY <1>1, <2>3
    <3>3. pc' = "send" /\ size' = HeadLen /\ HeadLen <= Len(headders')
          /\ total' = HeadLen + Body[dir'][Turn' + 1]
      BY <1>1, <1>7, <2>1, <2>3
    <3>4. QED
      BY <3>1, <3>2, <3>3 DEF MessageInv, Accounted
  <2>7. QED
    BY <1>9, <2>3, <2>5, <2>6 DEF IInv
<1>11. CASE /\ ends = {}
            /\ IF Len(read) = HeadSpace THEN NoMessage ELSE UNCHANGED pc
            /\ UNCHANGED <<size, chunk, total, remaining>>
  <2>1. pc' \in {"head", "closed", "crashed"}
    BY <1>1, <1>11 DEF NoMessage
  <2>2. TypeOK'
    BY <1>1, <1>2, <1>3, <1>5, <1>11, <2>1 DEF TypeOK, Unit
  <2>3. CASE pc' = "head"
    <3>1. Len(read) < HeadLen
      <4>1. ~(HeadLen <= Len(read))
        BY <1>4, <1>11
      <4>2. HeadLen \in Nat /\ Len(read) \in Nat
        BY <1>3, <1>5
      <4>3. QED
        BY ONLY <4>1, <4>2
    <3>2. MessageInv'
      BY <1>1, <2>3, <3>1 DEF MessageInv, Accounted
    <3>3. QED
      BY <1>9, <2>2, <2>3, <3>2 DEF IInv
  <2>4. QED
    BY <2>1, <2>2, <2>3, AtRest
<1>12. CASE pc' = "undefined" /\ UNCHANGED <<size, chunk, total, remaining>>
  <2>1. TypeOK'
    BY <1>1, <1>2, <1>3, <1>5, <1>12 DEF TypeOK, Unit
  <2>2. QED
    BY <1>12, <2>1, AtRest
<1>13. QED
  BY <1>6, <1>10, <1>11, <1>12

-----------------------------------------------------------------------------
(* What is made of units that are all in their place.                      *)
LEMMA InjectFacts ==
    ASSUME NEW s \in Seq(Unit), injected \in BOOLEAN, Inject(s)
    PROVE  /\ pc' \in {"write", "undefined"} /\ injected' \in BOOLEAN
           /\ chunk' \in Seq(Unit) /\ Len(chunk') = Len(s)
           /\ \A i \in DOMAIN chunk' :
                 chunk'[i] = s[i] \/ (chunk'[i] = Garbage
                                        /\ (Tags(s) # {} \/ "residue" \in Faults))
<1>1. CASE pc' \in {"write", "undefined"} /\ chunk' = s /\ UNCHANGED injected
  BY <1>1
<1>2. CASE /\ ~injected /\ Tags(s) \notin {{}, {1}}
           /\ pc' = "write" /\ injected' = TRUE
           /\ chunk' = [i \in DOMAIN s |-> IF i < Min(Tags(s)) - 1 THEN s[i] ELSE Garbage]
  <2>1. Garbage \in Unit
    BY DEF Garbage, Unit
  <2>2. \A i \in DOMAIN s : chunk'[i] = s[i] \/ chunk'[i] = Garbage
    BY <1>2
  <2>3. DOMAIN chunk' = DOMAIN s
    BY <1>2
  <2>4. chunk' \in [1..Len(s) -> Unit]
    <3> DEFINE v(i) == IF i < Min(Tags(s)) - 1 THEN s[i] ELSE Garbage
    <3>1. \A i \in DOMAIN s : v(i) \in Unit
      BY <2>1
    <3> HIDE DEF v
    <3>2. chunk' = [i \in DOMAIN s |-> v(i)] /\ DOMAIN s = 1..Len(s)
      BY <1>2 DEF v
    <3>3. QED
      BY <3>1, <3>2
  <2>5. chunk' \in Seq(Unit) /\ Len(chunk') = Len(s)
    BY <2>4
  <2>6. QED
    BY <1>2, <2>2, <2>3, <2>5
<1>3. CASE /\ "residue" \in Faults
           /\ pc' = "write" /\ injected' = TRUE /\ chunk' = [i \in DOMAIN s |-> Garbage]
  <2>1. Garbage \in Unit /\ DOMAIN s = 1..Len(s) /\ Len(s) \in Nat
    BY DEF Garbage, Unit
  <2>2. chunk' \in [1..Len(s) -> Unit] /\ \A i \in DOMAIN chunk' : chunk'[i] = Garbage
    BY <1>3, <2>1
  <2>3. chunk' \in Seq(Unit) /\ Len(chunk') = Len(s)
    BY <2>1, <2>2
  <2>4. QED
    BY <1>3, <2>2, <2>3
<1>4. QED
  BY <1>1, <1>2, <1>3 DEF Inject

LEMMA Injected ==
    ASSUME IInv, pc = "recv", NEW s \in Seq(Unit), Inject(s),
           Len(out[dir]) + Len(s) <= Len(Stream(dir)),
           \A i \in DOMAIN s : s[i] \in {Stream(dir)[Len(out[dir]) + i]} \union Spoilt(dir)
    PROVE  /\ pc' \in {"write", "undefined"} /\ injected' \in BOOLEAN
           /\ chunk' \in Seq(Unit) /\ Len(chunk') = Len(s)
           /\ \A i \in DOMAIN chunk' :
                 chunk'[i] \in {Stream(dir)[Len(out[dir]) + i]} \union Spoilt(dir)
<1> DEFINE k == Turn + 1
           b == Len(out[dir])
<1>1. TypeOK /\ TurnInv /\ LengthInv /\ MessageInv /\ injected \in BOOLEAN
  BY DEF IInv, Alive, TypeOK
<1>2. /\ pc' \in {"write", "undefined"} /\ injected' \in BOOLEAN
      /\ chunk' \in Seq(Unit) /\ Len(chunk') = Len(s)
      /\ \A i \in DOMAIN chunk' :
            chunk'[i] = s[i] \/ (chunk'[i] = Garbage
                                   /\ (Tags(s) # {} \/ "residue" \in Faults))
  BY <1>1, InjectFacts
<1>3. DOMAIN chunk' = DOMAIN s /\ DOMAIN s = 1..Len(s)
  BY <1>2
<1>4. ASSUME Tags(s) # {}
      PROVE  Spoilt(dir) = {Garbage}
  <2>1. PICK i \in DOMAIN s : s[i] # Garbage /\ TagAt[dir][s[i][1]] > 0
    BY <1>4 DEF Tags
  <2>2. s[i] = Stream(dir)[b + i]
    BY <2>1 DEF Spoilt
  <2>3. /\ k \in 1..Messages /\ Body[dir][k] \in Nat
        /\ Len(Stream(dir)) = LengthTo(dir, Turn) + HeadLen + Body[dir][k]
        /\ \A j \in 1..(HeadLen + Body[dir][k]) : Stream(dir)[LengthTo(dir, Turn) + j] = <<k, j>>
        /\ LengthTo(dir, Turn) \in Nat
    BY <1>1, AtMessage, Exchange DEF TurnInv
  <2>4. b = LengthTo(dir, Turn) + sent /\ sent \in Nat
    BY <1>1 DEF LengthInv, TypeOK
  <2>5. sent + i \in 1..(HeadLen + Body[dir][k]) /\ LengthTo(dir, Turn) + (sent + i) = b + i
    <3> DEFINE m0 == Len(Stream(dir))
               t0 == LengthTo(dir, Turn)
               c0 == Body[dir][k]
               n0 == Len(s)
    <3>1. /\ m0 = t0 + HeadLen + c0 /\ t0 \in Nat /\ c0 \in Nat /\ b + n0 <= m0
          /\ n0 \in Nat /\ i \in 1..n0 /\ b = t0 + sent /\ sent \in Nat /\ HeadLen \in Nat
      BY <1>3, <2>3, <2>4, RelayAssumption
    <3> HIDE DEF m0, t0, c0, n0, b
    <3>2. sent + i \in 1..(HeadLen + c0) /\ t0 + (sent + i) = b + i
      BY <3>1, SMTT(30)
    <3>3. QED
      BY <3>2 DEF t0, c0
  <2>6. s[i] = <<k, sent + i>>
    BY <2>2, <2>3, <2>5
  <2>7. TagAt[dir][k] > 0
    BY <2>1, <2>6
  <2>8. QED
    BY <2>3, <2>7 DEF Spoilt
<1>5. "residue" \in Faults => Spoilt(dir) = {Garbage}
  BY DEF Spoilt
<1>6. ASSUME NEW i \in DOMAIN chunk'
      PROVE  chunk'[i] \in {Stream(dir)[b + i]} \union Spoilt(dir)
  <2>1. s[i] \in {Stream(dir)[b + i]} \union Spoilt(dir)
    BY <1>3, <1>6
  <2>2. CASE chunk'[i] = s[i]
    BY <2>1, <2>2
  <2>3. CASE Tags(s) # {} /\ chunk'[i] = Garbage
    BY <1>4, <2>3
  <2>4. CASE "residue" \in Faults /\ chunk'[i] = Garbage
    BY <1>5, <2>4
  <2>5. QED
    BY <1>2, <2>2, <2>3, <2>4
<1>7. QED
  BY <1>2, <1>6

LEMMA NoneLeft ==
    ASSUME NEW r \in Int, NEW n \in Nat, NEW a \in Nat, NEW b \in Nat, r + n = a - b, n <= a - b
    PROVE  r >= 0
OBVIOUS

LEMMA Receives ==
    ASSUME IInv, pc = "recv", NEW s \in Seq(Unit), Inject(s),
           pipe' \in [Directions -> Seq(Unit)], pipe'[Other(dir)] = <<>>,
           Len(s) + Len(pipe'[dir]) = Len(chunk) + Len(pipe[dir]),
           \A i \in DOMAIN s : s[i] \in {Stream(dir)[Len(out[dir]) + i]} \union Spoilt(dir),
           \A i \in DOMAIN pipe'[dir] :
              pipe'[dir][i] = Stream(dir)[Len(out[dir]) + Len(s) + i],
           remaining' = remaining - (Len(s) - Len(chunk)),
           UNCHANGED <<dir, given, eof, out, msgVars, sent>>
    PROVE  IInv'
<1> DEFINE k == Turn + 1
           b == Len(out[dir])
           m == Len(Stream(dir))
           t == LengthTo(dir, Turn)
           c == Body[dir][k]
           n == Len(s)
           p == Len(pipe[dir])
           q == Len(pipe'[dir])
           h == Len(chunk)
<1>1. /\ TypeOK /\ TurnInv /\ LengthInv /\ UnitsInv /\ MessageInv /\ Alive /\ Held = chunk
      /\ given[dir] = k
  BY DEF IInv, Alive, Held, TurnInv
<1>2. /\ m = t + HeadLen + c /\ t \in Nat /\ c \in Nat /\ m \in Nat /\ HeadLen \in Nat
      /\ dir \in Directions
  BY <1>1, AtMessage, Exchange, RelayAssumption, SMTT(30)
<1>3. /\ b = t + sent /\ b + h + p <= m /\ (dir \notin eof => b + h + p = m)
      /\ sent \in Nat /\ total \in Nat /\ remaining \in Int
      /\ total = HeadLen + c /\ remaining + h = total - sent /\ sent < total
  BY <1>1, SMTT(30) DEF LengthInv, MessageInv, Accounted, TypeOK
<1>4. h \in Nat /\ p \in Nat /\ q \in Nat /\ n \in Nat /\ b \in Nat
  <2>1. /\ chunk \in Seq(Unit) /\ pipe \in [Directions -> Seq(Unit)]
        /\ out \in [Directions -> Seq(Unit)]
    BY <1>1, Zenon DEF TypeOK, Unit
  <2>2. pipe[dir] \in Seq(Unit) /\ out[dir] \in Seq(Unit) /\ pipe'[dir] \in Seq(Unit)
    BY <1>2, <2>1
  <2>3. \A u \in Seq(Unit) : Len(u) \in Nat
    OBVIOUS
  <2>4. QED
    BY <2>1, <2>2, <2>3, Zenon
<1>5. n + q = h + p /\ remaining' = remaining - (n - h)
  OBVIOUS
<1> HIDE DEF b, m, t, c, n, p, q, h
<1>6. /\ b + n <= m /\ b + n + q = b + h + p
      /\ remaining' \in Int /\ remaining' >= 0 /\ remaining' + n = total - sent
  <2>1. b + n + q = b + h + p /\ b + n <= m
    BY ONLY <1>2, <1>3, <1>4, <1>5
  <2>2. remaining' \in Int /\ remaining' + n = total - sent
    BY ONLY <1>3, <1>4, <1>5
  <2>3. t + sent + n <= t + total
    BY ONLY <1>2, <1>3, <1>4, <2>1
  <2>4. remaining' >= 0
    <3>1. t \in Nat /\ sent \in Nat /\ total \in Nat /\ n \in Nat
      BY <1>2, <1>3, <1>4
    <3>2. n <= total - sent
      BY ONLY <2>3, <3>1
    <3>3. QED
      BY ONLY <2>2, <3>1, <3>2, NoneLeft
  <2>5. QED
    BY <2>1, <2>2, <2>4
<1>7. /\ pc' \in {"write", "undefined"} /\ injected' \in BOOLEAN
      /\ chunk' \in Seq(Unit) /\ Len(chunk') = n
      /\ \A i \in DOMAIN chunk' : chunk'[i] \in {Stream(dir)[b + i]} \union Spoilt(dir)
  BY <1>6, Injected DEF b, m, n
<1>8. TypeOK'
  BY <1>1, <1>6, <1>7 DEF TypeOK, Unit, msgVars
<1>9. CASE pc' = "undefined"
  BY <1>8, <1>9, AtRest
<1>10. CASE pc' = "write"
  <2>1. /\ Turn' = Turn /\ Other(dir)' = Other(dir) /\ LengthTo(dir, Turn)' = t
        /\ \A d \in Directions : Stream(d)' = Stream(d)
    BY DEF Turn, Other, Stream, LengthTo, Msg, t
  <2>2. Held' = chunk' /\ Alive'
    BY <1>10 DEF Held, Alive
  <2>3. TurnInv'
    BY <1>1, <1>10, <2>1 DEF TurnInv
  <2>4. LengthInv'
    <3>1. /\ Len(out'[dir']) = b /\ Stream(dir)' = Stream(dir) /\ Len(Held') = n
          /\ Len(pipe'[dir']) = q /\ dir' = dir /\ eof' = eof /\ sent' = sent
          /\ Stream(Other(dir))' = Stream(Other(dir))
      BY <1>2, <1>7, <2>1, <2>2, Sides DEF b, q
    <3>2. /\ pipe'[Other(dir)] = <<>> /\ Len(out[Other(dir)]) = Len(Stream(Other(dir)))
          /\ b = t + sent /\ b + n + q <= m /\ (dir \notin eof => b + n + q = m)
      BY <1>1, <1>3, <1>6 DEF LengthInv
    <3>3. out' = out /\ m = Len(Stream(dir))
      BY DEF m
    <3>4. QED
      BY <1>10, <2>1, <3>1, <3>2, <3>3 DEF LengthInv
  <2>5. UnitsInv'
    <3>1. \A d \in Directions : \A i \in DOMAIN out'[d] : 
             out'[d][i] \in {Stream(d)'[i]} \union Spoilt(d)'
      BY <1>1, <2>1 DEF UnitsInv, Spoilt
    <3>2. \A i \in DOMAIN Held' :
             Held'[i] \in {Stream(dir)'[Len(out'[dir]) + i]} \union Spoilt(dir)'
      BY <1>2, <1>7, <2>1, <2>2 DEF b, Spoilt
    <3>3. \A i \in DOMAIN pipe'[dir] :
             pipe'[dir][i] = Stream(dir)'[Len(out'[dir]) + Len(Held') + i]
      BY <1>2, <1>7, <2>1, <2>2 DEF b, n
    <3>4. QED
      BY <1>10, <3>1, <3>2, <3>3 DEF UnitsInv
  <2>6. MessageInv'
    <3>1. total' = total /\ sent' = sent /\ Len(chunk') = n /\ dir' = dir
      BY <1>7 DEF msgVars
    <3>2. total' = HeadLen + Body[dir'][Turn' + 1]
      BY <1>3, <2>1, <3>1 DEF c
    <3>3. Accounted'
      BY <1>6, <3>1 DEF Accounted
    <3>4. QED
      BY <1>3, <1>10, <3>1, <3>2, <3>3 DEF MessageInv
  <2>7. QED
    BY <1>8, <2>3, <2>4, <2>5, <2>6 DEF IInv
<1>11. QED
  BY <1>7, <1>9, <1>10

LEMMA NextNoRead ==
    ASSUME IInv, NoRead
    PROVE  IInv'
<1>1. /\ pc = "recv" /\ Inject(chunk)
      /\ UNCHANGED <<dir, given, pipe, eof, out, msgVars, remaining, sent>>
  BY DEF NoRead
<1>2. TypeOK /\ UnitsInv /\ LengthInv /\ Held = chunk /\ dir \in Directions
  BY <1>1 DEF IInv, Alive, Held, TypeOK
<1>3. /\ chunk \in Seq(Unit) /\ pipe' \in [Directions -> Seq(Unit)]
      /\ pipe'[Other(dir)] = <<>> /\ Len(chunk) \in Nat /\ remaining \in Int
  BY <1>1, <1>2 DEF TypeOK, LengthInv, Unit
<1>4. /\ Len(chunk) + Len(pipe'[dir]) = Len(chunk) + Len(pipe[dir])
      /\ remaining' = remaining - (Len(chunk) - Len(chunk))
  BY <1>1, <1>3
<1>5. /\ \A i \in DOMAIN chunk : chunk[i] \in {Stream(dir)[Len(out[dir]) + i]} \union Spoilt(dir)
      /\ \A i \in DOMAIN pipe'[dir] : pipe'[dir][i] = Stream(dir)[Len(out[dir]) + Len(chunk) + i]
  BY <1>1, <1>2 DEF UnitsInv
<1>6. QED
  BY <1>1, <1>3, <1>4, <1>5, Receives

LEMMA NextReadBody ==
    ASSUME IInv, NEW n \in 1..ChunkSpace, ReadBody(n)
    PROVE  IInv'
<1> DEFINE s == chunk \o SubSeq(pipe[dir], 1, n)
<1>1. /\ pc = "recv" /\ n \in 1..Len(pipe[dir]) /\ Inject(s)
      /\ Take(n) /\ remaining' = remaining - n
      /\ UNCHANGED <<dir, given, eof, out, msgVars, sent>>
  BY DEF ReadBody
<1>2. Alive /\ Held = chunk
  BY <1>1 DEF Alive, Held
<1>3. /\ pipe' \in [Directions -> Seq(Unit)] /\ pipe'[Other(dir)] = <<>>
      /\ s \in Seq(Unit) /\ Len(s) = Len(chunk) + n
      /\ Len(s) + Len(pipe'[dir]) = Len(chunk) + Len(pipe[dir])
      /\ \A i \in DOMAIN s : s[i] \in {Stream(dir)[Len(out[dir]) + i]} \union Spoilt(dir)
      /\ \A i \in DOMAIN pipe'[dir] : pipe'[dir][i] = Stream(dir)[Len(out[dir]) + Len(s) + i]
  BY <1>1, <1>2, Reading
<1> HIDE DEF s
<1>4. remaining' = remaining - (Len(s) - Len(chunk))
  <2>1. Len(chunk) \in Nat
    BY DEF IInv, TypeOK
  <2>2. QED
    BY <1>1, <1>3, <2>1
<1>5. QED
  BY <1>1, <1>3, <1>4, Receives

-----------------------------------------------------------------------------
(* What is written is of what is held.                                     *)
LEMMA Writing ==
    ASSUME IInv, Alive, NEW w \in Seq(Unit), Write(w), Len(w) <= Len(Held),
           \A i \in 1..Len(w) : w[i] = Held[i]
    PROVE  /\ out' \in [Directions -> Seq(Unit)]
           /\ out'[Other(dir)] = out[Other(dir)]
           /\ Len(out'[dir]) = Len(out[dir]) + Len(w)
           /\ \A d \in Directions : \A i \in DOMAIN out'[d] :
                 out'[d][i] \in {Stream(d)[i]} \union Spoilt(d)
<1>1. /\ dir \in Directions /\ out \in [Directions -> Seq(Unit)] /\ UnitsInv
      /\ Held \in Seq(Unit)
  BY DEF IInv, TypeOK, Unit, Held, Alive
<1>2. out' = [out EXCEPT ![dir] = out[dir] \o w]
  BY DEF Write
<1> DEFINE o == out[dir]
           S == Stream(dir)
           X == Spoilt(dir)
<1>3. /\ o \in Seq(Unit) /\ w \in Seq(Unit)
      /\ \A i \in DOMAIN o : o[i] \in {S[i]} \union X
      /\ \A i \in DOMAIN w : w[i] \in {S[Len(o) + i]} \union X
  <2>1. \A i \in DOMAIN Held : Held[i] \in {S[Len(o) + i]} \union X
    BY <1>1 DEF UnitsInv
  <2>2. DOMAIN w = 1..Len(w) /\ DOMAIN Held = 1..Len(Held) /\ Len(w) \in Nat /\ Len(Held) \in Nat
    BY <1>1
  <2> HIDE DEF o, S, X
  <2>3. \A i \in DOMAIN w : i \in DOMAIN Held /\ w[i] = Held[i]
    BY <2>2
  <2>4. \A i \in DOMAIN w : w[i] \in {S[Len(o) + i]} \union X
    BY <2>1, <2>3
  <2>5. QED
    BY <1>1, <2>4 DEF UnitsInv, o, S, X
<1> HIDE DEF o, S, X
<1>4. /\ o \o w \in Seq(Unit) /\ Len(o \o w) = Len(o) + Len(w)
      /\ \A i \in DOMAIN (o \o w) : (o \o w)[i] \in {S[i]} \union X
  BY ONLY <1>3, Written
<1>5. /\ out' \in [Directions -> Seq(Unit)] /\ out'[dir] = o \o w
      /\ \A d \in Directions : d # dir => out'[d] = out[d]
  BY <1>1, <1>2, <1>4 DEF o
<1>6. ASSUME NEW d \in Directions, NEW i \in DOMAIN out'[d]
      PROVE  out'[d][i] \in {Stream(d)[i]} \union Spoilt(d)
  BY <1>1, <1>4, <1>5 DEF UnitsInv, S, X
<1>7. QED
  BY <1>1, <1>4, <1>5, <1>6, Sides DEF o

(* The whole of a message has been written: it is the other direction's    *)
(* turn.                                                                   *)
LEMMA PassOn ==
    ASSUME IInv, Alive, pc # "head", out' \in [Directions -> Seq(Unit)],
           out'[Other(dir)] = out[Other(dir)], Len(out'[dir]) = Len(Stream(dir)),
           \A d \in Directions : \A i \in DOMAIN out'[d] :
              out'[d][i] \in {Stream(d)[i]} \union Spoilt(d),
           pipe[dir] = <<>>, pc' = "head", dir' = Other(dir),
           headders' = <<>>, size' = 0, total' = 0, sent' \in Nat,
           chunk' \in Seq(Unit), injected' \in BOOLEAN, UNCHANGED <<given, pipe, eof, remaining>>
    PROVE  IInv'
<1> DEFINE o == Other(dir)
<1>1. TypeOK /\ TurnInv /\ LengthInv /\ given[dir] = Turn + 1
  BY DEF IInv, TurnInv
<1>2. /\ dir \in Directions /\ o \in Directions /\ o # dir /\ Other(o) = dir
      /\ given[o] = IF dir = "req" THEN Turn ELSE Turn + 1
      /\ \A d \in Directions : /\ given[d] \in 0..Messages
                               /\ Len(Stream(d)) = LengthTo(d, given[d])
                               /\ LengthTo(d, given[d]) \in Nat
  BY <1>1, Sides, Exchange
<1>3. Turn' = given[o] /\ Turn' \in Nat /\ given'[dir'] \in {Turn', Turn' + 1}
  <2>1. Turn \in Nat
    BY <1>1 DEF TurnInv
  <2>2. CASE dir = "req"
    <3>1. o = "res" /\ Turn' = given["req"] - 1
      BY <2>2 DEF Turn, Other
    <3>2. QED
      BY <1>1, <1>2, <2>1, <2>2, <3>1
  <2>3. CASE dir # "req"
    <3>1. o = "req" /\ Turn' = given["res"] /\ dir = "res"
      BY <1>2, <2>3 DEF Turn, Other, Directions
    <3>2. QED
      BY <1>1, <1>2, <2>1, <2>3, <3>1
  <2>4. QED
    BY <2>2, <2>3
<1>4. /\ Held' = <<>> /\ Alive' /\ Other(dir)' = dir
  BY <1>2 DEF Held, Alive, Other
<1>5. \A d \in Directions : Stream(d)' = Stream(d) /\ LengthTo(d, given[d])' = LengthTo(d, given[d])
  BY DEF Stream, LengthTo, Msg
<1>6. TypeOK'
  <2>1. <<>> \in Seq(Unit) /\ Len(<<>>) = 0 /\ HeadSpace \in Nat /\ 0 <= HeadSpace
    BY RelayAssumption
  <2>2. QED
    BY <1>1, <1>2, <2>1 DEF TypeOK, Unit
<1>7. TurnInv'
  BY <1>3 DEF TurnInv
<1>8. LengthInv'
  <2>1. PICK a, z : a = dir /\ z = o
    OBVIOUS
  <2> HIDE DEF o
  <2>2. Stream(a)' = Stream(a) /\ Stream(z)' = Stream(z)
    BY <1>2, <1>5, <2>1
  <2>3. /\ Len(out'[a]) = Len(Stream(a)') /\ pipe'[a] = <<>> /\ pipe'[z] = <<>>
        /\ Len(out'[z]) = Len(Stream(z)') /\ Len(Stream(z)') \in Nat
    BY <1>1, <1>2, <2>1, <2>2 DEF LengthInv, o
  <2>4. LengthTo(z, given[z]) = LengthTo(z, Turn') /\ Len(Stream(z)) = LengthTo(z, given[z])
    BY <1>2, <1>3, <2>1
  <2>5. Len(out'[z]) = LengthTo(z, Turn') + 0
    BY <2>2, <2>3, <2>4
  <2>6. LengthTo(z, Turn)' = LengthTo(z, Turn')
    BY DEF LengthTo, Msg
  <2>7. dir' = z /\ Other(z) = a
    BY <1>2, <2>1 DEF o
  <2>8. Other(dir)' = a
    BY <2>7 DEF Other
  <2>9. Stream(dir)' = Stream(z)' /\ Stream(Other(dir))' = Stream(a)' /\ LengthTo(dir, Turn)' = LengthTo(z, Turn)'
    BY <2>7, <2>8 DEF Stream, Msg, LengthTo
  <2>10. Len(out'[z]) + Len(<<>>) + Len(<<>>) = Len(Stream(z)')
    BY <2>3
  <2>11. pipe'[Other(dir)'] = <<>> /\ Len(out'[Other(dir)']) = Len(Stream(Other(dir))')
    BY <2>3, <2>8, <2>9
  <2>12. Len(out'[dir']) = LengthTo(dir, Turn)' + (IF pc' \in {"recv", "write"} THEN sent' ELSE 0)
    BY <2>5, <2>6, <2>7, <2>9
  <2>13. Len(out'[dir']) + Len(Held') + Len(pipe'[dir']) = Len(Stream(dir)')
    BY <1>4, <2>3, <2>7, <2>9, <2>10
  <2>14. Len(Stream(dir)') \in Nat
    BY <2>3, <2>9
  <2>15. Len(out'[dir']) + Len(Held') + Len(pipe'[dir']) <= Len(Stream(dir)')
    <3>1. \A m \in Nat : m <= m
      OBVIOUS
    <3>2. QED
      BY <2>13, <2>14, <3>1, Zenon
  <2>16. QED
    BY <2>11, <2>12, <2>13, <2>15, Zenon DEF LengthInv
<1>9. UnitsInv'
  <2>1. \A d \in Directions : \A i \in DOMAIN out'[d] :
           out'[d][i] \in {Stream(d)'[i]} \union Spoilt(d)'
    BY <1>5 DEF Spoilt
  <2>2. DOMAIN Held' = {} /\ DOMAIN pipe'[o] = {}
    BY <1>1, <1>4 DEF LengthInv
  <2>3. QED
    BY <2>1, <2>2 DEF UnitsInv
<1>10. MessageInv'
  <2>1. Len(<<>>) < HeadLen
    BY RelayAssumption
  <2>2. QED
    BY <2>1 DEF MessageInv, Accounted
<1>11. QED
  BY <1>6, <1>7, <1>8, <1>9, <1>10 DEF IInv

LEMMA NextSendHeader ==
    ASSUME IInv, SendHeader
    PROVE  IInv'
<1> DEFINE k == Turn + 1
           w == SubSeq(headders, 1, size)
           b == Len(out[dir])
           m == Len(Stream(dir))
           t == LengthTo(dir, Turn)
           c == Body[dir][k]
           h == Len(headders)
           p == Len(pipe[dir])
<1>1. /\ pc = "send" /\ Write(w) /\ Forwarded(size) /\ injected' = FALSE
      /\ UNCHANGED <<given, pipe, eof, chunk, remaining>>
  BY DEF SendHeader
<1>2. /\ TypeOK /\ TurnInv /\ LengthInv /\ UnitsInv /\ MessageInv /\ Alive /\ Held = headders
      /\ given[dir] = k
  BY <1>1 DEF IInv, Alive, Held, TurnInv
<1>3. /\ m = t + HeadLen + c /\ t \in Nat /\ c \in Nat /\ m \in Nat /\ HeadLen \in Nat \ {0}
      /\ dir \in Directions
  BY <1>2, AtMessage, Exchange, RelayAssumption
<1>4. /\ b = t + 0 /\ b + h + p <= m /\ (dir \notin eof => b + h + p = m)
      /\ total = HeadLen + c /\ size = HeadLen /\ HeadLen <= h
      /\ chunk = SubSeq(headders, size + 1, h) /\ remaining = total - h
  BY <1>1, <1>2 DEF LengthInv, MessageInv
<1>5. h \in Nat /\ p \in Nat /\ b \in Nat /\ headders \in Seq(Unit) /\ sent' = HeadLen
  <2>1. /\ headders \in Seq(Unit) /\ pipe \in [Directions -> Seq(Unit)]
        /\ out \in [Directions -> Seq(Unit)] /\ dir \in Directions
    BY <1>2 DEF TypeOK, Unit
  <2>2. h \in Nat /\ p \in Nat /\ b \in Nat
    BY ONLY <2>1
  <2>3. sent' = HeadLen
    BY <1>1, <1>4 DEF Forwarded
  <2>4. QED
    BY <2>1, <2>2, <2>3
<1>6. /\ w \in Seq(Unit) /\ Len(w) = HeadLen /\ \A i \in 1..Len(w) : w[i] = headders[i]
  <2>1. headders \in Seq(Unit) /\ HeadLen \in Nat /\ HeadLen <= Len(headders)
    BY <1>3, <1>4, <1>5
  <2>2. w = SubSeq(headders, 1, HeadLen)
    BY <1>4
  <2>3. /\ SubSeq(headders, 1, HeadLen) \in Seq(Unit) /\ Len(SubSeq(headders, 1, HeadLen)) = HeadLen
        /\ \A i \in 1..HeadLen : SubSeq(headders, 1, HeadLen)[i] = headders[i]
    BY ONLY <2>1
  <2>4. QED
    BY ONLY <2>2, <2>3
<1>7. /\ chunk \in Seq(Unit) /\ Len(chunk) = h - HeadLen
      /\ \A i \in 1..(h - HeadLen) : chunk[i] = headders[HeadLen + i]
  <2>1. HeadLen \in Nat /\ h \in Nat /\ HeadLen <= h /\ h <= Len(headders)
    BY <1>3, <1>4, <1>5
  <2>2. chunk = SubSeq(headders, HeadLen + 1, h)
    BY <1>4
  <2> HIDE DEF h
  <2>3. /\ SubSeq(headders, HeadLen + 1, h) \in Seq(Unit)
        /\ Len(SubSeq(headders, HeadLen + 1, h)) = h - HeadLen
        /\ \A i \in 1..(h - HeadLen) : SubSeq(headders, HeadLen + 1, h)[i] = headders[HeadLen + i]
    BY ONLY <1>5, <2>1, Part
  <2>4. QED
    BY ONLY <2>2, <2>3
<1> HIDE DEF w, b, m, t, c, p, h
<1>8. /\ out' \in [Directions -> Seq(Unit)]
      /\ out'[Other(dir)] = out[Other(dir)] /\ Len(out'[dir]) = b + HeadLen
      /\ \A d \in Directions : \A i \in DOMAIN out'[d] :
            out'[d][i] \in {Stream(d)[i]} \union Spoilt(d)
  <2>1. Len(w) <= Len(Held) /\ \A i \in 1..Len(w) : w[i] = Held[i]
    BY <1>2, <1>3, <1>4, <1>6 DEF h
  <2>2. QED
    BY <1>1, <1>2, <1>6, <2>1, Writing DEF b
<1>9. CASE c = 0
  <2>1. /\ h = HeadLen /\ p = 0 /\ b + HeadLen = m /\ HeadLen = total
    BY <1>3, <1>4, <1>5, <1>9
  <2>2. /\ pc' = "head" /\ dir' = Other(dir) /\ headders' = <<>> /\ size' = 0 /\ total' = 0
    BY <1>1, <1>3, <1>4, <2>1 DEF Forwarded
  <2>3. pipe[dir] = <<>>
    BY <1>2, <1>3, <2>1 DEF TypeOK, p
  <2>4. QED
    BY <1>1, <1>2, <1>3, <1>5, <1>7, <1>8, <2>1, <2>2, <2>3, PassOn DEF m
<1>10. CASE c # 0
  <2>1. size < total /\ size # total
    BY <1>3, <1>4, <1>10
  <2>2. pc' = "recv" /\ UNCHANGED <<dir, msgVars>>
    BY <1>1, <2>1 DEF Forwarded
  <2>3. TypeOK'
    BY <1>1, <1>2, <1>3, <1>5, <1>8, <2>2 DEF TypeOK, Unit, msgVars
  <2>4. /\ Turn' = Turn /\ LengthTo(dir, Turn)' = t
        /\ \A d \in Directions : Stream(d)' = Stream(d)
    BY <1>1, <2>2 DEF Turn, Stream, LengthTo, Msg, t
  <2>5. Held' = chunk /\ Alive'
    BY <1>1, <2>2 DEF Held, Alive
  <2>6. TurnInv'
    BY <1>1, <1>2, <2>2, <2>4 DEF TurnInv
  <2>7. LengthInv'
    <3>1. Len(out'[dir]) = t + sent' /\ Len(out'[dir]) + Len(chunk) + p = b + h + p
      <4>1. Len(out'[dir]) = t + sent'
        BY <1>3, <1>4, <1>5, <1>8
      <4>2. Len(out'[dir]) + Len(chunk) = (b + HeadLen) + (h - HeadLen)
        BY <1>7, <1>8
      <4>3. (b + HeadLen) + (h - HeadLen) = b + h
        BY <1>3, <1>5
      <4>4. QED
        BY <4>1, <4>2, <4>3
    <3>2. dir' = dir /\ Other(dir)' = Other(dir) /\ Other(dir) \in Directions
      BY <1>3, <2>2, Sides DEF Other
    <3>3. Stream(dir)' = Stream(dir) /\ Stream(Other(dir))' = Stream(Other(dir))
      BY <1>3, <2>4, <3>2
    <3>4. Len(out'[Other(dir)]) = Len(Stream(Other(dir))) /\ pipe[Other(dir)] = <<>>
      BY <1>2, <1>8 DEF LengthInv
    <3>5. Len(out'[dir]) + Len(chunk) + p <= m
          /\ (dir \notin eof => Len(out'[dir]) + Len(chunk) + p = m)
      BY <1>4, <3>1
    <3>6. QED
      BY <1>1, <2>2, <2>4, <2>5, <3>1, <3>2, <3>3, <3>4, <3>5, Zenon DEF LengthInv, m, p
  <2>8. UnitsInv'
    <3>1. \A d \in Directions : \A i \in DOMAIN out'[d] :
             out'[d][i] \in {Stream(d)'[i]} \union Spoilt(d)'
      BY <1>8, <2>4 DEF Spoilt
    <3>2. ASSUME NEW i \in DOMAIN chunk
          PROVE  chunk[i] = Stream(dir)[Len(out'[dir]) + i]
      <4>1. i \in 1..(h - HeadLen) /\ HeadLen + i \in DOMAIN headders
        BY <1>3, <1>4, <1>5, <1>7 DEF h
      <4>2. headders[HeadLen + i] = Stream(dir)[b + (HeadLen + i)]
        <5>1. \A j \in DOMAIN headders : headders[j] \in {Stream(dir)[b + j]}
          BY <1>1, <1>2, Zenon DEF UnitsInv, b
        <5>2. QED
          BY <4>1, <5>1, Zenon
      <4>3. b + (HeadLen + i) = Len(out'[dir]) + i
        BY <1>3, <1>5, <1>8, <4>1
      <4>4. QED
        BY <1>7, <4>1, <4>2, <4>3
    <3>3. ASSUME NEW i \in DOMAIN pipe[dir]
          PROVE  pipe[dir][i] = Stream(dir)[Len(out'[dir]) + Len(chunk) + i]
      <4>1. pipe[dir][i] = Stream(dir)[b + h + i]
        BY <1>2 DEF UnitsInv, b, h
      <4>2. b + h = Len(out'[dir]) + Len(chunk)
        BY <1>3, <1>5, <1>7, <1>8
      <4>3. QED
        BY <4>1, <4>2
    <3>4. Stream(dir)' = Stream(dir) /\ dir' = dir
      BY <1>3, <2>2, <2>4
    <3>5. QED
      BY <1>1, <2>2, <2>5, <3>1, <3>2, <3>3, <3>4 DEF UnitsInv
  <2>9. MessageInv'
    <3>1. dir' = dir /\ total' = total /\ chunk' = chunk /\ remaining' = remaining
      BY <1>1, <2>2 DEF msgVars
    <3>2. total' = HeadLen + Body[dir'][Turn' + 1] /\ sent' < total'
      BY <1>4, <1>5, <2>1, <2>4, <3>1 DEF c
    <3>3. h <= total
      BY <1>3, <1>4, <1>5
    <3>4. remaining >= 0 /\ remaining + Len(chunk) = total - HeadLen
      <4>1. total \in Nat
        BY <1>3, <1>4
      <4>2. remaining + Len(chunk) = (total - h) + (h - HeadLen)
        BY <1>4, <1>7
      <4>3. (total - h) + (h - HeadLen) = total - HeadLen /\ total - h >= 0
        BY <1>3, <1>5, <3>3, <4>1
      <4>4. QED
        BY <1>4, <4>2, <4>3
    <3>5. Accounted'
      BY <1>5, <3>1, <3>4 DEF Accounted
    <3>6. QED
      BY <2>2, <3>2, <3>5 DEF MessageInv
  <2>10. QED
    BY <2>3, <2>5, <2>6, <2>7, <2>8, <2>9 DEF IInv
<1>11. QED
  BY <1>9, <1>10

LEMMA NextSendChunk ==
    ASSUME IInv, SendChunk
    PROVE  IInv'
<1> DEFINE k == Turn + 1
           b == Len(out[dir])
           m == Len(Stream(dir))
           t == LengthTo(dir, Turn)
           c == Body[dir][k]
           h == Len(chunk)
           p == Len(pipe[dir])
           n == sent + h
<1>1. /\ pc = "write" /\ Write(chunk) /\ Forwarded(n) /\ chunk' = <<>>
      /\ UNCHANGED <<given, pipe, eof, remaining, injected>>
  BY DEF SendChunk
<1>2. /\ TypeOK /\ TurnInv /\ LengthInv /\ UnitsInv /\ MessageInv /\ Alive /\ Held = chunk
      /\ given[dir] = k
  BY <1>1 DEF IInv, Alive, Held, TurnInv
<1>3. /\ m = t + HeadLen + c /\ t \in Nat /\ c \in Nat /\ m \in Nat /\ HeadLen \in Nat \ {0}
      /\ dir \in Directions
  BY <1>2, AtMessage, Exchange, RelayAssumption
<1>4. /\ b = t + sent /\ b + h + p <= m /\ (dir \notin eof => b + h + p = m)
      /\ total = HeadLen + c /\ remaining >= 0 /\ remaining + h = total - sent
  BY <1>1, <1>2 DEF LengthInv, MessageInv, Accounted
<1>5. h \in Nat /\ p \in Nat /\ b \in Nat /\ sent \in Nat /\ n \in Nat /\ total \in Nat
      /\ remaining \in Int /\ chunk \in Seq(Unit)
  <2>1. /\ chunk \in Seq(Unit) /\ pipe \in [Directions -> Seq(Unit)]
        /\ out \in [Directions -> Seq(Unit)] /\ dir \in Directions
    BY <1>2 DEF TypeOK, Unit
  <2>2. h \in Nat /\ p \in Nat /\ b \in Nat
    BY ONLY <2>1
  <2>3. sent \in Nat /\ total \in Nat /\ remaining \in Int
    BY <1>2 DEF TypeOK
  <2>4. QED
    BY <2>1, <2>2, <2>3
<1> HIDE DEF b, m, t, c, p, h
<1>6. /\ out' \in [Directions -> Seq(Unit)]
      /\ out'[Other(dir)] = out[Other(dir)] /\ Len(out'[dir]) = b + h
      /\ \A d \in Directions : \A i \in DOMAIN out'[d] :
            out'[d][i] \in {Stream(d)[i]} \union Spoilt(d)
  <2>1. Len(chunk) <= Len(Held) /\ \A i \in 1..Len(chunk) : chunk[i] = Held[i]
    BY <1>2, <1>5 DEF h
  <2>2. QED
    BY <1>1, <1>2, <1>5, <2>1, Writing DEF b, h
<1>7. sent' = n
  BY <1>1 DEF Forwarded
<1>8. n <= total /\ total - n = remaining
  BY <1>4, <1>5, SMTT(30)
<1>9. /\ <<>> \in Seq(Unit) /\ DOMAIN <<>> = {}
  OBVIOUS
<1>10. CASE n = total
  <2>1. b + h = m /\ p = 0
    BY <1>3, <1>4, <1>5, <1>10
  <2>2. /\ pc' = "head" /\ dir' = Other(dir) /\ headders' = <<>> /\ size' = 0 /\ total' = 0
    <3>1. ~(n < total)
      BY <1>5, <1>10
    <3>2. QED
      BY <1>1, <1>10, <3>1 DEF Forwarded
  <2>3. pipe[dir] = <<>>
    BY <1>2, <1>3, <2>1 DEF TypeOK, p
  <2>4. injected' \in BOOLEAN
    BY <1>1, <1>2 DEF TypeOK
  <2>5. QED
    BY <1>1, <1>2, <1>3, <1>5, <1>6, <1>7, <1>9, <2>1, <2>2, <2>3, <2>4, PassOn DEF m
<1>11. CASE n < total
  <2>1. pc' = "recv" /\ UNCHANGED <<dir, msgVars>>
    BY <1>1, <1>11 DEF Forwarded
  <2>2. TypeOK'
    BY <1>1, <1>2, <1>5, <1>6, <1>7, <1>9, <2>1 DEF TypeOK, Unit, msgVars
  <2>3. /\ Turn' = Turn /\ LengthTo(dir, Turn)' = t
        /\ \A d \in Directions : Stream(d)' = Stream(d)
    BY <1>1, <2>1 DEF Turn, Stream, LengthTo, Msg, t
  <2>4. Held' = <<>> /\ Alive' /\ Len(Held') = 0
    BY <1>1, <1>9, <2>1 DEF Held, Alive
  <2>5. TurnInv'
    BY <1>1, <1>2, <2>1, <2>3 DEF TurnInv
  <2>6. LengthInv'
    <3>1. Len(out'[dir]) = t + sent' /\ Len(out'[dir]) + 0 + p = b + h + p
      <4>1. b = t + sent /\ sent' = sent + h /\ Len(out'[dir]) = b + h
        BY <1>4, <1>6, <1>7, Zenon
      <4>2. t \in Nat /\ sent \in Nat /\ h \in Nat /\ b \in Nat /\ p \in Nat
        BY <1>3, <1>5, Zenon
      <4>3. QED
        BY ONLY <4>1, <4>2
    <3>2. dir' = dir /\ Other(dir)' = Other(dir) /\ Other(dir) \in Directions
      BY <1>3, <2>1, Sides DEF Other
    <3>3. Stream(dir)' = Stream(dir) /\ Stream(Other(dir))' = Stream(Other(dir))
      BY <1>3, <2>3, <3>2
    <3>4. Len(out'[Other(dir)]) = Len(Stream(Other(dir))) /\ pipe[Other(dir)] = <<>>
      BY <1>2, <1>6 DEF LengthInv
    <3>5. Len(out'[dir]) + Len(Held') + p <= m
          /\ (dir \notin eof => Len(out'[dir]) + Len(Held') + p = m)
      BY <1>4, <2>4, <3>1
    <3>6. QED
      BY <1>1, <2>1, <2>3, <3>1, <3>2, <3>3, <3>4, <3>5, Zenon DEF LengthInv, m, p
  <2>7. UnitsInv'
    <3>1. \A d \in Directions : \A i \in DOMAIN out'[d] :
             out'[d][i] \in {Stream(d)'[i]} \union Spoilt(d)'
      BY <1>6, <2>3 DEF Spoilt
    <3>2. ASSUME NEW i \in DOMAIN pipe[dir]
          PROVE  pipe[dir][i] = Stream(dir)[Len(out'[dir]) + Len(Held') + i]
      <4>1. pipe[dir][i] = Stream(dir)[b + h + i]
        BY <1>2 DEF UnitsInv, b, h
      <4>2. b + h = Len(out'[dir]) + Len(Held')
        BY <1>5, <1>6, <2>4
      <4>3. QED
        BY <4>1, <4>2
    <3>3. Stream(dir)' = Stream(dir) /\ dir' = dir
      BY <1>3, <2>1, <2>3
    <3>4. DOMAIN Held' = {}
      BY <1>9, <2>4
    <3>5. QED
      BY <1>1, <3>1, <3>2, <3>3, <3>4 DEF UnitsInv
  <2>8. MessageInv'
    <3>1. dir' = dir /\ total' = total /\ Len(chunk') = 0 /\ remaining' = remaining
      BY <1>1, <1>9, <2>1 DEF msgVars
    <3>2. total' = HeadLen + Body[dir'][Turn' + 1] /\ sent' < total'
      BY <1>4, <1>7, <1>11, <2>3, <3>1 DEF c
    <3>3. remaining >= 0 /\ remaining + 0 = total - n
      BY <1>4, <1>5, <1>8
    <3>4. Accounted'
      BY <1>7, <3>1, <3>3 DEF Accounted
    <3>5. QED
      BY <2>1, <3>2, <3>4 DEF MessageInv
  <2>9. QED
    BY <2>2, <2>4, <2>5, <2>6, <2>7, <2>8 DEF IInv
<1>12. QED
  BY <1>5, <1>8, <1>10, <1>11

-----------------------------------------------------------------------------
(* A message is sent only in the direction the relay waits for, when it    *)
(* has nothing of it.                                                      *)
LEMMA Given ==
    ASSUME Orderly, IInv, Alive, NEW d \in Directions, Give(d)
    PROVE  d = dir /\ given[d] = Turn
<1> DEFINE k == given[d] + 1
           n == Turn + 1
<1>1. TypeOK /\ TurnInv /\ LengthInv /\ MessageInv
  BY DEF IInv
<1>2. /\ k <= Messages
      /\ IF d = "req" THEN Len(out["res"]) >= LengthTo("res", given["req"])
                      ELSE k <= given["req"] /\ Len(out["req"]) >= LengthTo("req", k)
  BY DEF Give, Orderly
<1>3. /\ dir \in Directions /\ Turn \in 0..Messages /\ given[dir] \in {Turn, n}
      /\ given[Other(dir)] = IF dir = "req" THEN Turn ELSE n
      /\ \A e \in Directions : given[e] \in 0..Messages /\ LengthTo(e, given[e]) \in Nat
                               /\ Len(Stream(e)) = LengthTo(e, given[e])
                               /\ LengthTo(e, Turn) \in Nat
  BY <1>1, Exchange
<1>4. n \in 1..Messages => \A e \in Directions : /\ LengthTo(e, n) \in Nat
                                                /\ Body[e][n] \in Nat
                                                /\ LengthTo(e, n) = LengthTo(e, Turn) + HeadLen + Body[e][n]
  <2> SUFFICES ASSUME n \in 1..Messages, NEW e \in Directions
               PROVE  /\ LengthTo(e, n) \in Nat /\ Body[e][n] \in Nat
                      /\ LengthTo(e, n) = LengthTo(e, Turn) + HeadLen + Body[e][n]
    OBVIOUS
  <2>1. PICK j, i : j = n /\ i = Turn
    OBVIOUS
  <2>2. j \in 1..Messages /\ i \in 0..Messages /\ j = i + 1
    BY <1>3, <2>1
  <2>3. LengthTo(e, j) \in Nat /\ LengthTo(e, j) = LengthTo(e, i) + HeadLen + Body[e][j]
    BY ONLY <2>2, e \in Directions, StreamFacts
  <2>4. Body[e][j] \in Nat
    BY <2>2, RelayAssumption
  <2>5. QED
    BY <2>1, <2>3, <2>4
<1>5. HeadLen \in Nat \ {0} /\ Messages \in Nat
  BY RelayAssumption
<1>6. CASE d = "req" /\ dir = "req"
  <2>1. SUFFICES ASSUME given["req"] = n PROVE FALSE
    BY <1>3, <1>6
  <2>2. Len(out["res"]) = LengthTo("res", Turn) /\ "res" \in Directions
    BY <1>1, <1>3, <1>6 DEF LengthInv, Other, Directions
  <2>3. n \in 1..Messages
    BY <1>3, <1>6, <2>1
  <2>4. LengthTo("res", Turn) >= LengthTo("res", n)
    BY <1>2, <1>6, <2>1, <2>2
  <2>5. /\ LengthTo("res", Turn) \in Nat /\ Body["res"][n] \in Nat
        /\ LengthTo("res", n) = LengthTo("res", Turn) + HeadLen + Body["res"][n]
    BY <1>3, <1>4, <2>2, <2>3
  <2>6. QED
    BY <1>5, <2>4, <2>5
<1>7. CASE d = "res" /\ dir = "res"
  <2>1. given["req"] = n
    BY <1>3, <1>7 DEF Other
  <2>2. given["res"] + 1 <= n /\ given["res"] \in {Turn, n} /\ Turn \in Nat
    BY <1>2, <1>3, <1>7, <2>1
  <2>3. given["res"] = Turn
    BY <2>2
  <2>4. QED
    BY <1>7, <2>3
<1>8. CASE d # dir
  <2>1. d = Other(dir) /\ "req" \in Directions /\ "res" \in Directions
    BY <1>3, <1>8 DEF Directions, Other
  <2>2. given["req"] = n
    <3>1. CASE d = "req"
      BY <1>3, <2>1, <3>1 DEF Other
    <3>2. CASE d # "req"
      <4>1. dir = "req" /\ given[d] = Turn /\ Turn + 1 <= given["req"]
        BY <1>2, <1>3, <2>1, <3>2 DEF Other, Directions
      <4>2. QED
        BY <1>3, <4>1
    <3>3. QED
      BY <3>1, <3>2
  <2>3. n \in 1..Messages
    <3>1. given["req"] \in 0..Messages /\ Turn \in 0..Messages
      BY <1>3, <2>1
    <3>2. QED
      BY <1>5, <2>2, <3>1
  <2>4. Len(out[dir]) >= LengthTo(dir, n)
    <3>1. CASE d = "req"
      BY <1>2, <1>3, <2>1, <3>1 DEF Other, Directions
    <3>2. CASE d # "req"
      BY <1>2, <1>3, <2>1, <3>2 DEF Other, Directions
    <3>3. QED
      BY <3>1, <3>2
  <2>5. Len(out[dir]) = LengthTo(dir, Turn) + (IF pc \in {"recv", "write"} THEN sent ELSE 0)
    BY <1>1 DEF LengthInv
  <2>6. pc \in {"recv", "write"} => sent \in Nat /\ sent < HeadLen + Body[dir][n]
    BY <1>1 DEF MessageInv, TypeOK
  <2>7. QED
    BY <1>3, <1>4, <1>5, <2>3, <2>4, <2>5, <2>6, SMTT(30)
<1>9. QED
  BY <1>3, <1>6, <1>7, <1>8 DEF Directions

LEMMA NextGive ==
    ASSUME Orderly, IInv, NEW d \in Directions, Give(d)
    PROVE  IInv'
<1>1. PICK k : k = given[d] + 1
  OBVIOUS
<1>2. /\ k <= Messages /\ given' = [given EXCEPT ![d] = k]
      /\ pipe' = [pipe EXCEPT ![d] = pipe[d] \o Msg(d, k)]
      /\ UNCHANGED <<pc, dir, eof, out, msgVars, chunk, remaining, sent, injected>>
  BY <1>1 DEF Give
<1>3. TypeOK /\ given[d] \in 0..Messages /\ pipe[d] \in Seq(Unit)
  BY DEF IInv, TypeOK, Unit
<1>4. k \in 1..Messages /\ k \in 0..Messages /\ given[d] \in Nat
  BY <1>1, <1>2, <1>3, RelayAssumption
<1>5. /\ Msg(d, k) \in Seq(Unit) /\ Body[d][k] \in Nat
      /\ Len(Msg(d, k)) = HeadLen + Body[d][k] /\ HeadLen \in Nat
      /\ \A i \in 1..(HeadLen + Body[d][k]) : Msg(d, k)[i] = <<k, i>>
  BY <1>4, MsgFacts, RelayAssumption
<1>6. pipe[d] \o Msg(d, k) \in Seq(Unit)
  BY <1>3, <1>5, Joined
<1>7. TypeOK'
  BY <1>2, <1>3, <1>4, <1>6 DEF TypeOK, Unit, msgVars
<1>8. CASE ~Alive
  BY <1>2, <1>7, <1>8 DEF IInv, Alive
<1>9. CASE Alive
  <2>1. d = dir /\ given[d] = Turn /\ k = Turn + 1
    BY <1>1, <1>9, Given
  <2>2. TurnInv /\ LengthInv /\ UnitsInv /\ MessageInv /\ Turn \in Nat
    BY <1>9 DEF IInv, TurnInv
  <2>3. pc = "head" /\ Held = headders
    <3>1. given[dir] # Turn + 1
      BY <2>1, <2>2
    <3>2. QED
      BY <2>2, <3>1 DEF TurnInv, Held
  <2>4. PICK o : o = Other(d)
    OBVIOUS
  <2>5. o \in Directions /\ o # d /\ Other(dir) = o
    BY <2>1, <2>4, Sides
  <2> DEFINE b == Len(out[d])
             t == LengthTo(d, Turn)
  <2>6. /\ Len(Stream(d)) = t /\ t \in Nat /\ Stream(d) = Upto(d, Turn)
    BY <1>3, <2>1, <2>2, Exchange
  <2>7. Len(headders) \in Nat /\ Len(pipe[d]) \in Nat /\ headders \in Seq(Unit)
    <3>1. headders \in Seq(Unit)
      BY <1>3 DEF TypeOK, Unit
    <3>2. QED
      BY ONLY <1>3, <3>1
  <2>8. b = t + 0 /\ b + Len(headders) + Len(pipe[d]) <= t
    BY <2>1, <2>2, <2>3, <2>6 DEF LengthInv
  <2>9. Len(headders) = 0 /\ Len(pipe[d]) = 0 /\ b = t
    <3>1. PICK n, p : n = Len(headders) /\ p = Len(pipe[d])
      OBVIOUS
    <3> HIDE DEF b, t
    <3>2. n \in Nat /\ p \in Nat /\ b = t + 0 /\ b + n + p <= t
      BY <2>7, <2>8, <3>1
    <3>3. n = 0 /\ p = 0 /\ b = t
      BY ONLY <2>6, <3>2
    <3>4. QED
      BY <3>1, <3>3
  <2>10. headders = <<>> /\ pipe[d] = <<>>
    BY ONLY <1>3, <2>7, <2>9
  <2>11. /\ pipe'[d] = Msg(d, k) /\ pipe'[o] = pipe[o]
         /\ given'[d] = k /\ given'[o] = given[o]
    <3>1. pipe[d] \o Msg(d, k) = Msg(d, k)
      BY <1>5, <2>10
    <3>2. pipe \in [Directions -> Seq(Nat \X Nat)] /\ given \in [Directions -> 0..Messages]
      BY <1>3 DEF TypeOK
    <3>3. QED
      BY <1>2, <2>5, <3>1, <3>2
  <2>12. Turn' = Turn
    <3>1. CASE d = "req"
      <4>1. o = "res"
        BY <2>4, <3>1 DEF Other
      <4>2. QED
        BY <1>2, <2>1, <2>11, <3>1, <4>1 DEF Turn
    <3>2. CASE d # "req"
      <4>1. o = "req"
        BY <2>4, <3>2 DEF Other
      <4>2. QED
        BY <1>2, <2>1, <2>11, <3>2, <4>1 DEF Turn
    <3>3. QED
      BY <3>1, <3>2
  <2>13. /\ Stream(o)' = Stream(o) /\ Stream(d)' = Upto(d, k)
         /\ LengthTo(d, Turn)' = t
    BY <2>11, <2>12 DEF Stream, Upto, LengthTo, Msg
  <2>14. /\ Len(Upto(d, k)) = t + HeadLen + Body[d][k]
         /\ \A i \in 1..t : Upto(d, k)[i] = Upto(d, Turn)[i]
         /\ \A i \in 1..(HeadLen + Body[d][k]) : Upto(d, k)[t + i] = <<k, i>>
    <3>1. PICK j : j = Turn
      OBVIOUS
    <3>2. j \in 0..Messages /\ k = j + 1
      BY <1>3, <2>1, <3>1
    <3>3. /\ LengthTo(d, k) = LengthTo(d, j) + HeadLen + Body[d][k]
          /\ \A i \in 1..LengthTo(d, j) : Upto(d, k)[i] = Upto(d, j)[i]
          /\ \A i \in 1..(HeadLen + Body[d][k]) : Upto(d, k)[LengthTo(d, j) + i] = <<k, i>>
      BY ONLY <1>4, <3>2, d \in Directions, StreamFacts
    <3>4. Len(Upto(d, k)) = LengthTo(d, k)
      BY DEF Upto, LengthTo
    <3>5. QED
      BY <3>1, <3>3, <3>4
  <2>15. Held' = <<>> /\ Alive' /\ Len(<<>>) = 0
    BY <1>2, <2>3, <2>10 DEF Held, Alive, msgVars
  <2>16. TurnInv'
    BY <1>2, <2>1, <2>2, <2>3, <2>11, <2>12 DEF TurnInv
  <2>17. Other(dir)' = o /\ Stream(dir)' = Upto(d, k) /\ Stream(Other(dir))' = Stream(o)
    <3>1. dir' = d /\ Other(dir)' = o
      BY <1>2, <2>1, <2>5 DEF Other
    <3>2. Stream(dir)' = Stream(d)' /\ Stream(Other(dir))' = Stream(o)'
      BY <3>1 DEF Stream, Msg
    <3>3. QED
      BY <2>13, <3>1, <3>2
  <2>18. LengthInv'
    <3>1. pipe'[o] = <<>> /\ Len(out'[o]) = Len(Stream(o))
      BY <1>2, <2>2, <2>5, <2>11 DEF LengthInv
    <3>2. Len(out'[d]) = t + 0 /\ pc' = "head" /\ dir' = d
      BY <1>2, <2>1, <2>3, <2>8
    <3>3. Len(out'[d]) + Len(Held') + Len(pipe'[d]) = Len(Upto(d, k))
      <4>1. Len(out'[d]) = t /\ Len(Held') = 0 /\ Len(pipe'[d]) = HeadLen + Body[d][k]
        BY <1>2, <1>5, <2>9, <2>11, <2>15
      <4> HIDE DEF t
      <4>2. t + 0 + (HeadLen + Body[d][k]) = t + HeadLen + Body[d][k]
        BY ONLY <1>5, <2>6
      <4>3. QED
        BY <2>14, <4>1, <4>2
    <3>4. Len(Upto(d, k)) \in Nat
      <4> HIDE DEF t
      <4>1. QED
        BY <1>5, <2>6, <2>14
    <3>5. Len(out'[d]) + Len(Held') + Len(pipe'[d]) <= Len(Upto(d, k))
      <4>1. \A m \in Nat : m <= m
        OBVIOUS
      <4>2. QED
        BY <3>3, <3>4, <4>1, Zenon
    <3>6. LengthTo(dir, Turn)' = t
      <4>1. LengthTo(dir, Turn)' = LengthTo(d, Turn)'
        BY <3>2 DEF LengthTo, Msg
      <4>2. QED
        BY <2>13, <4>1
    <3> HIDE DEF t
    <3>7. Len(out'[d]) = t + (IF pc' \in {"recv", "write"} THEN sent' ELSE 0)
      BY <3>2
    <3>8. QED
      BY <2>17, <3>1, <3>2, <3>3, <3>5, <3>6, <3>7, Zenon DEF LengthInv
  <2>19. UnitsInv'
    <3>1. ASSUME NEW e \in Directions, NEW i \in DOMAIN out'[e]
          PROVE  out'[e][i] \in {Stream(e)'[i]} \union Spoilt(e)'
      <4>1. out'[e][i] \in {Stream(e)[i]} \union Spoilt(e) /\ i \in DOMAIN out[e] /\ Spoilt(e)' = Spoilt(e)
        BY <1>2, <2>2, <3>1 DEF UnitsInv, Spoilt
      <4>2. CASE e = d
        <5>1. i \in 1..t
          <6>1. out \in [Directions -> Seq(Nat \X Nat)]
            BY <1>3 DEF TypeOK
          <6>2. DOMAIN out[e] = 1..b
            BY <4>2, <6>1
          <6>3. QED
            BY <2>9, <4>1, <6>2
        <5>2. Stream(e)'[i] = Stream(e)[i]
          BY <2>6, <2>13, <2>14, <4>2, <5>1
        <5>3. QED
          BY <4>1, <5>2
      <4>3. CASE e # d
        <5>1. e = o
          BY <2>4, <4>3 DEF Other, Directions
        <5>2. QED
          BY <2>13, <4>1, <5>1
      <4>4. QED
        BY <4>2, <4>3
    <3>2. ASSUME NEW i \in DOMAIN pipe'[d]
          PROVE  pipe'[d][i] = Upto(d, k)[Len(out'[d]) + Len(Held') + i]
      <4>1. i \in 1..(HeadLen + Body[d][k]) /\ pipe'[d][i] = <<k, i>>
        <5>1. DOMAIN Msg(d, k) = 1..(HeadLen + Body[d][k])
          BY ONLY <1>5
        <5>2. i \in 1..(HeadLen + Body[d][k])
          BY <2>11, <5>1
        <5>3. QED
          BY <1>5, <2>11, <5>2
      <4>2. Len(out'[d]) + Len(Held') + i = t + i
        <5>1. Len(out'[d]) = t /\ Len(Held') = 0
          BY <1>2, <2>9, <2>15
        <5> HIDE DEF t
        <5>2. t + 0 + i = t + i
          BY <1>5, <2>6, <4>1
        <5>3. QED
          BY <5>1, <5>2
      <4>3. QED
        BY <2>14, <4>1, <4>2
    <3>3. DOMAIN Held' = {} /\ dir' = d
      BY <1>2, <2>1, <2>15
    <3>4. QED
      BY <2>17, <3>1, <3>2, <3>3 DEF UnitsInv
  <2>20. MessageInv'
    <3>1. pc' = "head" /\ Len(headders') < HeadLen
      BY <1>2, <2>2, <2>3 DEF MessageInv, msgVars
    <3>2. QED
      BY <3>1 DEF MessageInv, Accounted
  <2>21. QED
    BY <1>7, <2>16, <2>18, <2>19, <2>20 DEF IInv
<1>10. QED
  BY <1>8, <1>9

LEMMA NextClose ==
    ASSUME IInv, NEW d \in Directions, NEW n \in 0..(Messages * HeadSpace), Close(d, n)
    PROVE  IInv'
<1>1. /\ n \in 0..Len(pipe[d]) /\ eof' = eof \union {d}
      /\ pipe' = [pipe EXCEPT ![d] = SubSeq(pipe[d], 1, n)]
      /\ UNCHANGED <<pc, dir, given, out, msgVars, chunk, remaining, sent, injected>>
  BY DEF Close
<1>2. TypeOK /\ pipe[d] \in Seq(Unit) /\ dir \in Directions
  BY DEF IInv, TypeOK, Unit
<1> DEFINE q == SubSeq(pipe[d], 1, n)
<1>3. /\ q \in Seq(Unit) /\ Len(q) = n /\ DOMAIN q = 1..n /\ \A i \in 1..n : q[i] = pipe[d][i]
      /\ n \in Nat /\ n <= Len(pipe[d]) /\ DOMAIN pipe[d] = 1..Len(pipe[d]) /\ Len(pipe[d]) \in Nat
  BY <1>1, <1>2
<1> HIDE DEF q
<1>4. /\ pipe'[d] = q /\ \A e \in Directions : e # d => pipe'[e] = pipe[e]
      /\ pipe' \in [Directions -> Seq(Unit)]
  BY <1>1, <1>2, <1>3 DEF TypeOK, Unit, q
<1>5. TypeOK'
  BY <1>1, <1>2, <1>4 DEF TypeOK, Unit, msgVars
<1>6. CASE ~Alive
  BY <1>1, <1>5, <1>6 DEF IInv, Alive
<1>7. CASE Alive
  <2>1. TurnInv /\ LengthInv /\ UnitsInv /\ MessageInv
    BY <1>7 DEF IInv
  <2>2. /\ Turn' = Turn /\ Held' = Held /\ Other(dir)' = Other(dir) /\ Alive'
        /\ Stream(dir)' = Stream(dir) /\ Stream(Other(dir))' = Stream(Other(dir))
        /\ LengthTo(dir, Turn)' = LengthTo(dir, Turn)
        /\ \A e \in Directions : Stream(e)' = Stream(e)
    BY <1>1, <1>7 DEF Turn, Held, Other, Alive, Stream, Msg, LengthTo, msgVars
  <2>3. TurnInv' /\ MessageInv'
    BY <1>1, <2>1, <2>2 DEF TurnInv, MessageInv, Accounted, msgVars
  <2>4. /\ Held \in Seq(Unit) /\ Len(Held) \in Nat /\ Len(out[dir]) \in Nat
        /\ Len(pipe[dir]) \in Nat
    <3>1. /\ Held \in Seq(Unit) /\ out \in [Directions -> Seq(Unit)]
          /\ pipe \in [Directions -> Seq(Unit)]
      BY <1>2 DEF TypeOK, Held, Unit
    <3>2. QED
      BY ONLY <1>2, <3>1
  <2>5. ASSUME d # dir
        PROVE  n = 0 /\ q = <<>> /\ d = Other(dir)
    <3>1. d = Other(dir) /\ pipe[d] = <<>>
      BY <1>2, <2>1, <2>5 DEF Directions, Other, LengthInv
    <3>2. n = 0
      BY <1>3, <3>1
    <3>3. QED
      BY <1>3, <3>1, <3>2
  <2>6. pipe'[Other(dir)] = <<>>
    <3>1. CASE d = dir
      BY <1>2, <1>4, <2>1, <3>1, Sides DEF LengthInv
    <3>2. CASE d # dir
      BY <1>4, <2>5, <3>2
    <3>3. QED
      BY <3>1, <3>2
  <2>7. /\ Len(pipe'[dir]) \in Nat /\ Len(pipe'[dir]) <= Len(pipe[dir])
        /\ dir \notin eof' => pipe'[dir] = pipe[dir] /\ dir \notin eof
        /\ \A i \in DOMAIN pipe'[dir] : i \in DOMAIN pipe[dir] /\ pipe'[dir][i] = pipe[dir][i]
    <3>1. CASE d = dir
      <4>1. pipe'[dir] = q /\ dir \in eof'
        BY <1>1, <1>4, <3>1
      <4>2. \A i \in DOMAIN q : i \in DOMAIN pipe[dir] /\ q[i] = pipe[dir][i]
        BY <1>3, <3>1
      <4>3. QED
        BY <1>3, <3>1, <4>1, <4>2
    <3>2. CASE d # dir
      <4>1. pipe'[dir] = pipe[dir]
        BY <1>2, <1>4, <3>2
      <4>2. Len(pipe[dir]) <= Len(pipe[dir])
        BY <2>4
      <4>3. QED
        BY <1>1, <2>4, <3>2, <4>1, <4>2
    <3>3. QED
      BY <3>1, <3>2
  <2>8. LengthInv'
    <3>1. PICK a, h, p, r : a = Len(out[dir]) /\ h = Len(Held) /\ p = Len(pipe[dir])
                            /\ r = Len(pipe'[dir])
      OBVIOUS
    <3>2. PICK m : m = Len(Stream(dir))
      OBVIOUS
    <3>3. a \in Nat /\ h \in Nat /\ p \in Nat /\ r \in Nat /\ r <= p /\ m \in Nat
      BY <1>2, <2>1, <2>4, <2>7, <3>1, <3>2, Exchange
    <3>4. a + h + p <= m /\ (dir \notin eof => a + h + p = m)
      BY <2>1, <3>1, <3>2 DEF LengthInv
    <3>5. a + h + r <= m
      BY ONLY <3>3, <3>4
    <3>6. dir \notin eof' => a + h + r = m
      BY <2>7, <3>1, <3>4
    <3>7. /\ Len(out'[dir']) = a /\ Len(Held') = h /\ Len(pipe'[dir']) = r
          /\ dir' = dir /\ pc' = pc /\ sent' = sent /\ out' = out
      BY <1>1, <2>2, <3>1
    <3>8. /\ Len(out[Other(dir)]) = Len(Stream(Other(dir)))
          /\ a = LengthTo(dir, Turn) + (IF pc \in {"recv", "write"} THEN sent ELSE 0)
      BY <2>1, <3>1 DEF LengthInv
    <3>9. QED
      BY <2>2, <2>6, <3>2, <3>5, <3>6, <3>7, <3>8, Zenon DEF LengthInv
  <2>9. UnitsInv'
    <3>1. \A e \in Directions : \A i \in DOMAIN out'[e] :
             out'[e][i] \in {Stream(e)'[i]} \union Spoilt(e)'
      BY <1>1, <2>1, <2>2 DEF UnitsInv, Spoilt
    <3>2. /\ \A i \in DOMAIN Held :
                Held[i] \in {Stream(dir)[Len(out[dir]) + i]}
                              \union (IF pc \in {"recv", "write"} THEN Spoilt(dir) ELSE {})
          /\ \A i \in DOMAIN pipe[dir] : pipe[dir][i] = Stream(dir)[Len(out[dir]) + Len(Held) + i]
      BY <2>1 DEF UnitsInv
    <3>3. Spoilt(dir)' = Spoilt(dir) /\ out'[dir'] = out[dir] /\ dir' = dir /\ pc' = pc
      BY <1>1 DEF Spoilt
    <3>4. \A i \in DOMAIN pipe'[dir] :
             pipe'[dir][i] = Stream(dir)[Len(out[dir]) + Len(Held) + i]
      BY <2>7, <3>2
    <3>5. QED
      BY <2>2, <3>1, <3>2, <3>3, <3>4 DEF UnitsInv
  <2>10. QED
    BY <1>5, <2>3, <2>8, <2>9 DEF IInv
<1>8. QED
  BY <1>6, <1>7

-----------------------------------------------------------------------------
LEMMA Unchanged == ASSUME IInv, UNCHANGED vars PROVE IInv'
<1>1. /\ TypeOK' = TypeOK /\ Alive' = Alive
  BY DEF vars, msgVars, TypeOK, Alive
<1>2. /\ Turn' = Turn /\ Held' = Held /\ Other(dir)' = Other(dir)
      /\ Stream(dir)' = Stream(dir) /\ Stream(Other(dir))' = Stream(Other(dir))
      /\ LengthTo(dir, Turn)' = LengthTo(dir, Turn)
      /\ \A e \in Directions : Stream(e)' = Stream(e) /\ Spoilt(e)' = Spoilt(e)
      /\ Spoilt(dir)' = Spoilt(dir)
  BY DEF vars, msgVars, Turn, Held, Other, Stream, Msg, LengthTo, Spoilt
<1>3. TurnInv => TurnInv'
  BY <1>2 DEF vars, msgVars, TurnInv
<1>4. LengthInv => LengthInv'
  BY <1>2, Zenon DEF vars, msgVars, LengthInv
<1>5. UnitsInv => UnitsInv'
  BY <1>2 DEF vars, msgVars, UnitsInv
<1>6. MessageInv => MessageInv'
  BY <1>2 DEF vars, msgVars, MessageInv, Accounted
<1>7. QED
  BY <1>1, <1>3, <1>4, <1>5, <1>6 DEF IInv

(* Between peers that keep to HTTP, whatever the reads, the closings and   *)
(* the injections: the relay's state is the accounts of one message of one *)
(* direction, and the other is at rest.  (All of c_proxy_handle_client(),  *)
(* cmon_proxy.c 62-213, and c_http_get_message(), cmon_http.c 532-594.)    *)
THEOREM Invariance ==
    ASSUME Orderly
    PROVE  Spec => []IInv
<1>1. Init => IInv
  BY InitIInv
<1>2. IInv /\ [Next]_vars => IInv'
  <2> SUFFICES ASSUME IInv, [Next]_vars PROVE IInv'
    OBVIOUS
  <2>1. CASE \E n \in 1..HeadSpace : ReadHeader(n)
    BY <2>1, NextReadHeader
  <2>2. CASE NoHeader \/ Overrun \/ Killed \/ WriteFails
    BY <2>2, NextAtRest
  <2>3. CASE SendHeader
    BY <2>3, NextSendHeader
  <2>4. CASE NoRead
    BY <2>4, NextNoRead
  <2>5. CASE \E n \in 1..ChunkSpace : ReadBody(n)
    BY <2>5, NextReadBody
  <2>6. CASE SendChunk
    BY <2>6, NextSendChunk
  <2>7. CASE \E d \in Directions : Give(d)
    BY <2>7, NextGive
  <2>8. CASE \E d \in Directions, n \in 0..(Messages * HeadSpace) : Close(d, n)
    BY <2>8, NextClose
  <2>9. CASE UNCHANGED vars
    BY <2>9, Unchanged
  <2>10. QED
    BY <2>1, <2>2, <2>3, <2>4, <2>5, <2>6, <2>7, <2>8, <2>9 DEF Next, Relay, Peers
<1>3. QED
  BY <1>1, <1>2, PTL DEF Spec

(* What the relay holds is bounded and what it counts has its sign.        *)
THEOREM TypeCorrect ==
    ASSUME Orderly
    PROVE  Spec => []TypeOK
<1>1. IInv => TypeOK
  BY DEF IInv
<1>2. Spec => []IInv
  BY Invariance
<1>3. QED
  BY <1>1, <1>2, PTL

(* A body of any length, read and forwarded in chunks of any size, with or *)
(* without an injection in it: what has been written, what is held and     *)
(* what is still to be read are the stream, unit by unit.  (The excess of  *)
(* the header read, cmon_http.c 570-587, and the chunks of cmon_proxy.c    *)
(* 87-142.)                                                                *)
THEOREM StreamsAreConserved ==
    ASSUME Orderly
    PROVE  Spec => []Conserved
<1>1. IInv => Conserved
  <2> SUFFICES ASSUME IInv, Alive, NEW d \in Directions
               PROVE  LET all == out[d] \o (IF d = dir THEN Held ELSE <<>>) \o pipe[d]
                      IN /\ IF d \in eof THEN Len(all) <= Len(Stream(d))
                                         ELSE Len(all) = Len(Stream(d))
                         /\ \A i \in DOMAIN all : all[i] \in {Stream(d)[i], Garbage}
    BY DEF Conserved
  <2> DEFINE held == IF d = dir THEN Held ELSE <<>>
             S == Stream(d)
             X == {Garbage}
             b == Len(out[d])
             first == out[d] \o held
             all == first \o pipe[d]
  <2>1. TypeOK /\ TurnInv /\ LengthInv /\ UnitsInv
    BY DEF IInv
  <2>2. /\ out[d] \in Seq(Unit) /\ pipe[d] \in Seq(Unit) /\ held \in Seq(Unit)
        /\ dir \in Directions /\ Len(S) \in Nat
    <3>1. <<>> \in Seq(Unit) /\ Held \in Seq(Unit)
      BY <2>1 DEF TypeOK, Held, Unit
    <3>2. QED
      BY <2>1, <3>1, Exchange DEF TypeOK, Unit
  <2>3. \A e \in Directions : Spoilt(e) \subseteq X
    BY DEF Spoilt
  <2>4. /\ \A i \in DOMAIN out[d] : out[d][i] \in {S[i]} \union X
        /\ \A i \in DOMAIN held : held[i] \in {S[b + i]} \union X
        /\ \A i \in DOMAIN pipe[d] : pipe[d][i] \in {S[b + Len(held) + i]} \union X
        /\ b + Len(held) + Len(pipe[d]) <= Len(S)
        /\ d \notin eof => b + Len(held) + Len(pipe[d]) = Len(S)
    <3>1. \A i \in DOMAIN out[d] : out[d][i] \in {S[i]} \union X
      BY <2>1, <2>3 DEF UnitsInv
    <3>2. CASE d = dir
      <4>1. held = Held
        BY <3>2
      <4>2. /\ \A i \in DOMAIN Held : Held[i] \in {S[b + i]} \union X
            /\ \A i \in DOMAIN pipe[d] : pipe[d][i] = S[b + Len(Held) + i]
        BY <2>1, <2>2, <2>3, <3>2 DEF UnitsInv
      <4>3. /\ b + Len(Held) + Len(pipe[d]) <= Len(S)
            /\ d \notin eof => b + Len(Held) + Len(pipe[d]) = Len(S)
        BY <2>1, <3>2 DEF LengthInv
      <4> HIDE DEF held
      <4>4. QED
        BY <3>1, <4>1, <4>2, <4>3
    <3>3. CASE d # dir
      <4>1. d = Other(dir) /\ held = <<>> /\ Len(held) = 0
        BY <2>2, <3>3 DEF Directions, Other
      <4>2. pipe[d] = <<>> /\ b = Len(S) /\ Len(<<>>) = 0
        BY <2>1, <4>1 DEF LengthInv
      <4>3. DOMAIN pipe[d] = {} /\ DOMAIN held = {}
        BY <4>1, <4>2
      <4> HIDE DEF held, b, S
      <4>4. b + 0 + 0 = Len(S) /\ b + 0 + 0 <= Len(S)
        BY <2>2, <4>2
      <4>5. QED
        BY <3>1, <4>1, <4>2, <4>3, <4>4
    <3>4. QED
      BY <3>2, <3>3
  <2> HIDE DEF held, S, X, b
  <2>5. /\ first \in Seq(Unit) /\ Len(first) = b + Len(held)
        /\ \A i \in DOMAIN first : first[i] \in {S[i]} \union X
    <3>1. \A i \in DOMAIN held : held[i] \in {S[Len(out[d]) + i]} \union X
      BY <2>4 DEF b
    <3>2. /\ out[d] \o held \in Seq(Unit) /\ Len(out[d] \o held) = Len(out[d]) + Len(held)
          /\ \A i \in DOMAIN (out[d] \o held) : (out[d] \o held)[i] \in {S[i]} \union X
      BY ONLY <2>2, <2>4, <3>1, Written
    <3>3. QED
      BY <3>2 DEF b
  <2> HIDE DEF first
  <2>6. /\ all \in Seq(Unit) /\ Len(all) = b + Len(held) + Len(pipe[d])
        /\ \A i \in DOMAIN all : all[i] \in {S[i]} \union X
    <3>1. /\ first \in Seq(Unit) /\ pipe[d] \in Seq(Unit)
          /\ \A i \in DOMAIN first : first[i] \in {S[i]} \union X
          /\ \A i \in DOMAIN pipe[d] : pipe[d][i] \in {S[Len(first) + i]} \union X
      BY <2>2, <2>4, <2>5
    <3>2. /\ Len(first \o pipe[d]) = Len(first) + Len(pipe[d]) /\ first \o pipe[d] \in Seq(Unit)
          /\ \A i \in DOMAIN (first \o pipe[d]) : (first \o pipe[d])[i] \in {S[i]} \union X
      BY ONLY <3>1, Written
    <3>3. QED
      BY <2>5, <3>2
  <2> HIDE DEF all
  <2>7. /\ IF d \in eof THEN Len(all) <= Len(S) ELSE Len(all) = Len(S)
        /\ \A i \in DOMAIN all : all[i] \in {S[i], Garbage}
    BY <2>4, <2>6 DEF X
  <2>8. QED
    BY <2>7 DEF all, first, held, S
<1>2. Spec => []IInv
  BY Invariance
<1>3. QED
  BY <1>1, <1>2, PTL

(* The lengths of cmon_http.c 584-587 and 688 and cmon_proxy.c 85-87 and   *)
(* 141 agree at every chunk: remaining_data never wraps below zero, and    *)
(* what is sent never passes total_msg_size.                               *)
THEOREM AccountsAgree ==
    ASSUME Orderly
    PROVE  Spec => []Accounted
<1>1. IInv => Accounted
  BY DEF IInv, MessageInv, Alive, Accounted
<1>2. Spec => []IInv
  BY Invariance
<1>3. QED
  BY <1>1, <1>2, PTL

(* When the relay turns to wait for a side, that side has all that the     *)
(* other sent: the two ends never wait for each other through the relay.   *)
(* (cmon_proxy.c 175-213.)                                                 *)
THEOREM SidesStayInStep ==
    ASSUME Orderly
    PROVE  Spec => []InStep
<1>1. IInv => InStep
  BY DEF IInv, Alive, LengthInv, InStep
<1>2. Spec => []IInv
  BY Invariance
<1>3. QED
  BY <1>1, <1>2, PTL

-----------------------------------------------------------------------------
(* When nothing disturbs it the relay goes on, ...                         *)
Undisturbing == Alive /\ ~injected /\ eof = {}

LEMMA ChunkIsWritten ==
    ASSUME Undisturbed, IInv, Undisturbing, pc = "recv", NEW s \in Seq(Unit), s # <<>>, Inject(s),
           Len(out[dir]) + Len(s) <= Len(Stream(dir)),
           \A i \in DOMAIN s : s[i] \in {Stream(dir)[Len(out[dir]) + i]} \union Spoilt(dir)
    PROVE  pc' = "write" /\ injected' = injected
<1>1. TypeOK /\ TurnInv /\ LengthInv /\ given[dir] = Turn + 1 /\ ~injected
  BY DEF IInv, TurnInv, Undisturbing
<1>2. ASSUME Tags(s) # {}
      PROVE  FALSE
  <2>1. PICK i \in DOMAIN s : s[i] # Garbage /\ TagAt[dir][s[i][1]] > 0
    BY <1>2 DEF Tags
  <2>2. s[i] = Stream(dir)[Len(out[dir]) + i]
    BY <2>1 DEF Spoilt
  <2>3. PICK k, t, c, h : k = Turn + 1 /\ t = LengthTo(dir, Turn) /\ c = Body[dir][k]
                          /\ h = Len(s)
    OBVIOUS
  <2>4. /\ k \in 1..Messages /\ c \in Nat /\ Len(Stream(dir)) = t + HeadLen + c
        /\ \A j \in 1..(HeadLen + c) : Stream(dir)[t + j] = <<k, j>>
        /\ t \in Nat /\ dir \in Directions /\ HeadLen \in Nat /\ sent \in Nat /\ h \in Nat
    <3>1. /\ k \in 1..Messages /\ c \in Nat /\ Len(Stream(dir)) = t + HeadLen + c
          /\ \A j \in 1..(HeadLen + c) : Stream(dir)[t + j] = <<k, j>>
      BY <1>1, <2>3, AtMessage
    <3>2. t \in Nat /\ dir \in Directions
      BY <1>1, <2>3, Exchange
    <3>3. HeadLen \in Nat /\ sent \in Nat /\ h \in Nat
      BY <1>1, <2>3, RelayAssumption DEF TypeOK
    <3>4. QED
      BY <3>1, <3>2, <3>3
  <2>5. Len(out[dir]) = t + sent /\ t + sent + h <= t + HeadLen + c /\ i \in 1..h
    BY <1>1, <2>3, <2>4 DEF LengthInv
  <2>6. sent + i \in 1..(HeadLen + c) /\ t + sent + i = t + (sent + i)
    BY ONLY <2>4, <2>5
  <2>7. s[i][1] = k
    <3>1. Stream(dir)[t + (sent + i)] = <<k, sent + i>>
      BY <2>4, <2>6
    <3>2. Len(out[dir]) + i = t + (sent + i)
      BY <2>5, <2>6
    <3>3. QED
      BY <2>2, <3>1, <3>2
  <2>8. QED
    BY <2>1, <2>4, <2>7 DEF Undisturbed
<1>3. ~RunsOn(s) /\ Tags(s) # {1} /\ "residue" \notin Faults /\ "overrun" \notin Faults
  BY <1>2 DEF RunsOn, Undisturbed
<1>4. QED
  BY <1>1, <1>2, <1>3 DEF Inject

LEMMA NothingStops ==
    ASSUME Orderly, Undisturbed, IInv, Undisturbing, [Next]_vars
    PROVE  Undisturbing'
<1>1. /\ TypeOK /\ TurnInv /\ LengthInv /\ UnitsInv /\ MessageInv /\ Alive /\ ~injected /\ eof = {}
      /\ "close" \notin Faults /\ "short" \notin Faults /\ ChunkSpace \in Nat \ {0}
  BY RelayAssumption DEF IInv, Undisturbing, Undisturbed
<1>2. ASSUME NEW n \in 1..HeadSpace, ReadHeader(n)
      PROVE  Undisturbing'
  <2> DEFINE read == headders \o SubSeq(pipe[dir], 1, n)
             ends == {i \in DOMAIN read : EndsHeader(read[i])}
             k == Turn + 1
  <2>1. /\ pc = "head" /\ n \in 1..Len(pipe[dir]) /\ Take(n) /\ UNCHANGED <<eof, injected>>
        /\ \/ ends # {} /\ Message(read, Min(ends))
           \/ ends = {} /\ IF Len(read) = HeadSpace THEN NoMessage ELSE UNCHANGED pc
           \/ RunsOn(read)
    BY <1>2 DEF ReadHeader
  <2>2. /\ given[dir] = k /\ k \in 1..Messages
        /\ Len(read) \in 1..(HeadLen + Body[dir][k])
        /\ \A i \in 1..Len(read) : read[i] = <<k, i>>
        /\ ends = IF HeadLen <= Len(read) THEN {HeadLen} ELSE {}
    BY <2>1, HeaderRead
  <2>3. /\ HeadLen \in Nat \ {0} /\ HeadSpace \in Nat /\ HeadLen <= HeadSpace
        /\ Body[dir][k] \in Nat /\ Declared[dir][k] = Body[dir][k]
    BY <1>1, <2>2, AtMessage, RelayAssumption DEF Orderly, Undisturbed
  <2> HIDE DEF read, ends
  <2>4. CASE ends # {} /\ Message(read, Min(ends))
    <3>1. HeadLen <= Len(read) /\ Min(ends) = HeadLen /\ read[HeadLen][1] = k
      BY <2>2, <2>3, <2>4, LeastOfOne
    <3>2. pc' = "send"
      BY <2>3, <2>4, <3>1 DEF Message
    <3>3. QED
      BY <1>1, <2>1, <3>2 DEF Undisturbing, Alive
  <2>5. CASE ends = {} /\ IF Len(read) = HeadSpace THEN NoMessage ELSE UNCHANGED pc
    <3>1. Len(read) < HeadSpace
      BY <2>2, <2>3, <2>5
    <3>2. pc' = pc
      BY <2>5, <3>1
    <3>3. QED
      BY <1>1, <2>1, <3>2 DEF Undisturbing, Alive
  <2>6. CASE RunsOn(read)
    <3>1. read = <<>>
      BY <1>1, <2>6 DEF RunsOn
    <3>2. QED
      BY <2>2, <3>1
  <2>7. QED
    BY <2>1, <2>4, <2>5, <2>6
<1>3. CASE NoHeader \/ Overrun \/ Killed \/ WriteFails
  BY <1>1, <1>3 DEF NoHeader, Overrun, Killed, WriteFails
<1>4. CASE SendHeader
  <2>1. size <= total /\ UNCHANGED eof /\ injected' = FALSE
    <3>1. HeadLen \in Nat /\ Body[dir][Turn + 1] \in Nat
      BY <1>1, <1>4, AtMessage, RelayAssumption DEF SendHeader, TurnInv
    <3>2. QED
      BY <1>1, <1>4, <3>1 DEF SendHeader, MessageInv
  <2>2. pc' \in {"recv", "head"}
    BY <1>1, <1>4, <2>1 DEF SendHeader, Forwarded, TypeOK
  <2>3. QED
    BY <1>1, <2>1, <2>2 DEF Undisturbing, Alive
<1>5. CASE SendChunk
  <2>1. /\ sent + Len(chunk) \in Nat /\ total \in Nat /\ remaining \in Int
        /\ sent \in Nat /\ Len(chunk) \in Nat
    BY <1>1 DEF TypeOK
  <2>2. remaining >= 0 /\ remaining + Len(chunk) = total - sent
    BY <1>1, <1>5 DEF SendChunk, MessageInv, Accounted
  <2>3. sent + Len(chunk) <= total
    BY <2>1, <2>2
  <2>4. pc' \in {"recv", "head"}
    BY <1>5, <2>1, <2>3 DEF SendChunk, Forwarded
  <2>5. QED
    BY <1>1, <1>5, <2>4 DEF SendChunk, Undisturbing, Alive
<1>6. CASE NoRead
  <2>1. pc = "recv" /\ Inject(chunk) /\ Held = chunk /\ UNCHANGED eof
    BY <1>6 DEF NoRead, Held
  <2>2. /\ chunk \in Seq(Unit) /\ Len(chunk) \in Nat /\ Len(out[dir]) \in Nat
        /\ Len(pipe[dir]) \in Nat /\ Len(Stream(dir)) \in Nat
    BY <1>1, Exchange DEF TypeOK, Unit
  <2>3. chunk # <<>>
    <3> SUFFICES ASSUME chunk = <<>> PROVE FALSE
      OBVIOUS
    <3>1. Len(chunk) = 0 /\ remaining = 0
      BY <1>1, <1>6 DEF NoRead
    <3>2. 0 + 0 = total - sent /\ sent < total /\ sent \in Nat /\ total \in Nat
      BY <1>1, <2>1, <3>1 DEF MessageInv, Accounted, TypeOK
    <3>3. QED
      BY ONLY <3>2
  <2>4. Len(out[dir]) + Len(chunk) <= Len(Stream(dir))
    <3>1. PICK a, h, p, m : a = Len(out[dir]) /\ h = Len(chunk) /\ p = Len(pipe[dir])
                            /\ m = Len(Stream(dir))
      OBVIOUS
    <3>2. /\ a \in Nat /\ h \in Nat /\ p \in Nat /\ m \in Nat /\ a + h + p <= m
      BY <1>1, <2>1, <2>2, <3>1 DEF LengthInv
    <3>3. a + h <= m
      BY ONLY <3>2
    <3>4. QED
      BY <3>1, <3>3
  <2>5. \A i \in DOMAIN chunk : chunk[i] \in {Stream(dir)[Len(out[dir]) + i]} \union Spoilt(dir)
    BY <1>1, <2>1 DEF UnitsInv
  <2>6. pc' = "write" /\ injected' = injected
    BY <2>1, <2>2, <2>3, <2>4, <2>5, ChunkIsWritten
  <2>7. QED
    BY <1>1, <2>1, <2>6 DEF Undisturbing, Alive
<1>7. ASSUME NEW n \in 1..ChunkSpace, ReadBody(n)
      PROVE  Undisturbing'
  <2> DEFINE s == chunk \o SubSeq(pipe[dir], 1, n)
  <2>1. /\ pc = "recv" /\ n \in 1..Len(pipe[dir]) /\ Inject(s) /\ Take(n) /\ Held = chunk
        /\ UNCHANGED eof
    BY <1>7 DEF ReadBody, Held
  <2>2. /\ s \in Seq(Unit) /\ Len(s) = Len(chunk) + n
        /\ Len(s) + Len(pipe'[dir]) = Len(chunk) + Len(pipe[dir])
        /\ Len(pipe'[dir]) \in Nat
        /\ \A i \in DOMAIN s : s[i] \in {Stream(dir)[Len(out[dir]) + i]} \union Spoilt(dir)
    BY <1>1, <2>1, Reading
  <2> HIDE DEF s
  <2>3. s # <<>>
    <3>1. Len(chunk) \in Nat /\ Len(s) > 0
      BY <1>1, <2>1, <2>2 DEF TypeOK
    <3>2. QED
      BY <3>1
  <2>4. Len(out[dir]) + Len(s) <= Len(Stream(dir))
    <3>1. PICK a, h, p, m, l, q : a = Len(out[dir]) /\ h = Len(chunk) /\ p = Len(pipe[dir])
                                  /\ m = Len(Stream(dir)) /\ l = Len(s) /\ q = Len(pipe'[dir])
      OBVIOUS
    <3>2. /\ a \in Nat /\ h \in Nat /\ p \in Nat /\ m \in Nat /\ a + h + p <= m
          /\ l \in Nat /\ q \in Nat /\ l + q = h + p
      <4>1. m \in Nat /\ dir \in Directions
        BY <1>1, <3>1, Exchange
      <4>2. a \in Nat /\ h \in Nat /\ p \in Nat
        BY <1>1, <3>1, <4>1 DEF TypeOK
      <4>3. l \in Nat /\ q \in Nat /\ l + q = h + p
        <5>1. l + q = h + p
          BY <2>2, <3>1, Zenon
        <5>2. l \in Nat
          BY <2>2, <3>1
        <5>3. q \in Nat
          BY <2>2, <3>1, Zenon
        <5>4. QED
          BY <5>1, <5>2, <5>3
      <4>4. a + h + p <= m
        BY <1>1, <2>1, <3>1 DEF LengthInv
      <4>5. QED
        BY <4>1, <4>2, <4>3, <4>4
    <3>3. a + l <= m
      BY ONLY <3>2
    <3>4. QED
      BY <3>1, <3>3
  <2>5. pc' = "write" /\ injected' = injected
    BY <2>1, <2>2, <2>3, <2>4, ChunkIsWritten
  <2>6. QED
    BY <1>1, <2>1, <2>5 DEF Undisturbing, Alive
<1>8. CASE \E d \in Directions : Give(d)
  BY <1>1, <1>8 DEF Give, Undisturbing, Alive
<1>9. CASE \E d \in Directions, n \in 0..(Messages * HeadSpace) : Close(d, n)
  BY <1>1, <1>9 DEF Close
<1>10. CASE UNCHANGED vars
  BY <1>1, <1>10 DEF vars, Undisturbing, Alive
<1>11. QED
  BY <1>2, <1>3, <1>4, <1>5, <1>6, <1>7, <1>8, <1>9, <1>10 DEF Next, Relay, Peers

(* ... and what each side has is a first part of what the other sent.      *)
LEMMA Prefix ==
    ASSUME NEW S \in Seq(Unit), NEW o \in Seq(Unit), Len(o) <= Len(S),
           \A i \in DOMAIN o : o[i] = S[i]
    PROVE  /\ o = SubSeq(S, 1, Len(o))
           /\ Len(o) = Len(S) => o = S
<1>1. Len(o) \in Nat /\ Len(S) \in Nat /\ DOMAIN o = 1..Len(o)
  OBVIOUS
<1>2. /\ SubSeq(S, 0 + 1, Len(o)) \in Seq(Unit) /\ Len(SubSeq(S, 0 + 1, Len(o))) = Len(o) - 0
      /\ \A i \in 1..(Len(o) - 0) : SubSeq(S, 0 + 1, Len(o))[i] = S[0 + i]
  BY <1>1, Part
<1>3. /\ SubSeq(S, 1, Len(o)) \in Seq(Unit) /\ Len(SubSeq(S, 1, Len(o))) = Len(o)
      /\ \A i \in 1..Len(o) : SubSeq(S, 1, Len(o))[i] = o[i]
  BY <1>1, <1>2
<1>4. o = SubSeq(S, 1, Len(o))
  BY <1>1, <1>3
<1>5. Len(o) = Len(S) => o = S
  BY <1>1
<1>6. QED
  BY <1>4, <1>5

LEMMA SameStream ==
    ASSUME NEW d \in Directions, given[d] \in 0..Messages
    PROVE  Direct!Stream(d) = Stream(d)
<1>1. ASSUME NEW k \in 1..Messages
      PROVE  Direct!Msg(d, k) = Msg(d, k)
  BY DEF Direct!Msg, Msg
<1>2. [k \in 1..given[d] |-> Direct!Msg(d, k)] = [k \in 1..given[d] |-> Msg(d, k)]
  <2>1. 1..given[d] \subseteq 1..Messages
    BY RelayAssumption
  <2>2. QED
    BY <1>1, <2>1
<1>3. ASSUME NEW s
      PROVE  Direct!FlattenSeq(s) = FlattenSeq(s)
  BY DEF Direct!FlattenSeq, FlattenSeq
<1>4. QED
  BY <1>2, <1>3 DEF Direct!Stream, Stream

LEMMA Delivers ==
    ASSUME Undisturbed, IInv, Alive, NEW w \in Seq(Unit), Write(w), Len(w) <= Len(Held),
           \A i \in 1..Len(w) : w[i] = Held[i], UNCHANGED given
    PROVE  Direct!Next \/ UNCHANGED Direct!vars
<1>1. TypeOK /\ TurnInv /\ LengthInv
  BY DEF IInv
<1>2. /\ out' \in [Directions -> Seq(Unit)]
      /\ Len(out'[dir]) = Len(out[dir]) + Len(w)
      /\ \A d \in Directions : \A i \in DOMAIN out'[d] :
            out'[d][i] \in {Stream(d)[i]} \union Spoilt(d)
      /\ out' = [out EXCEPT ![dir] = out[dir] \o w]
  BY Writing DEF Write
<1>3. /\ dir \in Directions /\ out \in [Directions -> Seq(Unit)]
      /\ Stream(dir) \in Seq(Unit) /\ given[dir] \in 0..Messages
  BY <1>1, Exchange DEF TypeOK, Unit
<1>4. Spoilt(dir) = {}
  BY <1>3 DEF Undisturbed, Spoilt
<1>5. out'[dir] \in Seq(Unit) /\ \A i \in DOMAIN out'[dir] : out'[dir][i] = Stream(dir)[i]
  BY <1>2, <1>3, <1>4
<1>6. PICK a, h, p, m, n, l : a = Len(out[dir]) /\ h = Len(Held) /\ p = Len(pipe[dir])
                              /\ m = Len(Stream(dir)) /\ n = Len(out'[dir]) /\ l = Len(w)
  OBVIOUS
<1>7. /\ a \in Nat /\ h \in Nat /\ p \in Nat /\ m \in Nat /\ l \in Nat
      /\ a + h + p <= m /\ l <= h /\ n = a + l
  <2>1. /\ Held \in Seq(Unit) /\ pipe[dir] \in Seq(Unit) /\ out[dir] \in Seq(Unit)
    BY <1>1, <1>3 DEF TypeOK, Held, Unit
  <2>2. a \in Nat /\ h \in Nat /\ p \in Nat /\ m \in Nat /\ l \in Nat
    BY <1>3, <1>6, <2>1
  <2>3. a + h + p <= m
    BY <1>1, <1>6 DEF LengthInv
  <2>4. l <= h /\ n = a + l
    BY <1>2, <1>6
  <2>5. QED
    BY <2>2, <2>3, <2>4
<1>8. n <= m
  BY ONLY <1>7
<1>9. CASE l = 0
  <2>1. w = <<>>
    <3>1. \A s \in Seq(Unit) : Len(s) = 0 => s = <<>>
      OBVIOUS
    <3>2. QED
      BY <1>6, <1>9, <3>1
  <2>2. out' = out
    BY <1>2, <1>3, <2>1
  <2>3. QED
    BY <2>2 DEF Direct!vars
<1>10. CASE l # 0
  <2>1. out'[dir] = SubSeq(Stream(dir), 1, n)
    BY <1>3, <1>5, <1>6, <1>8, Prefix
  <2>2. out' = [out EXCEPT ![dir] = SubSeq(Direct!Stream(dir), 1, n)]
    <3>1. out'[dir] = SubSeq(Direct!Stream(dir), 1, n)
      BY <1>3, <2>1, SameStream
    <3>2. out' = [out EXCEPT ![dir] = out'[dir]]
      BY <1>2, <1>3
    <3>3. QED
      BY <3>1, <3>2
  <2>3. n \in (a + 1)..m
    BY ONLY <1>7, <1>8, <1>10
  <2>4. n \in (Len(out[dir]) + 1)..Len(Direct!Stream(dir))
    BY <1>3, <1>6, <2>3, SameStream
  <2>5. Direct!Deliver(dir)
    BY <2>2, <2>4 DEF Direct!Deliver
  <2>6. QED
    BY <1>3, <2>5 DEF Direct!Next, Direct!Delivery, Direct!Directions, Directions
<1>11. QED
  BY <1>9, <1>10

LEMMA Gives ==
    ASSUME Orderly, Undisturbed, IInv, Alive, NEW d \in Directions, Give(d)
    PROVE  Direct!Next
<1>1. TypeOK /\ TurnInv /\ LengthInv /\ UnitsInv /\ d = dir /\ given[d] = Turn
  BY Given DEF IInv
<1>2. /\ \A e \in Directions : /\ given[e] \in 0..Messages /\ Stream(e) \in Seq(Unit)
                               /\ Len(Stream(e)) = LengthTo(e, given[e])
                               /\ LengthTo(e, Turn) \in Nat /\ out[e] \in Seq(Unit)
                               /\ Spoilt(e) = {}
      /\ given[Other(dir)] = IF dir = "req" THEN Turn ELSE Turn + 1
      /\ Turn \in Nat
  BY <1>1, Exchange DEF TypeOK, Unit, Undisturbed, Spoilt, TurnInv
<1>3. pc = "head"
  <2>1. given[dir] # Turn + 1
    BY <1>1, <1>2
  <2>2. QED
    BY <1>1, <2>1 DEF TurnInv
<1>4. ASSUME NEW e \in Directions
      PROVE  Direct!Received(e)
  <2>1. Len(out[e]) = Len(Stream(e))
    <3>1. CASE e = dir
      <4>1. Len(out[dir]) = LengthTo(dir, Turn) + 0
        BY <1>1, <1>3 DEF LengthInv
      <4>2. QED
        BY <1>1, <1>2, <3>1, <4>1
    <3>2. CASE e # dir
      <4>1. e = Other(dir)
        BY <1>1, <3>2 DEF Directions, Other
      <4>2. QED
        BY <1>1, <4>1 DEF LengthInv
    <3>3. QED
      BY <3>1, <3>2
  <2>2. \A i \in DOMAIN out[e] : out[e][i] = Stream(e)[i]
    BY <1>1, <1>2 DEF UnitsInv
  <2>3. Len(out[e]) \in Nat /\ Len(out[e]) <= Len(Stream(e))
    BY <1>2, <2>1
  <2>4. out[e] = Stream(e)
    BY <1>2, <2>1, <2>2, <2>3, Prefix
  <2>5. QED
    BY <1>2, <2>4, SameStream DEF Direct!Received
<1>5. d = IF given["res"] < given["req"] THEN "res" ELSE "req"
  <2>1. CASE dir = "req"
    <3>1. given["res"] = Turn /\ given["req"] = Turn
      BY <1>1, <1>2, <2>1 DEF Other
    <3>2. QED
      BY <1>1, <1>2, <2>1, <3>1
  <2>2. CASE dir # "req"
    <3>1. given["req"] = Turn + 1 /\ given["res"] = Turn /\ dir = "res"
      BY <1>1, <1>2, <2>2 DEF Other, Directions
    <3>2. Turn < Turn + 1
      BY <1>2
    <3>3. QED
      BY <1>1, <3>1, <3>2
  <2>3. QED
    BY <2>1, <2>2
<1>6. given[d] < Messages
  <2>1. given[d] + 1 <= Messages /\ given[d] \in 0..Messages /\ Messages \in Nat
    BY <1>2, RelayAssumption DEF Give
  <2>2. QED
    BY ONLY <2>1
<1>7. given' = [given EXCEPT ![d] = given[d] + 1] /\ out' = out
  BY DEF Give
<1>8. Direct!Give(d)
  <2>1. Direct!Received("req") /\ Direct!Received("res")
    BY <1>4 DEF Directions
  <2>2. QED
    BY <1>5, <1>6, <1>7, <2>1 DEF Direct!Give
<1>9. QED
  BY <1>8 DEF Direct!Next, Direct!Directions, Directions

(* To a client and a server that keep to HTTP the relay is not there, on   *)
(* these conditions (Undisturbed): nobody closes; every read has at least  *)
(* the bytes of the pattern that is searched in it, seven for a body       *)
(* (c_utils_str.c 54); the bytes that the relay writes next to buff and to *)
(* a full body_chunk (cmon_proxy.c 105, 135) are nobody's; the fresh bytes *)
(* it reads of buff and from before a short chunk (104-119, 133) make up   *)
(* no tag; every header fits; and no body has "</body>".  Then each has,   *)
(* at every moment, what a direct connection could have given it, and each *)
(* speaks only when it would have spoken then: of every number of messages,*)
(* of bodies of every length, and of every division of them into such      *)
(* reads and chunks.  (The whole of c_proxy_handle_client(), 156-215.)     *)
THEOREM RelayIsTransparent ==
    ASSUME Orderly, Undisturbed
    PROVE  Spec => Direct!Spec
<1>1. Init => Undisturbing /\ Direct!Init
  BY DEF Init, Undisturbing, Alive, Direct!Init, Direct!Directions, Directions
<1>2. IInv /\ Undisturbing /\ [Next]_vars => Undisturbing'
  BY NothingStops
<1>3. IInv /\ Undisturbing /\ [Next]_vars => [Direct!Next]_(Direct!vars)
  <2> SUFFICES ASSUME IInv, Undisturbing, [Next]_vars
               PROVE  Direct!Next \/ UNCHANGED Direct!vars
    OBVIOUS
  <2>1. TypeOK /\ TurnInv /\ MessageInv /\ Alive
    BY DEF IInv, Undisturbing
  <2>2. CASE SendHeader
    <3>1. /\ pc = "send" /\ Held = headders /\ Write(SubSeq(headders, 1, size))
          /\ UNCHANGED given
      BY <2>2 DEF SendHeader, Held
    <3>2. headders \in Seq(Unit) /\ size \in Nat /\ size <= Len(headders)
      BY <2>1, <3>1 DEF TypeOK, MessageInv, Unit
    <3>3. PICK w : w = SubSeq(headders, 1, size)
      OBVIOUS
    <3>4. /\ w \in Seq(Unit) /\ Len(w) = size /\ \A i \in 1..Len(w) : w[i] = headders[i]
      BY <3>2, <3>3
    <3>5. QED
      BY <2>1, <3>1, <3>2, <3>3, <3>4, Delivers
  <2>3. CASE SendChunk
    <3>1. pc = "write" /\ Held = chunk /\ Write(chunk) /\ UNCHANGED given
      BY <2>3 DEF SendChunk, Held
    <3>2. chunk \in Seq(Unit) /\ Len(chunk) <= Len(Held)
      BY <2>1, <3>1 DEF TypeOK, Unit
    <3>3. QED
      BY <2>1, <3>1, <3>2, Delivers
  <2>4. CASE \E d \in Directions : Give(d)
    BY <2>1, <2>4, Gives
  <2>5. CASE ~(SendHeader \/ SendChunk \/ \E d \in Directions : Give(d))
    <3>0. ~WriteFails
      BY DEF WriteFails, Undisturbing
    <3>1. UNCHANGED <<given, out>>
      BY <2>5, <3>0 DEF Next, Relay, Peers, ReadHeader, NoHeader, NoRead, ReadBody, Overrun, Killed,
                  Close, vars
    <3>2. QED
      BY <3>1 DEF Direct!vars
  <2>6. QED
    BY <2>2, <2>3, <2>4, <2>5
<1>4. Spec => []IInv
  BY Invariance
<1>5. QED
  BY <1>1, <1>2, <1>3, <1>4, PTL DEF Spec, Direct!Spec

-----------------------------------------------------------------------------
(***************************************************************************)
(* What is read of a header, with any characters, names and digits.        *)
(***************************************************************************)

(* What holds at the start, and after each step if before it, holds of all.*)
LEMMA Upward ==
    ASSUME NEW n \in Nat, NEW G, 0 \in G,
           \A k \in 1..n : k - 1 \in G => k \in G
    PROVE  \A k \in 0..n : k \in G
<1> DEFINE Out == {k \in 0..n : k \notin G}
<1>1. SUFFICES ASSUME Out # {} PROVE FALSE
  OBVIOUS
<1>2. PICK m \in Out : \A k \in Out : m <= k
  <2>1. Out \in SUBSET Nat
    OBVIOUS
  <2> HIDE DEF Out
  <2>2. QED
    BY <1>1, <2>1, LeastNumber
<1>3. m \in 1..n /\ m - 1 \in 0..n /\ ~(m <= m - 1)
  BY <1>2
<1>4. m - 1 \in G
  BY <1>2, <1>3
<1>5. QED
  <2>1. "residue" \in Faults => Spoilt(dir) = {Garbage}
    BY DEF Spoilt
  <2>2. QED
    BY <1>2, <1>3, <1>4, <2>1

(* Steps of one state to the next can be taken one after the other.        *)
Steps(S, base, n, F, f) ==
    f \in [0..n -> S] /\ f[0] = base /\ \A i \in 1..n : f[i] = F[i][f[i - 1]]

(* There is what takes them.                                               *)
LEMMA Recursion ==
    ASSUME NEW S, NEW base \in S, NEW n \in Nat, NEW F \in [1..n -> [S -> S]]
    PROVE  \E f : Steps(S, base, n, F, f)
<1> DEFINE Done(k) == \E f \in [0..k -> S] : f[0] = base /\ \A i \in 1..k : f[i] = F[i][f[i - 1]]
           G == {k \in 0..n : Done(k)}
<1>1. 0 \in G
  <2>1. [i \in 0..0 |-> base] \in [0..0 -> S]
    OBVIOUS
  <2>2. Done(0)
    <3>1. [i \in 0..0 |-> base][0] = base /\ 1..0 = {}
      OBVIOUS
    <3>2. QED
      BY <2>1, <3>1
  <2>3. 0 \in 0..n
    OBVIOUS
  <2> HIDE DEF Done
  <2>4. QED
    BY <2>2, <2>3
<1>2. ASSUME NEW k \in 1..n, k - 1 \in G
      PROVE  k \in G
  <2>1. PICK f \in [0..(k - 1) -> S] : f[0] = base /\ \A i \in 1..(k - 1) : f[i] = F[i][f[i - 1]]
    BY <1>2
  <2> DEFINE g == [i \in 0..k |-> IF i = k THEN F[k][f[k - 1]] ELSE f[i]]
  <2>2. g \in [0..k -> S]
    <3>1. f[k - 1] \in S
      BY <2>1
    <3>2. F[k][f[k - 1]] \in S
      BY <3>1
    <3>3. ASSUME NEW i \in 0..k, i # k
          PROVE  f[i] \in S
      <4>1. i \in 0..(k - 1)
        BY <3>3
      <4>2. QED
        BY <2>1, <4>1
    <3>4. QED
      BY <3>2, <3>3
  <2>3. g[0] = base
    BY <2>1
  <2>4. ASSUME NEW i \in 1..k
        PROVE  g[i] = F[i][g[i - 1]]
    <3>1. i - 1 \in 0..k /\ i - 1 # k /\ i \in 0..k
      BY <2>4
    <3>2. g[i - 1] = f[i - 1]
      BY <3>1
    <3>3. CASE i = k
      BY <3>1, <3>2, <3>3
    <3>4. CASE i # k
      <4>1. i \in 1..(k - 1)
        BY <3>4
      <4>2. g[i] = f[i]
        BY <3>1, <3>4
      <4>3. QED
        BY <2>1, <3>2, <4>1, <4>2
    <3>5. QED
      BY <3>3, <3>4
  <2>5. Done(k)
    BY <2>2, <2>3, <2>4
  <2>6. k \in 0..n
    BY <1>2
  <2> HIDE DEF Done
  <2>7. QED
    BY <2>5, <2>6
<1>3. n \in G
  <2> HIDE DEF G
  <2>1. \A k \in 0..n : k \in G
    BY <1>1, <1>2, Upward
  <2>2. QED
    BY <2>1
<1>4. QED
  BY <1>3 DEF Steps


(* The least number of a set, ...                                          *)
LEMMA MinFacts ==
    ASSUME NEW S \in SUBSET Nat, S # {}
    PROVE  Min(S) \in S /\ Min(S) \in Nat /\ \A n \in S : Min(S) <= n
<1>1. PICK m \in S : \A n \in S : m <= n
  BY LeastNumber
<1>2. Min(S) \in S /\ \A n \in S : Min(S) <= n
  BY <1>1, Zenon DEF Min
<1>3. QED
  BY <1>2

(* ... which there is only one of.                                         *)
LEMMA MinIs ==
    ASSUME NEW S \in SUBSET Nat, NEW m \in S, \A n \in S : m <= n
    PROVE  Min(S) = m
<1>1. Min(S) \in S /\ Min(S) \in Nat /\ Min(S) <= m
  BY MinFacts
<1>2. m <= Min(S) /\ m \in Nat
  BY <1>1
<1>3. QED
  BY <1>1, <1>2

(* A pattern is found where its characters are.                            *)
Occurs(p, t, s) ==
    /\ s \in Nat /\ s + Len(p) <= Len(t)
    /\ \A i \in 1..Len(p) : t[s + i] = p[i]

LEMMA OccursAt ==
    ASSUME NEW T, NEW p \in Seq(T), NEW t \in Seq(T), NEW s
    PROVE  s \in Occurrences(p, t) <=> Occurs(p, t, s)
<1>1. PICK l, m : l = Len(p) /\ m = Len(t)
  OBVIOUS
<1>2. l \in Nat /\ m \in Nat
  BY <1>1
<1>3. s \in 0..(m - l) <=> s \in Nat /\ s + l <= m
  BY <1>2
<1>4. ASSUME s \in Nat, s + l <= m
      PROVE  SubSeq(t, s + 1, s + l) = p <=> \A i \in 1..l : t[s + i] = p[i]
  <2>1. PICK q : q = SubSeq(t, s + 1, s + l)
    OBVIOUS
  <2>2. q \in Seq(T) /\ Len(q) = l /\ \A i \in 1..l : q[i] = t[s + i]
    <3>1. s + 1 \in 1..(m + 1) /\ s + l \in s..m /\ (s + l) - (s + 1) + 1 = l
      BY <1>2, <1>4
    <3>2. Len(q) = l /\ \A i \in 1..l : q[i] = t[(s + 1) + i - 1]
      BY <1>1, <1>2, <1>4, <2>1, <3>1
    <3>3. \A i \in 1..l : (s + 1) + i - 1 = s + i
      BY <1>2, <1>4
    <3>4. q \in Seq(T)
      BY <1>1, <1>2, <1>4, <2>1
    <3>5. QED
      BY <3>2, <3>3, <3>4
  <2>3. q = p => \A i \in 1..l : t[s + i] = p[i]
    BY <2>2, Zenon
  <2>4. ASSUME \A i \in 1..l : t[s + i] = p[i]
        PROVE  q = p
    <3>1. Len(q) = Len(p) /\ \A i \in 1..Len(q) : q[i] = p[i]
      BY <1>1, <2>2, <2>4, Zenon
    <3>2. QED
      BY ONLY p \in Seq(T), <2>2, <3>1, SeqEqual
  <2>5. QED
    BY <2>1, <2>3, <2>4, Zenon
<1>5. s \in Occurrences(p, t) <=> s \in 0..(m - l) /\ SubSeq(t, s + 1, s + l) = p
  BY <1>1, Zenon DEF Occurrences
<1>6. QED
  BY <1>1, <1>3, <1>4, <1>5, Zenon DEF Occurs

LEMMA OccursIn ==
    ASSUME NEW p, NEW t
    PROVE  Occurrences(p, t) \subseteq 0..(Len(t) - Len(p))
BY DEF Occurrences

Char == {":", "CR", "LF"} \union UNION {Range(t) : t \in Texts \union Names}

Text == Seq(Char)

(* What the constants give are texts, and the characters that end a name   *)
(* and a line are different ones.                                          *)
LEMMA TextsTyped ==
    /\ Texts \subseteq Text /\ Names \subseteq Text
    /\ \A t \in Text : t \in Seq(Char) /\ Len(t) \in Nat
    /\ \A key \in Text : Append(key, ":") \in Text /\ Len(Append(key, ":")) = Len(key) + 1
                         /\ Append(key, ":")[Len(key) + 1] = ":"
    /\ ":" # "CR" /\ ":" # "LF" /\ "CR" # "LF"
    /\ Crlf \in Text /\ Len(Crlf) = 2 /\ Crlf[1] = "CR" /\ Crlf[2] = "LF"
<1>1. PICK colon : colon = ":"
  OBVIOUS
<1>2. colon \in Char /\ "CR" \in Char /\ "LF" \in Char
  BY <1>1, Zenon DEF Char
<1>3. ASSUME NEW t \in Texts \union Names
      PROVE  t \in Text
  <2>1. Range(t) \subseteq Char
    BY <1>3, Zenon DEF Char
  <2>2. t \in Seq(Range(t))
    BY HeaderAssumption
  <2>3. QED
    BY <2>1, <2>2 DEF Text
<1>4. ASSUME NEW key \in Text
      PROVE  /\ Append(key, colon) \in Text /\ Len(Append(key, colon)) = Len(key) + 1
             /\ Append(key, colon)[Len(key) + 1] = colon
  BY <1>2 DEF Text
<1>5. colon # "CR" /\ colon # "LF" /\ "CR" # "LF"
  BY <1>1, Zenon
<1>6. Crlf \in Text /\ Len(Crlf) = 2 /\ Crlf[1] = "CR" /\ Crlf[2] = "LF"
  BY <1>2 DEF Crlf, Text
<1>7. \A t \in Text : t \in Seq(Char) /\ Len(t) \in Nat
  BY DEF Text
<1>8. QED
  BY <1>1, <1>3, <1>4, <1>5, <1>6, <1>7, Zenon

(* A colon is behind the name, ...                                         *)
LEMMA ColonAt ==
    ASSUME NEW header \in Text, NEW key \in Text,
           NEW s \in Occurrences(Append(key, ":"), header)
    PROVE  /\ s \in Nat /\ s + Len(key) + 1 <= Len(header)
           /\ header[s + Len(key) + 1] = ":"
<1>1. PICK K, colon, k, L : /\ K = Append(key, ":") /\ colon = ":" /\ k = Len(key)
                            /\ L = Len(header)
  OBVIOUS
<1>2. /\ K \in Text /\ Len(K) = k + 1 /\ K[k + 1] = colon /\ k \in Nat /\ L \in Nat
      /\ s \in Occurrences(K, header)
  BY <1>1, TextsTyped, Zenon
<1>3. s \in Nat /\ s + Len(K) <= L /\ \A i \in 1..Len(K) : header[s + i] = K[i]
  <2>1. K \in Seq(Char) /\ header \in Seq(Char)
    BY <1>2, TextsTyped, Zenon
  <2>2. Occurs(K, header, s)
    BY <1>2, <2>1, OccursAt
  <2>3. QED
    BY <1>1, <2>2, Zenon DEF Occurs
<1>4. k + 1 \in 1..Len(K) /\ s + (k + 1) = s + k + 1 /\ s + k + 1 <= L
  BY ONLY <1>2, <1>3
<1>5. header[s + k + 1] = colon
  BY <1>2, <1>3, <1>4
<1>6. s \in Nat
  BY <1>3
<1>7. s + Len(key) + 1 <= Len(header) /\ header[s + Len(key) + 1] = ":"
  BY <1>1, <1>4, <1>5, Zenon
<1>8. QED
  BY <1>6, <1>7, Zenon

(* ... and these are where a line ends.                                    *)
EndsAt(t, s) == s \in Nat /\ s + 2 <= Len(t) /\ t[s + 1] = "CR" /\ t[s + 2] = "LF"

LEMMA CrlfAt ==
    ASSUME NEW t \in Text, NEW s
    PROVE  s \in Occurrences(Crlf, t) <=> EndsAt(t, s)
<1>1. s \in Occurrences(Crlf, t) <=>
        s \in Nat /\ s + 2 <= Len(t) /\ \A i \in 1..2 : t[s + i] = Crlf[i]
  <2>1. Crlf \in Seq(Char) /\ t \in Seq(Char) /\ Len(Crlf) = 2
    BY TextsTyped
  <2>2. s \in Occurrences(Crlf, t) <=> Occurs(Crlf, t, s)
    BY <2>1, OccursAt
  <2>3. QED
    BY <2>1, <2>2, Zenon DEF Occurs
<1>2. (\A i \in 1..2 : t[s + i] = Crlf[i]) <=> t[s + 1] = "CR" /\ t[s + 2] = "LF"
  <2>1. Crlf[1] = "CR" /\ Crlf[2] = "LF"
    BY TextsTyped
  <2>2. 1 \in 1..2 /\ 2 \in 1..2 /\ \A i \in 1..2 : i = 1 \/ i = 2
    OBVIOUS
  <2>3. QED
    BY <2>1, <2>2, Zenon
<1>3. QED
  BY <1>1, <1>2, Zenon DEF EndsAt

(* What is after a place is what it was.                                   *)
LEMMA AfterFacts ==
    ASSUME NEW t \in Text, NEW n \in 0..Len(t)
    PROVE  /\ After(t, n) \in Text /\ Len(After(t, n)) = Len(t) - n
           /\ \A i \in 1..(Len(t) - n) : After(t, n)[i] = t[n + i]
<1>1. PICK L, a : L = Len(t) /\ a = SubSeq(t, n + 1, L)
  OBVIOUS
<1>2. L \in Nat /\ n \in 0..L /\ t \in Seq(Char)
  BY <1>1, TextsTyped
<1>3. a \in Seq(Char) /\ Len(a) = L - n /\ \A i \in 1..(L - n) : a[i] = t[n + i]
  <2>1. Len(a) = L - n /\ \A i \in 1..(L - n) : a[i] = t[(n + 1) + i - 1]
    BY <1>1, <1>2
  <2>2. \A i \in 1..(L - n) : (n + 1) + i - 1 = n + i
    BY <1>2
  <2>3. a \in Seq(Char)
    BY <1>1, <1>2
  <2>4. QED
    BY <2>1, <2>2, <2>3
<1>4. QED
  BY <1>1, <1>3, Zenon DEF After, Text

(* A header that is complete ends with an empty line.                      *)
LEMMA CompleteEnds ==
    ASSUME NEW header \in Text, Complete(header)
    PROVE  /\ Len(header) \in Nat /\ Len(header) >= 4
           /\ EndsAt(header, Len(header) - 4) /\ EndsAt(header, Len(header) - 2)
<1>1. PICK L, a, e : L = Len(header) /\ a = After(header, L - 4) /\ e = Crlf \o Crlf
  OBVIOUS
<1>2. L \in Nat /\ L >= 4 /\ a = e
  BY <1>1, TextsTyped, Zenon DEF Complete
<1>3. e[1] = "CR" /\ e[2] = "LF" /\ e[3] = "CR" /\ e[4] = "LF"
  BY <1>1, TextsTyped DEF Crlf
<1>4. L - 4 \in 0..L /\ L - (L - 4) = 4
  BY <1>2
<1>5. \A i \in 1..4 : a[i] = header[(L - 4) + i]
  BY <1>1, <1>4, AfterFacts, Zenon
<1>6. /\ header[(L - 4) + 1] = "CR" /\ header[(L - 4) + 2] = "LF"
      /\ header[(L - 4) + 3] = "CR" /\ header[(L - 4) + 4] = "LF"
  <2>1. 1 \in 1..4 /\ 2 \in 1..4 /\ 3 \in 1..4 /\ 4 \in 1..4
    OBVIOUS
  <2>2. QED
    BY <1>2, <1>3, <1>5, <2>1, Zenon
<1>7. /\ (L - 4) + 3 = (L - 2) + 1 /\ (L - 4) + 4 = (L - 2) + 2
      /\ L - 4 \in Nat /\ L - 2 \in Nat /\ (L - 4) + 2 <= L /\ (L - 2) + 2 <= L
  BY <1>2
<1>8. QED
  BY <1>1, <1>2, <1>6, <1>7, Zenon DEF EndsAt

(* The first of the places where a name is found is a number, if there is  *)
(* one, and the name is then looked for in vain if it is not.              *)
LEMMA FindFacts ==
    ASSUME NEW p \in Text, NEW t \in Text, Len(p) <= Len(t)
    PROVE  /\ Occurrences(p, t) \subseteq Nat
           /\ Occurrences(p, t) = {} => Find(p, t) = None
           /\ Occurrences(p, t) # {} => /\ Find(p, t) = Min(Occurrences(p, t))
                                        /\ Find(p, t) \in Occurrences(p, t)
                                        /\ Find(p, t) \in Nat /\ Find(p, t) \notin Codes
<1>1. Len(p) \in Nat /\ Len(t) \in Nat
  BY TextsTyped
<1>2. Occurrences(p, t) \subseteq Nat
  <2>1. \A s \in Occurrences(p, t) : s \in Nat
    BY <1>1, OccursIn
  <2>2. QED
    BY <2>1
<1>3. ~(Len(t) < Len(p))
  BY <1>1
<1>4. Occurrences(p, t) = {} => Find(p, t) = None
  BY <1>3, Zenon DEF Find
<1>5. ASSUME Occurrences(p, t) # {}
      PROVE  /\ Find(p, t) = Min(Occurrences(p, t)) /\ Find(p, t) \in Occurrences(p, t)
             /\ Find(p, t) \in Nat /\ Find(p, t) \notin Codes
  <2>1. Find(p, t) = Min(Occurrences(p, t))
    BY <1>3, <1>5, Zenon DEF Find
  <2>2. Find(p, t) \in Occurrences(p, t)
    BY <1>2, <1>5, <2>1, MinFacts, Zenon
  <2>3. Find(p, t) \in Nat
    BY <1>2, <2>2, Zenon
  <2>4. \A n \in Nat : n \notin Codes
    BY HeaderAssumption, Zenon DEF Codes
  <2>5. QED
    BY <2>1, <2>2, <2>3, <2>4, Zenon
<1>6. QED
  BY <1>2, <1>4, <1>5, Zenon

(* Where the name is found, in a header that is complete and has it only   *)
(* at the start of a line.                                                 *)
NameAt(header, key) == Min(Occurrences(Append(key, ":"), header))

ValueAt(header, key) == NameAt(header, key) + Len(key) + 1

(* The name is in a line that ends before the empty line.                  *)
LEMMA ValueFacts ==
    ASSUME NEW header \in Text, NEW key \in Text, Readable(header, key),
           Occurrences(Append(key, ":"), header) # {},
           NEW start, start = ValueAt(header, key)
    PROVE  /\ start \in Nat \ {0} /\ start \in 0..Len(header) /\ start <= Len(header) - 4
           /\ header[start] = ":" /\ FieldStart(header, key) = start
           /\ start \notin Codes
<1>1. PICK K, s, L, k : /\ K = Append(key, ":") /\ s = NameAt(header, key)
                        /\ L = Len(header) /\ k = Len(key)
  OBVIOUS
<1>2. K \in Text /\ Len(K) = k + 1 /\ k \in Nat /\ L \in Nat
  BY <1>1, TextsTyped, Zenon
<1>3. Len(K) <= Len(header)
  <2>1. k < L
    BY <1>1, Zenon DEF Readable
  <2>2. QED
    BY <1>1, <1>2, <2>1
<1>4. Find(K, header) = s /\ s \in Occurrences(K, header) /\ s \in Nat /\ s \notin Codes
  BY <1>1, <1>2, <1>3, FindFacts, Zenon DEF NameAt
<1>5. start = s + k + 1 /\ start <= L /\ header[start] = ":" /\ s \in Nat
  BY <1>1, <1>4, ColonAt, Zenon DEF ValueAt
<1>6. FieldStart(header, key) = start
  BY <1>1, <1>4, <1>5, Zenon DEF FieldStart
<1>7. start \in Nat \ {0} /\ start \in 0..L
  <2>1. start = s + k + 1 /\ start <= L /\ s \in Nat
    BY <1>5
  <2>2. QED
    BY ONLY <1>2, <2>1
<1>8. L >= 4 /\ EndsAt(header, L - 4) /\ EndsAt(header, L - 2)
  BY <1>1, CompleteEnds, Zenon DEF Readable
<1>9. start <= L - 4
  <2>1. start # (L - 4) + 1 /\ start # (L - 4) + 2 /\ start # (L - 2) + 1 /\ start # (L - 2) + 2
    <3>1. /\ header[(L - 4) + 1] = "CR" /\ header[(L - 4) + 2] = "LF"
          /\ header[(L - 2) + 1] = "CR" /\ header[(L - 2) + 2] = "LF"
      BY <1>8, Zenon DEF EndsAt
    <3>2. header[start] # "CR" /\ header[start] # "LF"
      <4>1. ":" # "CR" /\ ":" # "LF"
        BY TextsTyped, Zenon
      <4>2. header[start] = ":"
        BY <1>5, Zenon
      <4>3. QED
        BY <4>1, <4>2, Zenon
    <3>3. QED
      BY <3>1, <3>2, Zenon
  <2>2. QED
    BY ONLY <1>2, <1>7, <1>8, <2>1
<1>10. start \notin Codes
  BY <1>7, HeaderAssumption, Zenon DEF Codes
<1>11. header[start] = ":"
  BY <1>5, Zenon
<1>12. QED
  BY <1>1, <1>6, <1>7, <1>9, <1>10, <1>11, Zenon

(* What comes after a place has its lines end where they did.              *)
LEMMA EndsAfter ==
    ASSUME NEW t \in Text, NEW n \in 0..Len(t), NEW i \in Nat
    PROVE  i \in Occurrences(Crlf, After(t, n)) <=> n + i \in Occurrences(Crlf, t)
<1>1. PICK a, L : a = After(t, n) /\ L = Len(t)
  OBVIOUS
<1>2. /\ a \in Text /\ Len(a) = L - n /\ L \in Nat /\ n \in Nat /\ n <= L
      /\ \A j \in 1..(L - n) : a[j] = t[n + j]
  <2>1. L \in Nat
    BY <1>1, TextsTyped
  <2>2. /\ a \in Text /\ Len(a) = L - n /\ \A j \in 1..(L - n) : a[j] = t[n + j]
    BY <1>1, AfterFacts, Zenon
  <2>3. n \in Nat /\ n <= L
    BY <1>1, <2>1
  <2>4. QED
    BY <2>1, <2>2, <2>3, Zenon
<1>3. EndsAt(a, i) <=> EndsAt(t, n + i)
  <2>1. n + i \in Nat /\ (i + 2 <= L - n <=> (n + i) + 2 <= L)
    BY <1>2
  <2>2. ASSUME i + 2 <= L - n
        PROVE  a[i + 1] = t[(n + i) + 1] /\ a[i + 2] = t[(n + i) + 2]
    <3>1. i + 1 \in 1..(L - n) /\ i + 2 \in 1..(L - n)
          /\ n + (i + 1) = (n + i) + 1 /\ n + (i + 2) = (n + i) + 2
      BY <1>2, <2>2
    <3>2. a[i + 1] = t[n + (i + 1)] /\ a[i + 2] = t[n + (i + 2)]
      BY <1>2, <3>1, Zenon
    <3>3. QED
      BY <3>1, <3>2, Zenon
  <2>3. Len(a) = L - n /\ Len(t) = L /\ i \in Nat
    BY <1>1, <1>2
  <2>4. CASE i + 2 <= L - n
    BY <2>1, <2>2, <2>3, <2>4, Zenon DEF EndsAt
  <2>5. CASE ~(i + 2 <= L - n)
    BY <2>1, <2>3, <2>5, Zenon DEF EndsAt
  <2>6. QED
    BY <2>4, <2>5, Zenon
<1>4. QED
  BY <1>1, <1>2, <1>3, CrlfAt, Zenon

(* The end of the value is the end of its line.  (cmon_http.c 358-379 and  *)
(* 420-431.)                                                               *)
LEMMA ValueEnds ==
    ASSUME NEW header \in Text, NEW start \in 0..Len(header), start # 0,
           start <= Len(header) - 4, header[start] = ":", Complete(header),
           NEW width, width = Find(Crlf, After(header, start))
    PROVE  /\ width \in Nat /\ width \notin Codes /\ start + width \in Occurrences(Crlf, header)
           /\ Min({s \in LineStarts(header) : s > start}) - 2 = start + width
<1>1. PICK L, a, E : /\ L = Len(header) /\ a = After(header, start)
                     /\ E = Occurrences(Crlf, header)
  OBVIOUS
<1>2. L \in Nat /\ start \in Nat /\ start <= L - 4 /\ a \in Text /\ Len(a) = L - start
  <2>1. L \in Nat
    BY <1>1, TextsTyped
  <2>2. a \in Text /\ Len(a) = L - start
    BY <1>1, AfterFacts, Zenon
  <2>3. QED
    BY <1>1, <2>1, <2>2
<1>3. \A i \in Nat : i \in Occurrences(Crlf, a) <=> start + i \in E
  BY <1>1, EndsAfter, Zenon
<1>4. L - 4 \in E /\ E \subseteq Nat
  <2>1. EndsAt(header, L - 4)
    BY <1>1, CompleteEnds, Zenon
  <2>2. L - 4 \in E
    BY <1>1, <2>1, CrlfAt, Zenon
  <2>3. \A s \in E : s \in Nat
    BY <1>1, CrlfAt, Zenon DEF EndsAt
  <2>4. QED
    BY <2>2, <2>3
<1>5. (L - 4) - start \in Nat /\ start + ((L - 4) - start) = L - 4 /\ 2 <= Len(a)
  BY <1>2
<1>6. Occurrences(Crlf, a) # {}
  BY <1>3, <1>4, <1>5, Zenon
<1>7. /\ width \in Occurrences(Crlf, a) /\ width \in Nat /\ width \notin Codes
      /\ width = Min(Occurrences(Crlf, a)) /\ Occurrences(Crlf, a) \subseteq Nat
  <2>1. Crlf \in Text /\ Len(Crlf) <= Len(a)
    BY <1>5, TextsTyped
  <2>2. QED
    BY <1>1, <1>2, <1>6, <2>1, FindFacts, Zenon
<1>8. \A i \in Occurrences(Crlf, a) : width <= i
  BY <1>6, <1>7, MinFacts, Zenon
<1>9. start + width \in E
  BY <1>3, <1>7, Zenon
<1> DEFINE N == {s \in LineStarts(header) : s > start}
<1>10. ASSUME NEW s \in E, s + 2 > start
       PROVE  start + width <= s
  <2>1. s \in Nat
    BY <1>4
  <2>2. s # start - 1
    <3>1. header[s + 1] = "CR"
      BY <1>1, CrlfAt, Zenon DEF EndsAt
    <3>2. header[start] # "CR"
      BY TextsTyped, Zenon
    <3>3. (start - 1) + 1 = start
      BY <1>2
    <3>4. QED
      BY <3>1, <3>2, <3>3, Zenon
  <2>3. s - start \in Nat /\ start + (s - start) = s
    BY ONLY <1>2, <1>10, <2>1, <2>2
  <2>4. s - start \in Occurrences(Crlf, a)
    BY <1>3, <2>3, Zenon
  <2>5. width <= s - start
    BY <1>8, <2>4
  <2>6. QED
    BY ONLY <1>2, <1>7, <2>1, <2>3, <2>5
<1>11. ASSUME NEW n \in N
       PROVE  n \in Nat /\ (start + width) + 2 <= n
  <2>1. n \in LineStarts(header) /\ n > start
    OBVIOUS
  <2>2. n # 0
    BY <1>2, <2>1
  <2>3. PICK s \in E : n = s + 2
    BY <1>1, <2>1, <2>2 DEF LineStarts
  <2>4. s \in Nat /\ s + 2 > start
    BY <1>4, <2>1, <2>3
  <2>5. start + width <= s
    BY <1>10, <2>4
  <2>6. QED
    BY ONLY <1>2, <1>7, <2>3, <2>4, <2>5
<1>12. (start + width) + 2 \in N
  <2>1. (start + width) + 2 \in LineStarts(header)
    BY <1>1, <1>9 DEF LineStarts
  <2>2. (start + width) + 2 > start
    BY <1>2, <1>7
  <2>3. QED
    BY <2>1, <2>2
<1>13. Min(N) = (start + width) + 2
  <2>1. N \in SUBSET Nat
    BY <1>11
  <2>2. \A n \in N : (start + width) + 2 <= n
    BY <1>11
  <2> HIDE DEF N
  <2>3. QED
    BY <1>12, <2>1, <2>2, MinIs
<1>14. ((start + width) + 2) - 2 = start + width
  BY <1>2, <1>7
<1>15. QED
  BY <1>1, <1>7, <1>9, <1>13, <1>14, Zenon

(* The value that the header says is between these two places.             *)
Holds(header, key, start, width) ==
    /\ start \in Nat \ {0} /\ header[start] = ":" /\ FieldStart(header, key) = start
    /\ start \notin Codes /\ width \in Nat /\ width \notin Codes
    /\ width = Find(Crlf, After(header, start)) /\ start + width \in Occurrences(Crlf, header)
    /\ Said(header, key) = SubSeq(header, start + 1, start + width)

LEMMA ValueSaid ==
    ASSUME NEW header \in Text, NEW key \in Text, Readable(header, key),
           FieldLines(header, key) # {}
    PROVE  \E start, width : Holds(header, key, start, width)
<1>1. PICK O, start, width : /\ O = Occurrences(Append(key, ":"), header)
                            /\ start = ValueAt(header, key)
                            /\ width = Find(Crlf, After(header, start))
  OBVIOUS
<1>2. FieldLines(header, key) = O /\ O # {}
  BY <1>1 DEF Readable, Unambiguous, FieldLines
<1>3. /\ start \in Nat \ {0} /\ start \in 0..Len(header) /\ start <= Len(header) - 4
      /\ header[start] = ":" /\ FieldStart(header, key) = start /\ start \notin Codes
  BY <1>1, <1>2, ValueFacts, Zenon
<1>4. start # 0 /\ Complete(header)
  BY <1>3, Zenon DEF Readable
<1>5. /\ width \in Nat /\ width \notin Codes /\ start + width \in Occurrences(Crlf, header)
      /\ Min({s \in LineStarts(header) : s > start}) - 2 = start + width
  <2>1. width = Find(Crlf, After(header, start)) /\ header \in Text
    BY <1>1, Zenon
  <2>2. /\ start \in 0..Len(header) /\ start # 0 /\ start <= Len(header) - 4
        /\ header[start] = ":" /\ Complete(header)
    BY <1>3, <1>4, Zenon
  <2>3. QED
    BY ONLY <2>1, <2>2, ValueEnds, Zenon
<1>6. start = Min(O) + Len(key) + 1
  BY <1>1, Zenon DEF ValueAt, NameAt
<1>7. Said(header, key) = SubSeq(header, start + 1, start + width)
  BY <1>2, <1>5, <1>6, Zenon DEF Said
<1>8. Holds(header, key, start, width)
  BY <1>1, <1>3, <1>5, <1>7, Zenon DEF Holds
<1>9. QED
  BY <1>8, Zenon

(* The name that is in no line is not found.                               *)
LEMMA NothingSaid ==
    ASSUME NEW header \in Text, NEW key \in Text, Readable(header, key),
           FieldLines(header, key) = {}
    PROVE  FieldStart(header, key) = None /\ Said(header, key) = None
<1>1. PICK O, K, k, L : /\ O = Occurrences(K, header) /\ K = Append(key, ":")
                        /\ k = Len(key) /\ L = Len(header)
  OBVIOUS
<1>2. O = {}
  BY <1>1 DEF Readable, Unambiguous, FieldLines
<1>3. K \in Text /\ Len(K) = k + 1 /\ k \in Nat /\ L \in Nat /\ k < L
  BY <1>1, TextsTyped, Zenon DEF Readable
<1>4. Len(K) <= L
  BY <1>3
<1>5. Find(K, header) = None
  BY <1>1, <1>2, <1>3, <1>4, FindFacts, Zenon
<1>6. None \in Codes
  BY Zenon DEF Codes
<1>7. FieldStart(header, key) = None
  BY <1>1, <1>5, <1>6, Zenon DEF FieldStart
<1>8. QED
  BY <1>7, Zenon DEF Said

(* Both functions give the value that the header says.                     *)
LEMMA FieldsRead ==
    ASSUME NEW header \in Text, NEW key \in Text, Readable(header, key)
    PROVE  FieldAsSaid(header, key)
<1>1. CASE FieldLines(header, key) = {}
  <2>1. FieldStart(header, key) = None /\ Said(header, key) = None /\ None \in Codes
    BY <1>1, NothingSaid, Zenon DEF Codes
  <2>2. /\ \A buf_size \in 1..Len(header) : GetField(header, key, buf_size) = None
        /\ GetFieldView(header, key) = None
    BY <2>1, Zenon DEF GetField, GetFieldView
  <2>3. QED
    BY <2>1, <2>2, Zenon DEF FieldAsSaid
<1>2. CASE FieldLines(header, key) # {}
  <2>1. PICK start, width : Holds(header, key, start, width)
    BY <1>2, ValueSaid, Zenon
  <2>2. PICK value : value = SubSeq(header, start + 1, start + width)
    OBVIOUS
  <2>21. Len(value) = width
    <3>1. /\ start \in Nat /\ width \in Nat /\ start + width \in 0..(Len(header) - Len(Crlf))
          /\ header \in Text /\ Len(header) \in Nat
      BY <2>1, TextsTyped DEF Holds, Occurrences
    <3>2. Len(Crlf) = 2
      BY DEF Crlf
    <3>3. QED
      BY <2>2, <3>1, <3>2 DEF Text
  <2>3. /\ \A buf_size \in 1..Len(header) :
              GetField(header, key, buf_size) = IF buf_size < width THEN None ELSE value
        /\ GetFieldView(header, key) = value
    BY <2>1, <2>2, Zenon DEF Holds, GetField, GetFieldView
  <2>4. Said(header, key) = value
    BY <2>1, <2>2, Zenon DEF Holds
  <2>5. QED
    BY <2>21, <2>3, <2>4, Zenon DEF FieldAsSaid
<1>3. QED
  BY <1>1, <1>2

-----------------------------------------------------------------------------
(* The digits of a text, a character at a time.                            *)
TakeDigit(digits, c) == IF c \in DOMAIN DigitValue THEN Append(digits, c) ELSE digits

Takes(D, t) ==
    /\ D[0] = <<>> /\ \A i \in 1..Len(t) : D[i] = TakeDigit(D[i - 1], t[i])
    /\ \A i \in 0..Len(t) : D[i] \in Text

LEMMA TakeTyped ==
    ASSUME NEW d \in Text, NEW c \in Char
    PROVE  TakeDigit(d, c) \in Text
BY DEF TakeDigit, Text

LEMMA CharsOf ==
    ASSUME NEW t \in Text
    PROVE  Len(t) \in Nat /\ \A i \in 1..Len(t) : t[i] \in Char
BY DEF Text

LEMMA EmptyText == <<>> \in Text
BY DEF Text

LEMMA DigitsSteps ==
    ASSUME NEW t \in Text
    PROVE  Takes(DigitsTo(t), t)
<1> DEFINE L == Len(t)
           F == [i \in 1..L |-> [d \in Text |-> TakeDigit(d, t[i])]]
           Turns(f) == f = [i \in 0..L |->
                              IF i = 0 THEN <<>>
                              ELSE IF t[i] \in DOMAIN DigitValue THEN Append(f[i - 1], t[i])
                              ELSE f[i - 1]]
<1>1. L \in Nat /\ \A i \in 1..L : t[i] \in Char
  BY CharsOf
<1>2. DigitsTo(t) = CHOOSE f : Turns(f)
  BY Zenon DEF DigitsTo
<1> HIDE DEF L
<1>3. PICK f : Turns(f)
  <2>1. F \in [1..L -> [Text -> Text]]
    <3>1. \A i \in 1..L, d \in Text : TakeDigit(d, t[i]) \in Text
      BY <1>1, TakeTyped, Zenon
    <3>2. QED
      BY <3>1
  <2> HIDE DEF F
  <2>2. \E f : Steps(Text, <<>>, L, F, f)
    BY ONLY <1>1, EmptyText, <2>1, Recursion
  <2>3. PICK f \in [0..L -> Text] : f[0] = <<>> /\ \A i \in 1..L : f[i] = F[i][f[i - 1]]
    BY <2>2 DEF Steps
  <2>4. ASSUME NEW i \in 0..L
        PROVE  f[i] = IF i = 0 THEN <<>>
                      ELSE IF t[i] \in DOMAIN DigitValue THEN Append(f[i - 1], t[i])
                      ELSE f[i - 1]
    <3>1. CASE i = 0
      BY <2>3, <3>1
    <3>2. CASE i # 0
      <4>1. i \in 1..L /\ i - 1 \in 0..L
        BY <1>1, <3>2
      <4>2. f[i - 1] \in Text /\ f[i] = F[i][f[i - 1]]
        BY <2>3, <4>1
      <4>3. f[i] = TakeDigit(f[i - 1], t[i])
        BY <4>1, <4>2, Zenon DEF F
      <4>4. QED
        BY <3>2, <4>3, Zenon DEF TakeDigit
    <3>3. QED
      BY <3>1, <3>2
  <2>5. Turns(f)
    BY <2>3, <2>4
  <2> HIDE DEF Turns
  <2>6. QED
    BY <2>5
<1> DEFINE D == CHOOSE g : Turns(g)
<1>4. Turns(D)
  BY <1>3, Zenon
<1> HIDE DEF D, F
<1>5. D[0] = <<>> /\ \A i \in 1..L : D[i] = TakeDigit(D[i - 1], t[i])
  <2>1. \A i \in 0..L : D[i] = IF i = 0 THEN <<>>
                               ELSE IF t[i] \in DOMAIN DigitValue THEN Append(D[i - 1], t[i])
                               ELSE D[i - 1]
    BY <1>4
  <2>2. 0 \in 0..L /\ \A i \in 1..L : i \in 0..L /\ i # 0
    BY <1>1
  <2>3. QED
    BY <2>1, <2>2, Zenon DEF TakeDigit
<1>6. \A i \in 0..L : D[i] \in Text
  <2> DEFINE G == {i \in 0..L : D[i] \in Text}
  <2>1. 0 \in G
    BY <1>1, <1>5, EmptyText
  <2>2. ASSUME NEW i \in 1..L, i - 1 \in G
        PROVE  i \in G
    <3>1. D[i - 1] \in Text /\ t[i] \in Char /\ i \in 0..L
      BY <1>1, <2>2
    <3>2. D[i] \in Text
      BY <1>5, <3>1, TakeTyped, Zenon
    <3>3. QED
      BY <3>1, <3>2
  <2>3. \A i \in 1..L : i - 1 \in G => i \in G
    BY <2>2
  <2> HIDE DEF G
  <2>4. \A i \in 0..L : i \in G
    BY <1>1, <2>1, <2>3, Upward
  <2>5. QED
    BY <2>4 DEF G
<1>7. QED
  BY <1>2, <1>5, <1>6, Zenon DEF Takes, L, D

(* The number that digits make, a digit at a time.                         *)
Counts(v, t) ==
    /\ v \in [0..Len(t) -> Nat] /\ v[0] = 0 /\ Value(t) = v[Len(t)]
    /\ \A i \in 1..Len(t) : v[i] = 10 * v[i - 1] + DigitValue[t[i]]

AllDigits(t) == t \in Text /\ \A i \in 1..Len(t) : t[i] \in DOMAIN DigitValue

LEMMA ValueSteps ==
    ASSUME NEW t, AllDigits(t)
    PROVE  \E v : Counts(v, t)
<1> DEFINE L == Len(t)
           F == [i \in 1..L |-> [n \in Nat |-> 10 * n + DigitValue[t[i]]]]
           Turns(f) == f = [i \in 0..L |-> IF i = 0 THEN 0 ELSE 10 * f[i - 1] + DigitValue[t[i]]]
<1>1. L \in Nat /\ \A i \in 1..L : DigitValue[t[i]] \in Nat
  <2>1. L \in Nat
    BY CharsOf DEF AllDigits
  <2>2. \A c \in DOMAIN DigitValue : DigitValue[c] \in 0..9
    BY HeaderAssumption, Zenon
  <2>3. \A c \in DOMAIN DigitValue : DigitValue[c] \in Nat
    BY <2>2
  <2>4. QED
    BY <2>1, <2>3, Zenon DEF AllDigits
<1>2. Value(t) = (CHOOSE f : Turns(f))[L]
  BY Zenon DEF Value
<1> HIDE DEF L
<1>3. PICK f : Turns(f)
  <2>1. F \in [1..L -> [Nat -> Nat]]
    <3>1. \A i \in 1..L, n \in Nat : 10 * n + DigitValue[t[i]] \in Nat
      BY <1>1
    <3>2. QED
      BY <3>1
  <2> HIDE DEF F
  <2>2. \E f : Steps(Nat, 0, L, F, f)
    BY ONLY <1>1, <2>1, Recursion
  <2>3. PICK f \in [0..L -> Nat] : f[0] = 0 /\ \A i \in 1..L : f[i] = F[i][f[i - 1]]
    BY <2>2 DEF Steps
  <2>4. ASSUME NEW i \in 0..L
        PROVE  f[i] = IF i = 0 THEN 0 ELSE 10 * f[i - 1] + DigitValue[t[i]]
    <3>1. CASE i = 0
      BY <2>3, <3>1
    <3>2. CASE i # 0
      <4>1. i \in 1..L /\ i - 1 \in 0..L
        BY <1>1, <3>2
      <4>2. f[i - 1] \in Nat /\ f[i] = F[i][f[i - 1]]
        BY <2>3, <4>1
      <4>3. QED
        BY <3>2, <4>1, <4>2 DEF F
    <3>3. QED
      BY <3>1, <3>2
  <2>5. Turns(f)
    BY <2>3, <2>4
  <2> HIDE DEF Turns
  <2>6. QED
    BY <2>5
<1> DEFINE v == CHOOSE g : Turns(g)
<1>4. Turns(v)
  BY <1>3, Zenon
<1> HIDE DEF v, F
<1>5. v[0] = 0 /\ \A i \in 1..L : v[i] = 10 * v[i - 1] + DigitValue[t[i]]
  <2>1. \A i \in 0..L : v[i] = IF i = 0 THEN 0 ELSE 10 * v[i - 1] + DigitValue[t[i]]
    BY <1>4
  <2>2. 0 \in 0..L /\ \A i \in 1..L : i \in 0..L /\ i # 0
    BY <1>1
  <2>3. QED
    BY <2>1, <2>2, Zenon
<1>6. v \in [0..L -> Nat]
  <2> DEFINE G == {i \in 0..L : v[i] \in Nat}
  <2>1. 0 \in G
    BY <1>1, <1>5
  <2>2. ASSUME NEW i \in 1..L, i - 1 \in G
        PROVE  i \in G
    <3>1. v[i - 1] \in Nat /\ DigitValue[t[i]] \in Nat /\ i \in 0..L
      BY <1>1, <2>2
    <3>2. v[i] = 10 * v[i - 1] + DigitValue[t[i]]
      BY <1>5
    <3>3. QED
      BY <3>1, <3>2
  <2>3. \A i \in 1..L : i - 1 \in G => i \in G
    BY <2>2
  <2> HIDE DEF G
  <2>4. \A i \in 0..L : i \in G
    BY <1>1, <2>1, <2>3, Upward
  <2>5. \A i \in 0..L : v[i] \in Nat
    BY <2>4 DEF G
  <2>6. QED
    BY <1>4, <2>5
<1>7. QED
  BY <1>2, <1>5, <1>6, Zenon DEF Counts, L, v

(* A number divided by ten again and again.                                *)
Divides(r, number, n) ==
    /\ r[0] = number /\ \A i \in 1..n : r[i] = r[i - 1] \div 10

LEMMA RestSteps ==
    ASSUME NEW number \in Nat, NEW n \in Nat, NEW r,
           r = CHOOSE f : f = [i \in 0..n |-> IF i = 0 THEN number ELSE f[i - 1] \div 10]
    PROVE  Divides(r, number, n)
<1> DEFINE F == [i \in 1..n |-> [m \in Nat |-> m \div 10]]
           Turns(f) == f = [i \in 0..n |-> IF i = 0 THEN number ELSE f[i - 1] \div 10]
<1>1. PICK f : Turns(f)
  <2>1. F \in [1..n -> [Nat -> Nat]]
    <3>1. \A m \in Nat : m \div 10 \in Nat
      OBVIOUS
    <3>2. QED
      BY <3>1
  <2> HIDE DEF F
  <2>2. \E f : Steps(Nat, number, n, F, f)
    BY ONLY <2>1, Recursion
  <2>3. PICK f \in [0..n -> Nat] : f[0] = number /\ \A i \in 1..n : f[i] = F[i][f[i - 1]]
    BY <2>2 DEF Steps
  <2>4. ASSUME NEW i \in 0..n
        PROVE  f[i] = IF i = 0 THEN number ELSE f[i - 1] \div 10
    <3>1. CASE i = 0
      BY <2>3, <3>1
    <3>2. CASE i # 0
      <4>1. i \in 1..n /\ i - 1 \in 0..n
        BY <3>2
      <4>2. f[i - 1] \in Nat /\ f[i] = F[i][f[i - 1]]
        BY <2>3, <4>1
      <4>3. QED
        BY <3>2, <4>1, <4>2 DEF F
    <3>3. QED
      BY <3>1, <3>2
  <2>5. Turns(f)
    BY <2>3, <2>4
  <2> HIDE DEF Turns
  <2>6. QED
    BY <2>5
<1>2. Turns(r)
  BY <1>1, Zenon
<1>3. \A i \in 0..n : r[i] = IF i = 0 THEN number ELSE r[i - 1] \div 10
  BY <1>2
<1>4. 0 \in 0..n /\ \A i \in 1..n : i \in 0..n /\ i # 0
  OBVIOUS
<1>5. QED
  BY <1>3, <1>4, Zenon DEF Divides

(* The digits that a number is made of are those it leaves when divided.   *)
LEMMA DigitsWritten ==
    ASSUME NEW t, AllDigits(t)
    PROVE  Writes(Value(t), t)
<1>1. PICK v : Counts(v, t)
  BY ValueSteps
<1>2. PICK n, number, r :
        /\ n = Len(t) /\ number = Value(t)
        /\ r = CHOOSE f : f = [i \in 0..n |-> IF i = 0 THEN number ELSE f[i - 1] \div 10]
  OBVIOUS
<1>3. /\ n \in Nat /\ v \in [0..n -> Nat] /\ v[0] = 0 /\ number = v[n]
      /\ \A i \in 1..n : v[i] = 10 * v[i - 1] + DigitValue[t[i]]
  <2>1. n \in Nat
    BY <1>2, CharsOf DEF AllDigits
  <2>2. QED
    BY <1>1, <1>2, <2>1, Zenon DEF Counts
<1>4. number \in Nat
  BY <1>3
<1>5. Divides(r, number, n)
  BY <1>2, <1>3, <1>4, RestSteps
<1>6. ASSUME NEW i \in 1..n
      PROVE  v[i] \div 10 = v[i - 1] /\ v[i] % 10 = DigitValue[t[i]]
  <2>1. t[i] \in DOMAIN DigitValue
    BY <1>2, Zenon DEF AllDigits
  <2>2. DigitValue[t[i]] \in 0..9
    BY <2>1, HeaderAssumption, Zenon
  <2>3. v[i - 1] \in Nat
    BY <1>3
  <2>4. PICK a, x : a = v[i - 1] /\ x = DigitValue[t[i]]
    OBVIOUS
  <2>5. a \in Nat /\ x \in 0..9 /\ v[i] = 10 * a + x
    BY <1>3, <2>2, <2>3, <2>4, Zenon
  <2>6. (10 * a + x) \div 10 = a /\ (10 * a + x) % 10 = x
    BY ONLY <2>5
  <2>7. QED
    BY <2>4, <2>5, <2>6, Zenon
<1>7. \A i \in 0..n : r[i] = v[n - i]
  <2> DEFINE G == {i \in 0..n : r[i] = v[n - i]}
  <2>1. 0 \in G
    <3>1. n - 0 = n /\ 0 \in 0..n
      BY <1>3
    <3>2. r[0] = v[n]
      BY <1>3, <1>5, Zenon DEF Divides
    <3>3. QED
      BY <3>1, <3>2
  <2>2. ASSUME NEW i \in 1..n, i - 1 \in G
        PROVE  i \in G
    <3>1. i \in 0..n /\ n - (i - 1) \in 1..n /\ (n - (i - 1)) - 1 = n - i
      BY <1>3
    <3>2. r[i - 1] = v[n - (i - 1)]
      BY <2>2
    <3>3. v[n - (i - 1)] \div 10 = v[(n - (i - 1)) - 1]
      BY <1>6, <3>1, Zenon
    <3>4. r[i] = r[i - 1] \div 10
      BY <1>5, Zenon DEF Divides
    <3>5. r[i] = v[n - i]
      BY <3>1, <3>2, <3>3, <3>4, Zenon
    <3>6. QED
      BY <3>1, <3>5
  <2>3. \A i \in 1..n : i - 1 \in G => i \in G
    BY <2>2
  <2> HIDE DEF G
  <2>4. \A i \in 0..n : i \in G
    BY <1>3, <2>1, <2>3, Upward
  <2>5. QED
    BY <2>4 DEF G
<1>8. r[n] = 0
  <2>1. n \in 0..n /\ n - n = 0
    BY <1>3
  <2>2. QED
    BY <1>3, <1>7, <2>1, Zenon
<1>9. ASSUME NEW i \in 1..n
      PROVE  r[n - i] % 10 = DigitValue[t[i]]
  <2>1. n - i \in 0..n /\ n - (n - i) = i
    BY <1>3
  <2>2. r[n - i] = v[i]
    BY <1>7, <2>1, Zenon
  <2>3. QED
    BY <1>6, <2>2, Zenon
<1>10. number \notin Codes
  BY <1>4, HeaderAssumption, Zenon DEF Codes
<1>11. QED
  BY <1>2, <1>8, <1>9, <1>10, ZenonT(40) DEF Writes

-----------------------------------------------------------------------------
(* A line from its colon on, and the value behind it.                      *)
ColonLine(line, value) ==
    /\ line \in Text /\ value \in Text /\ Len(line) = Len(value) + 1
    /\ line[1] = ":" /\ \A j \in 1..Len(value) : line[1 + j] = value[j]

Plain(value) == Range(value) \intersect Range(Crlf) = {}

(* The characters that matter are different ones.                          *)
LEMMA NoDigits ==
    /\ Range(Crlf) = {"CR", "LF"}
    /\ ":" \notin Range(Crlf) /\ " " \notin Range(Crlf) /\ "CR" \in Range(Crlf)
    /\ ":" \notin DOMAIN DigitValue /\ " " \notin DOMAIN DigitValue
    /\ \A c \in DOMAIN DigitValue : c \notin Range(Crlf)
<1>1. PICK cr, lf : cr = "CR" /\ lf = "LF"
  OBVIOUS
<1>2. Range(<<cr, lf>>) = {cr, lf}
  BY DEF Range
<1>3. Range(Crlf) = {"CR", "LF"}
  BY <1>1, <1>2, Zenon DEF Crlf
<1>4. ":" \notin Range(Crlf) /\ " " \notin Range(Crlf) /\ "CR" \in Range(Crlf)
  BY <1>3, Zenon
<1>5. \A c \in DOMAIN DigitValue : c # ":" /\ c # " " /\ c # "CR" /\ c # "LF"
  BY HeaderAssumption, Zenon
<1>6. \A c \in DOMAIN DigitValue : c \notin Range(Crlf)
  BY <1>3, <1>5, Zenon
<1>7. QED
  BY <1>3, <1>4, <1>5, <1>6, Zenon

(* A part of a text.                                                       *)
Piece(t, m, n) == SubSeq(t, m + 1, m + n)

LEMMA PartOf ==
    ASSUME NEW t \in Text, NEW m \in Nat, NEW n \in Nat, m + n <= Len(t)
    PROVE  /\ Piece(t, m, n) \in Text /\ Len(Piece(t, m, n)) = n
           /\ \A i \in 1..n : Piece(t, m, n)[i] = t[m + i]
<1>1. PICK L, q : L = Len(t) /\ q = SubSeq(t, m + 1, m + n)
  OBVIOUS
<1>2. L \in Nat /\ t \in Seq(Char) /\ m + n <= L
  BY <1>1, TextsTyped
<1>3. Len(q) = n /\ \A i \in 1..n : q[i] = t[(m + 1) + i - 1]
  BY <1>1, <1>2
<1>4. \A i \in 1..n : (m + 1) + i - 1 = m + i
  OBVIOUS
<1>5. q \in Seq(Char)
  BY <1>1, <1>2
<1>6. q \in Text /\ Len(q) = n /\ \A i \in 1..n : q[i] = t[m + i]
  BY <1>3, <1>4, <1>5, Zenon DEF Text
<1>7. QED
  BY <1>1, <1>6, Zenon DEF Piece

(* The line ends where the value does, if there is no lone CR or LF in it. *)
LEMMA LineFacts ==
    ASSUME NEW header \in Text, NEW start \in Nat \ {0}, NEW width \in Nat,
           header[start] = ":", start + width \in Occurrences(Crlf, header),
           NEW value, value = SubSeq(header, start + 1, start + width), Plain(value)
    PROVE  ColonLine(Line(After(header, start - 1)), value)
<1>1. PICK t, L, colon : t = After(header, start - 1) /\ L = Len(header) /\ colon = ":"
  OBVIOUS
<1>2. L \in Nat /\ (start + width) + 2 <= L /\ header[(start + width) + 1] = "CR"
  <2>1. EndsAt(header, start + width)
    BY CrlfAt, Zenon
  <2>2. L \in Nat
    BY <1>1, TextsTyped
  <2>3. QED
    BY <1>1, <2>1, <2>2, Zenon DEF EndsAt
<1>3. start - 1 \in 0..L /\ L - (start - 1) \in Nat /\ width + 2 <= L - (start - 1)
  BY <1>2
<1>4. /\ t \in Text /\ Len(t) = L - (start - 1)
      /\ \A i \in 1..Len(t) : t[i] = header[(start - 1) + i]
  BY <1>1, <1>3, AfterFacts, Zenon
<1>5. /\ value \in Text /\ Len(value) = width
      /\ \A j \in 1..width : value[j] = header[start + j]
  <2>1. start + width <= Len(header)
    BY <1>1, <1>2
  <2>2. /\ start \in Nat /\ width \in Nat /\ header \in Text
    OBVIOUS
  <2>3. value = Piece(header, start, width)
    BY Zenon DEF Piece
  <2>4. QED
    BY ONLY <2>1, <2>2, <2>3, PartOf, Zenon
<1>6. t[1] = ":" /\ t[width + 2] = "CR" /\ \A j \in 1..width : t[1 + j] = value[j]
  <2>1. /\ 1 \in 1..Len(t) /\ (start - 1) + 1 = start
        /\ width + 2 \in 1..Len(t) /\ (start - 1) + (width + 2) = (start + width) + 1
        /\ \A j \in 1..width : 1 + j \in 1..Len(t) /\ (start - 1) + (1 + j) = start + j
    <3>1. L \in Nat /\ Len(t) = L - (start - 1)
      BY <1>2, <1>4, Zenon
    <3>2. start \in Nat \ {0} /\ width \in Nat
      OBVIOUS
    <3>3. QED
      BY ONLY <1>3, <3>1, <3>2
  <2>2. t[1] = header[start] /\ t[width + 2] = header[(start + width) + 1]
    BY <1>4, <2>1, Zenon
  <2>3. \A j \in 1..width : t[1 + j] = header[start + j]
    BY <1>4, <2>1, Zenon
  <2>4. QED
    BY <1>2, <1>5, <2>2, <2>3, Zenon
<1> DEFINE ends == {i \in DOMAIN t : t[i] \in Range(Crlf)}
<1>7. DOMAIN t = 1..Len(t)
  BY <1>4 DEF Text
<1>8. width + 2 \in ends /\ ends \in SUBSET Nat
  <2>1. width + 2 \in DOMAIN t
    BY <1>3, <1>4, <1>7
  <2>2. t[width + 2] \in Range(Crlf)
    BY <1>6, NoDigits, Zenon
  <2>3. \A i \in DOMAIN t : i \in Nat
    BY <1>7
  <2>4. QED
    BY <2>1, <2>2, <2>3
<1>9. ASSUME NEW i \in ends
      PROVE  width + 2 <= i
  <2>1. i \in 1..Len(t) /\ t[i] \in Range(Crlf)
    BY <1>7
  <2>2. i # 1
    BY <1>6, <2>1, NoDigits, Zenon
  <2>3. i - 1 \notin 1..width
    <3>1. ASSUME i - 1 \in 1..width
          PROVE  FALSE
      <4>1. 1 + (i - 1) = i
        BY <2>1
      <4>2. t[i] = value[i - 1]
        BY <1>6, <3>1, <4>1, Zenon
      <4>3. value[i - 1] \in Range(value)
        <5>1. i - 1 \in DOMAIN value
          BY <1>5, <3>1 DEF Text
        <5>2. QED
          BY <5>1, Zenon DEF Range
      <4>4. QED
        BY <2>1, <4>2, <4>3, Zenon DEF Plain
    <3>2. QED
      BY <3>1
  <2>4. QED
    BY <2>1, <2>2, <2>3
<1>10. Min(ends) = width + 2
  <2>1. \A i \in ends : width + 2 <= i
    BY <1>9
  <2> HIDE DEF ends
  <2>2. QED
    BY <1>8, <2>1, MinIs
<1>11. PICK line : line = Line(t)
  OBVIOUS
<1>12. line = SubSeq(t, 0 + 1, 0 + (width + 1))
  <2>1. line = SubSeq(t, 1, Min(ends) - 1)
    BY <1>11, Zenon DEF Line
  <2>2. Min(ends) - 1 = 0 + (width + 1) /\ 1 = 0 + 1
    BY <1>10
  <2>3. QED
    BY <2>1, <2>2, Zenon
<1>13. /\ line \in Text /\ Len(line) = width + 1
       /\ \A i \in 1..(width + 1) : line[i] = t[0 + i]
  <2>1. 0 \in Nat /\ width + 1 \in Nat /\ 0 + (width + 1) <= Len(t)
    BY <1>3, <1>4
  <2>2. line = Piece(t, 0, width + 1)
    BY <1>12, Zenon DEF Piece
  <2>3. t \in Text
    BY <1>4, Zenon
  <2>4. QED
    BY ONLY <2>1, <2>2, <2>3, PartOf, Zenon
<1>14. line[1] = ":" /\ \A j \in 1..width : line[1 + j] = value[j]
  <2>1. 1 \in 1..(width + 1) /\ 0 + 1 = 1
        /\ \A j \in 1..width : 1 + j \in 1..(width + 1) /\ 0 + (1 + j) = 1 + j
    OBVIOUS
  <2>2. line[1] = t[1]
    <3>1. line[1] = t[0 + 1]
      BY <1>13, <2>1, Zenon
    <3>2. QED
      BY <2>1, <3>1, Zenon
  <2>3. ASSUME NEW j \in 1..width
        PROVE  line[1 + j] = t[1 + j]
    <3>1. line[1 + j] = t[0 + (1 + j)]
      BY <1>13, <2>1, Zenon
    <3>2. QED
      BY <2>1, <3>1, Zenon
  <2>4. QED
    BY <1>6, <2>2, <2>3, Zenon
<1>15. QED
  BY <1>1, <1>5, <1>11, <1>13, <1>14, Zenon DEF ColonLine

(* The colon is no digit: the line has those of the value.                 *)
LEMMA DigitsOfLine ==
    ASSUME NEW line, NEW value, ColonLine(line, value)
    PROVE  /\ \A j \in 0..Len(value) : DigitsTo(line)[1 + j] = DigitsTo(value)[j]
           /\ Digits(line) = Digits(value)
<1>1. PICK n, D, E : n = Len(value) /\ D = DigitsTo(line) /\ E = DigitsTo(value)
  OBVIOUS
<1>2. /\ n \in Nat /\ Len(line) = n + 1 /\ line[1] = ":"
      /\ \A j \in 1..n : line[1 + j] = value[j]
  <2>1. n \in Nat
    BY <1>1, TextsTyped DEF ColonLine
  <2>2. QED
    BY <1>1, <2>1, Zenon DEF ColonLine
<1>3. Takes(D, line) /\ Takes(E, value)
  BY <1>1, DigitsSteps, Zenon DEF ColonLine
<1>4. D[1] = <<>> /\ E[0] = <<>>
  <2>1. 1 \in 1..Len(line) /\ 1 - 1 = 0
    BY <1>2
  <2>2. D[1] = TakeDigit(D[0], ":")
    BY <1>2, <1>3, <2>1, Zenon DEF Takes
  <2>3. QED
    BY <1>3, <2>2, NoDigits, Zenon DEF Takes, TakeDigit
<1>5. \A j \in 0..n : D[1 + j] = E[j]
  <2> DEFINE G == {j \in 0..n : D[1 + j] = E[j]}
  <2>1. 0 \in G
    <3>1. 1 + 0 = 1 /\ 0 \in 0..n
      BY <1>2
    <3>2. QED
      BY <1>4, <3>1
  <2>2. ASSUME NEW j \in 1..n, j - 1 \in G
        PROVE  j \in G
    <3>1. D[1 + (j - 1)] = E[j - 1]
      BY <2>2
    <3>2. 1 + j \in 1..Len(line) /\ (1 + j) - 1 = 1 + (j - 1) /\ j \in 0..n
      BY <1>2
    <3>3. D[1 + j] = TakeDigit(D[(1 + j) - 1], line[1 + j])
      BY <1>3, <3>2, Zenon DEF Takes
    <3>4. E[j] = TakeDigit(E[j - 1], value[j])
      BY <1>1, <1>3, Zenon DEF Takes
    <3>5. D[1 + j] = E[j]
      BY <1>2, <3>1, <3>2, <3>3, <3>4, Zenon
    <3>6. QED
      BY <3>2, <3>5
  <2>3. \A j \in 1..n : j - 1 \in G => j \in G
    BY <2>2
  <2> HIDE DEF G
  <2>4. \A j \in 0..n : j \in G
    BY <1>2, <2>1, <2>3, Upward
  <2>5. QED
    BY <2>4 DEF G
<1>6. Digits(line) = Digits(value)
  <2>1. n \in 0..n /\ 1 + n = n + 1
    BY <1>2
  <2>2. D[n + 1] = E[n]
    BY <1>5, <2>1, Zenon
  <2>3. QED
    BY <1>1, <1>2, <2>2, Zenon DEF Digits
<1>7. QED
  BY <1>1, <1>5, <1>6, Zenon

(* So much of the digits has been seen, behind so many spaces.             *)
Trail(d, value, n, j) ==
    /\ d \in Text /\ Len(d) = IF j <= n THEN 0 ELSE j - n
    /\ \A i \in 1..Len(d) : d[i] = value[n + i]

OfLength(c, j, n) == IF j <= n THEN c = " " ELSE c \in DOMAIN DigitValue

LEMMA TrailStep ==
    ASSUME NEW value \in Text, NEW n \in Nat, NEW j \in 1..Len(value), NEW d,
           Trail(d, value, n, j - 1),
           OfLength(value[j], j, n)
    PROVE  Trail(TakeDigit(d, value[j]), value, n, j)
<1>1. PICK c : c = value[j]
  OBVIOUS
<1>2. c \in Char /\ j \in Nat /\ j # 0
  <2>1. Len(value) \in Nat /\ c \in Char
    BY <1>1, CharsOf, Zenon
  <2>2. QED
    BY <2>1
<1>3. d \in Seq(Char) /\ \A i \in 1..Len(d) : d[i] = value[n + i]
  BY Zenon DEF Trail, Text
<1>4. Len(d) = IF j - 1 <= n THEN 0 ELSE (j - 1) - n
  BY Zenon DEF Trail
<1>5. CASE j <= n
  <2>1. c \notin DOMAIN DigitValue
    BY <1>1, <1>5, NoDigits, Zenon DEF OfLength
  <2>2. TakeDigit(d, c) = d
    BY <2>1, Zenon DEF TakeDigit
  <2>3. j - 1 <= n
    BY <1>2, <1>5
  <2>4. QED
    BY <1>1, <1>3, <1>4, <1>5, <2>2, <2>3, Zenon DEF Trail, Text
<1>6. CASE ~(j <= n)
  <2>1. TakeDigit(d, c) = Append(d, c)
    BY <1>1, <1>6, Zenon DEF OfLength, TakeDigit
  <2>2. PICK e, m : e = Append(d, c) /\ m = Len(d)
    OBVIOUS
  <2>3. m = (j - 1) - n /\ m \in Nat /\ n + (m + 1) = j
    BY <1>2, <1>4, <1>6, <2>2
  <2>4. /\ e \in Seq(Char) /\ Len(e) = m + 1 /\ e[m + 1] = c
        /\ \A i \in 1..m : e[i] = d[i]
    BY <1>2, <1>3, <2>2
  <2>5. ASSUME NEW i \in 1..(m + 1)
        PROVE  e[i] = value[n + i]
    <3>1. CASE i = m + 1
      BY <1>1, <2>3, <2>4, <3>1, Zenon
    <3>2. CASE i # m + 1
      <4>1. i \in 1..m
        BY <2>3, <3>2
      <4>2. QED
        BY <1>3, <2>2, <2>4, <4>1, Zenon
    <3>3. QED
      BY <3>1, <3>2
  <2>6. m + 1 = j - n
    BY <1>2, <2>3
  <2>7. QED
    BY <1>1, <1>6, <2>1, <2>2, <2>4, <2>5, <2>6, Zenon DEF Trail, Text
<1>7. QED
  BY <1>5, <1>6

(* The digits of a length are what is behind its spaces.                   *)
LEMMA Spaced ==
    ASSUME NEW value \in Text, NEW n \in Nat, IsLength(value, n)
    PROVE  /\ \A j \in 0..Len(value) : Trail(DigitsTo(value)[j], value, n, j)
           /\ Digits(value) = SubSeq(value, n + 1, Len(value))
           /\ AllDigits(Digits(value)) /\ Len(Digits(value)) <= MaxDigits
           /\ Len(value) \in Nat /\ n <= Len(value) /\ Len(value) - n <= MaxDigits
<1>1. PICK m, E : m = Len(value) /\ E = DigitsTo(value)
  OBVIOUS
<1>2. /\ m \in Nat /\ n <= m /\ m - n \in Nat /\ m - n <= MaxDigits /\ m - n # 0
      /\ DOMAIN value = 1..m
  <2>1. m \in Nat /\ DOMAIN value = 1..m
    BY <1>1 DEF Text
  <2>2. m - n \in 1..MaxDigits /\ MaxDigits \in Nat
    BY <1>1, HeaderAssumption, Zenon DEF IsLength
  <2>3. QED
    BY <2>1, <2>2
<1>3. \A i \in 1..m : OfLength(value[i], i, n)
  BY <1>2, Zenon DEF IsLength, OfLength
<1>4. Takes(E, value)
  BY <1>1, DigitsSteps, Zenon
<1>5. \A j \in 0..m : Trail(E[j], value, n, j)
  <2> DEFINE G == {j \in 0..m : Trail(E[j], value, n, j)}
  <2>1. 0 \in G
    <3>1. 0 <= n /\ 0 \in 0..m /\ Len(<<>>) = 0 /\ 1..0 = {}
      BY <1>2
    <3>2. Trail(<<>>, value, n, 0)
      <4>1. \A i \in 1..0 : <<>>[i] = value[n + i]
        BY <3>1
      <4>2. QED
        <5>1. Len(<<>>) = IF 0 <= n THEN 0 ELSE 0 - n
          BY <3>1
        <5>2. \A i \in 1..Len(<<>>) : <<>>[i] = value[n + i]
          BY <3>1, <4>1, Zenon
        <5>3. QED
          BY <5>1, <5>2, EmptyText, Zenon DEF Trail
    <3>3. E[0] = <<>>
      BY <1>4, Zenon DEF Takes
    <3>4. QED
      BY <3>1, <3>2, <3>3, Zenon
  <2>2. ASSUME NEW j \in 1..m, j - 1 \in G
        PROVE  j \in G
    <3>1. Trail(E[j - 1], value, n, j - 1) /\ j \in 0..m
      BY <2>2
    <3>2. E[j] = TakeDigit(E[j - 1], value[j])
      BY <1>1, <1>4, Zenon DEF Takes
    <3>3. Trail(TakeDigit(E[j - 1], value[j]), value, n, j)
      BY <1>1, <1>3, <3>1, TrailStep, Zenon
    <3>4. QED
      BY <3>1, <3>2, <3>3, Zenon
  <2>3. \A j \in 1..m : j - 1 \in G => j \in G
    BY <2>2
  <2> HIDE DEF G
  <2>4. \A j \in 0..m : j \in G
    BY <1>2, <2>1, <2>3, Upward
  <2>5. QED
    BY <2>4, Zenon DEF G
<1>6. PICK d : d = Digits(value)
  OBVIOUS
<1>7. d \in Text /\ Len(d) = m - n /\ \A i \in 1..(m - n) : d[i] = value[n + i]
  <2>1. m \in 0..m
    BY <1>2
  <2>2. Trail(d, value, n, m)
    BY <1>1, <1>5, <1>6, <2>1, Zenon DEF Digits
  <2>3. d \in Text /\ Len(d) = IF m <= n THEN 0 ELSE m - n
    BY <2>2, Zenon DEF Trail
  <2>4. Len(d) = m - n
    BY <1>2, <2>3
  <2>5. QED
    BY <2>2, <2>3, <2>4, Zenon DEF Trail
<1>8. d = SubSeq(value, n + 1, m)
  <2>1. n + (m - n) <= m /\ n + (m - n) = m
    BY <1>2
  <2>2. /\ Piece(value, n, m - n) \in Text /\ Len(Piece(value, n, m - n)) = m - n
        /\ \A i \in 1..(m - n) : Piece(value, n, m - n)[i] = value[n + i]
    <3>1. n + (m - n) <= Len(value)
      BY <1>1, <2>1, Zenon
    <3>2. value \in Text /\ n \in Nat /\ m - n \in Nat
      BY <1>2
    <3>3. QED
      BY ONLY <3>1, <3>2, PartOf, Zenon
  <2>3. PICK q : q = Piece(value, n, m - n)
    OBVIOUS
  <2>4. /\ d \in Seq(Char) /\ q \in Seq(Char) /\ Len(d) = Len(q)
        /\ \A i \in 1..Len(d) : d[i] = q[i]
    BY <1>7, <2>2, <2>3, Zenon DEF Text
  <2>5. d = q
    BY ONLY <2>4, SeqEqual
  <2>6. QED
    BY <2>1, <2>3, <2>5, Zenon DEF Piece
<1>9. AllDigits(d)
  <2>1. ASSUME NEW i \in 1..(m - n)
        PROVE  d[i] \in DOMAIN DigitValue
    <3>1. n + i \in 1..m /\ ~(n + i <= n)
      BY <1>2
    <3>2. QED
      BY <1>3, <1>7, <3>1, Zenon DEF OfLength
  <2>2. QED
    BY <1>7, <2>1, Zenon DEF AllDigits
<1>10. QED
  BY <1>1, <1>2, <1>5, <1>6, <1>7, <1>8, <1>9, Zenon

(* There is no end of a line in it.                                        *)
LEMMA LengthPlain ==
    ASSUME NEW value, NEW n, IsLength(value, n)
    PROVE  Plain(value)
<1>1. ASSUME NEW c \in Range(value)
      PROVE  c \notin Range(Crlf)
  <2>1. PICK i \in DOMAIN value : c = value[i]
    BY Zenon DEF Range
  <2>2. c = " " \/ c \in DOMAIN DigitValue
    BY <2>1, Zenon DEF IsLength
  <2>3. QED
    BY <2>2, NoDigits, Zenon
<1>2. QED
  BY <1>1, Zenon DEF Plain

(* The loop sees all of the line that holds a length.                      *)
Number(t, i) == Len(DigitsTo(t)[i])

LEMMA SeenWhole ==
    ASSUME NEW line, NEW value, ColonLine(line, value),
           NEW n \in 0..(MaxOthers - 1), IsLength(value, n)
    PROVE  Scanned(line) = line
<1>1. PICK m : m = Len(value)
  OBVIOUS
<1>2. n \in Nat /\ n + 1 <= MaxOthers /\ MaxOthers \in Nat /\ MaxDigits \in Nat
  <2>1. MaxOthers \in Nat /\ MaxDigits \in Nat
    <3>1. MaxOthers \in Nat /\ MaxDigits \in Nat \ {0}
      BY HeaderAssumption, Zenon
    <3>2. QED
      BY <3>1
  <2>2. QED
    BY <2>1
<1>3. value \in Text /\ line \in Text /\ Len(line) = m + 1
  BY <1>1, Zenon DEF ColonLine
<1>4. /\ m \in Nat /\ n <= m /\ m - n <= MaxDigits
      /\ \A j \in 0..m : Trail(DigitsTo(value)[j], value, n, j)
  BY <1>1, <1>2, <1>3, Spaced, Zenon
<1>5. \A j \in 0..m : Number(line, 1 + j) = IF j <= n THEN 0 ELSE j - n
  <2>1. ASSUME NEW j \in 0..m
        PROVE  Number(line, 1 + j) = IF j <= n THEN 0 ELSE j - n
    <3>1. DigitsTo(line)[1 + j] = DigitsTo(value)[j]
      BY <1>1, DigitsOfLine, Zenon
    <3>2. Len(DigitsTo(value)[j]) = IF j <= n THEN 0 ELSE j - n
      BY <1>4, Zenon DEF Trail
    <3>3. QED
      BY <3>1, <3>2, Zenon DEF Number
  <2>2. QED
    BY <2>1
<1>6. Number(line, 0) = 0
  <2>1. DigitsTo(line)[0] = <<>>
    BY <1>3, DigitsSteps, Zenon DEF Takes
  <2>2. Len(<<>>) = 0
    OBVIOUS
  <2>3. QED
    BY <2>1, <2>2, Zenon DEF Number
<1>7. ASSUME NEW i \in 1..(m + 1)
      PROVE  /\ ~((i - 1) - Number(line, i - 1) > MaxOthers)
             /\ ~(Number(line, i - 1) > MaxDigits)
  <2>1. PICK x : x = Number(line, i - 1)
    OBVIOUS
  <2>2. CASE i = 1
    <3>1. i - 1 = 0
      BY <2>2
    <3>2. x = 0
      BY <1>6, <2>1, <3>1, Zenon
    <3>3. QED
      BY <1>2, <2>1, <2>2, <3>2
  <2>3. CASE i # 1
    <3>1. i - 2 \in 0..m /\ 1 + (i - 2) = i - 1
      BY <1>4, <2>3
    <3>2. x = IF i - 2 <= n THEN 0 ELSE (i - 2) - n
      BY <1>5, <2>1, <3>1, Zenon
    <3>3. ~((i - 1) - x > MaxOthers) /\ ~(x > MaxDigits)
      BY ONLY <1>2, <1>4, <3>1, <3>2, i \in 1..(m + 1)
    <3>4. QED
      BY <2>1, <3>3, Zenon
  <2>4. QED
    BY <2>2, <2>3
<1>8. DOMAIN line = 1..(m + 1)
  BY <1>3 DEF Text
<1>9. {i \in DOMAIN line : \/ (i - 1) - Len(DigitsTo(line)[i - 1]) > MaxOthers
                           \/ Len(DigitsTo(line)[i - 1]) > MaxDigits} = {}
  BY <1>7, <1>8, Zenon DEF Number
<1>10. QED
  BY <1>9, Zenon DEF Scanned

(* What is answered if the name is found, ...                              *)
LEMMA FoundAnswer ==
    ASSUME NEW header, NEW key, NEW start, start = FieldStart(header, key),
           start \notin Codes,
           NEW line, line = Line(After(header, start - 1)), NEW seen, seen = Scanned(line)
    PROVE  ContentLength(header, key) =
             IF Len(Digits(seen)) > MaxDigits THEN Wild
             ELSE IF seen # line THEN None ELSE Parse(Digits(seen))
<1>1. start # Wild /\ start # None
  BY Zenon DEF Codes
<1>2. QED
  BY <1>1, Zenon DEF ContentLength

(* ... and if it is not.                                                   *)
LEMMA NotFoundAnswer ==
    ASSUME NEW header, NEW key, FieldStart(header, key) = None
    PROVE  ContentLength(header, key) = 0
<1>1. None # Wild /\ None \in Codes
  BY HeaderAssumption, Zenon DEF Codes
<1>2. QED
  BY <1>1, Zenon DEF ContentLength

(* The length of the body is the number that the header says.              *)
LEMMA LengthsRead ==
    ASSUME NEW header \in Text, NEW key \in Text, Readable(header, key)
    PROVE  LengthAsSaid(header, key)
<1>1. CASE FieldLines(header, key) = {}
  BY <1>1, NothingSaid, NotFoundAnswer, Zenon DEF LengthAsSaid
<1>2. CASE FieldLines(header, key) # {}
  <2>1. PICK start, width : Holds(header, key, start, width)
    BY <1>2, ValueSaid, Zenon
  <2>2. PICK value, line, seen, length :
          /\ value = Said(header, key) /\ line = Line(After(header, start - 1))
          /\ seen = Scanned(line) /\ length = ContentLength(header, key)
    OBVIOUS
  <2>3. length = IF Len(Digits(seen)) > MaxDigits THEN Wild
                 ELSE IF seen # line THEN None ELSE Parse(Digits(seen))
    <3>1. start = FieldStart(header, key) /\ start \notin Codes
      BY <2>1, Zenon DEF Holds
    <3>2. line = Line(After(header, start - 1)) /\ seen = Scanned(line)
      BY <2>2, Zenon
    <3>3. ContentLength(header, key) =
            IF Len(Digits(seen)) > MaxDigits THEN Wild
            ELSE IF seen # line THEN None ELSE Parse(Digits(seen))
      BY ONLY <3>1, <3>2, FoundAnswer
    <3>4. QED
      BY <2>2, <3>3, Zenon
  <2>4. ASSUME Plain(value)
        PROVE  ColonLine(line, value)
    <3>1. /\ start \in Nat \ {0} /\ width \in Nat /\ header[start] = ":"
          /\ start + width \in Occurrences(Crlf, header)
          /\ value = SubSeq(header, start + 1, start + width)
      BY <2>1, <2>2, Zenon DEF Holds
    <3>2. QED
      BY <2>2, <2>4, <3>1, LineFacts, Zenon
  <2>5. ASSUME NEW spaces \in 0..(MaxOthers - 1), IsLength(value, spaces)
        PROVE  Writes(length, SubSeq(value, spaces + 1, Len(value)))
    <3>1. ColonLine(line, value)
      BY <2>4, <2>5, LengthPlain, Zenon
    <3>2. seen = line /\ Digits(line) = Digits(value)
      BY <2>2, <2>5, <3>1, SeenWhole, DigitsOfLine, Zenon
    <3>3. spaces \in Nat /\ value \in Text
      BY <3>1 DEF ColonLine
    <3>4. PICK d : d = Digits(value)
      OBVIOUS
    <3>5. /\ d = SubSeq(value, spaces + 1, Len(value)) /\ AllDigits(d)
          /\ Len(d) <= MaxDigits
      BY <2>5, <3>3, <3>4, Spaced, Zenon
    <3>6. Len(d) \in Nat /\ MaxDigits \in Nat
      BY <3>5, CharsOf, HeaderAssumption DEF AllDigits
    <3>7. ~(Len(d) > MaxDigits)
      BY <3>5, <3>6
    <3>8. length = Value(d)
      BY <2>3, <3>2, <3>4, <3>7, Zenon DEF Parse
    <3>9. QED
      BY <3>5, <3>8, DigitsWritten, Zenon
  <2>6. ASSUME Plain(value), Len(Digits(value)) > MaxDigits
        PROVE  length \in Codes
    <3>1. Digits(line) = Digits(value)
      BY <2>4, <2>6, DigitsOfLine, Zenon
    <3>2. Wild \in Codes /\ None \in Codes
      BY Zenon DEF Codes
    <3>3. CASE seen = line
      BY <2>3, <2>6, <3>1, <3>2, <3>3, Zenon
    <3>4. CASE seen # line
      BY <2>3, <3>2, <3>4, Zenon
    <3>5. QED
      BY <3>3, <3>4
  <2>7. QED
    BY <1>2, <2>2, <2>5, <2>6, Zenon DEF LengthAsSaid, Plain
<1>3. QED
  BY <1>1, <1>2

(* In every state, and for all headers and names, both functions give the  *)
(* value that a header says, and neither looks beyond the header.          *)
THEOREM FieldsAreRead == Spec => []FieldsAsSaid
<1>1. FieldsAsSaid
  <2>1. ASSUME NEW header \in Texts, NEW key \in Names, Readable(header, key)
        PROVE  FieldAsSaid(header, key)
    <3>1. header \in Text /\ key \in Text
      BY TextsTyped, Zenon
    <3>2. QED
      BY <2>1, <3>1, FieldsRead, Zenon
  <2>2. QED
    BY <2>1, Zenon DEF FieldsAsSaid
<1>2. QED
  BY <1>1, PTL

(* And the length of the body is the number that the header says.          *)
THEOREM LengthsAreRead == Spec => []LengthsAsSaid
<1>1. LengthsAsSaid
  <2>1. ASSUME NEW header \in Texts, NEW key \in Names, Readable(header, key)
        PROVE  LengthAsSaid(header, key)
    <3>1. header \in Text /\ key \in Text
      BY TextsTyped, Zenon
    <3>2. QED
      BY <2>1, <3>1, LengthsRead, Zenon
  <2>2. QED
    BY <2>1, Zenon DEF LengthsAsSaid
<1>2. QED
  BY <1>1, PTL

=============================================================================
