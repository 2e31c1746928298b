---------------------------- MODULE ConfigProofs ----------------------------
(***************************************************************************)
(* For every file, every configuration and every number of processes: what *)
(* cmon reads is never an old file's emptiness, no word is listed more     *)
(* often than it is written, and what is written in the layout of          *)
(* README.md is listed as it is written.                                   *)
(*                                                                         *)
(* Tokenize and Parse are recursive functions.  That they have values, and *)
(* what all their values have in common, is shown step by step upward      *)
(* (Recursion, Upward), by least counterexample; each step is Scan or      *)
(* Follow.  Config's own invariant then has a step per action.  That a     *)
(* file is read as it is written goes upward too: over its blocks, in each *)
(* over its entries, and in each of those a token at a time (Reads).       *)
(***************************************************************************)
EXTENDS Config, FiniteSetTheorems, WellFoundedInduction, TLAPS

(* A set of numbers has a least one.                                       *)
LEMMA LeastNumber ==
    ASSUME NEW S \in SUBSET Nat, S # {}
    PROVE  \E m \in S : \A n \in S : m <= n
<1>1. PICK N \in S : TRUE
  OBVIOUS
<1> DEFINE T == {1..n : n \in {k \in S : k <= N}}
           Sub == StrictSubsetOrdering(1..N)
<1>2. IsFiniteSet(1..N)
  BY <1>1, FS_Interval
<1>3. T \subseteq SUBSET (1..N) /\ 1..N \in T
  BY <1>1
<1> HIDE DEF T, Sub
<1>4. IsWellFoundedOn(Sub, SUBSET (1..N))
  <2>1. FiniteSubsetsOf(1..N) = SUBSET (1..N)
    BY <1>2, FS_FiniteSubsetsOfFinite
  <2>2. IsWellFoundedOn(StrictSubsetOrdering(1..N), FiniteSubsetsOf(1..N))
    BY FS_StrictSubsetOrderingWellFounded
  <2>3. QED
    BY <2>1, <2>2, Zenon DEF Sub
<1>5. PICK A \in T : \A B \in T : ~(<<B, A>> \in Sub)
  BY <1>3, <1>4, WFMin
<1>6. PICK m \in S : m <= N /\ A = 1..m
  BY DEF T
<1>7. ASSUME NEW n \in S, n < m
      PROVE  FALSE
  <2>1. 1..n \in T
    BY <1>1, <1>6, <1>7 DEF T
  <2>2. 1..n \subseteq 1..m /\ 1..n # 1..m
    BY <1>7
  <2>3. <<1..n, 1..m>> \in Sub
    BY <1>3, <1>6, <2>1, <2>2 DEF Sub, StrictSubsetOrdering
  <2>4. QED
    BY <1>5, <1>6, <2>1, <2>3
<1>8. QED
  BY <1>7

(* What holds at the start, and after each step if before it, holds of all.*)
LEMMA Upward ==
    ASSUME NEW n \in Nat, NEW G, 0 \in G,
           \A k \in 1..n : k - 1 \in G => k \in G
    PROVE  \A k \in 0..n : k \in G
<1> DEFINE Out == {k \in 0..n : k \notin G}
<1>1. SUFFICES ASSUME Out # {} PROVE FALSE
  OBVIOUS
<1>2. PICK m \in Out : \A k \in Out : m <= k
  <2>1. Out \in SUBSET Nat
    OBVIOUS
  <2> HIDE DEF Out
  <2>2. QED
    BY <1>1, <2>1, LeastNumber
<1>3. m \in 1..n /\ m - 1 \in 0..n /\ ~(m <= m - 1)
  BY <1>2
<1>4. m - 1 \in G
  BY <1>2, <1>3
<1>5. QED
  BY <1>2, <1>3, <1>4

(* Steps of one state to the next can be taken one after the other.        *)
Steps(S, base, n, F, f) ==
    f \in [0..n -> S] /\ f[0] = base /\ \A i \in 1..n : f[i] = F[i][f[i - 1]]

(* There is what takes them.                                               *)
LEMMA Recursion ==
    ASSUME NEW S, NEW base \in S, NEW n \in Nat, NEW F \in [1..n -> [S -> S]]
    PROVE  \E f : Steps(S, base, n, F, f)
<1> DEFINE Done(k) == \E f \in [0..k -> S] : f[0] = base /\ \A i \in 1..k : f[i] = F[i][f[i - 1]]
           G == {k \in 0..n : Done(k)}
<1>1. 0 \in G
  <2>1. [i \in 0..0 |-> base] \in [0..0 -> S]
    OBVIOUS
  <2>2. Done(0)
    <3>1. [i \in 0..0 |-> base][0] = base /\ 1..0 = {}
      OBVIOUS
    <3>2. QED
      BY <2>1, <3>1
  <2>3. 0 \in 0..n
    OBVIOUS
  <2> HIDE DEF Done
  <2>4. QED
    BY <2>2, <2>3
<1>2. ASSUME NEW k \in 1..n, k - 1 \in G
      PROVE  k \in G
  <2>1. PICK f \in [0..(k - 1) -> S] : f[0] = base /\ \A i \in 1..(k - 1) : f[i] = F[i][f[i - 1]]
    BY <1>2
  <2> DEFINE g == [i \in 0..k |-> IF i = k THEN F[k][f[k - 1]] ELSE f[i]]
  <2>2. g \in [0..k -> S]
    <3>1. f[k - 1] \in S
      BY <2>1
    <3>2. F[k][f[k - 1]] \in S
      BY <3>1
    <3>3. ASSUME NEW i \in 0..k, i # k
          PROVE  f[i] \in S
      <4>1. i \in 0..(k - 1)
        BY <3>3
      <4>2. QED
        BY <2>1, <4>1
    <3>4. QED
      BY <3>2, <3>3
  <2>3. g[0] = base
    BY <2>1
  <2>4. ASSUME NEW i \in 1..k
        PROVE  g[i] = F[i][g[i - 1]]
    <3>1. i - 1 \in 0..k /\ i - 1 # k /\ i \in 0..k
      BY <2>4
    <3>2. g[i - 1] = f[i - 1]
      BY <3>1
    <3>3. CASE i = k
      BY <3>1, <3>2, <3>3
    <3>4. CASE i # k
      <4>1. i \in 1..(k - 1)
        BY <3>4
      <4>2. g[i] = f[i]
        BY <3>1, <3>4
      <4>3. QED
        BY <2>1, <3>2, <4>1, <4>2
    <3>5. QED
      BY <3>3, <3>4
  <2>5. Done(k)
    BY <2>2, <2>3, <2>4
  <2>6. k \in 0..n
    BY <1>2
  <2> HIDE DEF Done
  <2>7. QED
    BY <2>5, <2>6
<1>3. n \in G
  <2> HIDE DEF G
  <2>1. \A k \in 0..n : k \in G
    BY <1>1, <1>2, Upward
  <2>2. QED
    BY <2>1
<1>4. QED
  BY <1>3 DEF Steps

-----------------------------------------------------------------------------
(* What joins the elements of s one after the other.                       *)
Runs(s, F) == F[0] = <<>> /\ \A i \in 1..Len(s) : F[i] = F[i - 1] \o s[i]

(* FlattenSeq does.                                                        *)
LEMMA FlattenSteps ==
    ASSUME NEW T, NEW s \in Seq(Seq(T))
    PROVE  \E F \in [0..Len(s) -> Seq(T)] : Runs(s, F) /\ FlattenSeq(s) = F[Len(s)]
<1> DEFINE n == Len(s)
           F == [i \in 1..n |-> [v \in Seq(T) |-> v \o s[i]]]
           Joins(f) == f = [i \in 1..n |-> IF i = 1 THEN s[i] ELSE f[i - 1] \o s[i]]
<1>1. n \in Nat /\ <<>> \in Seq(T) /\ \A i \in 1..n : s[i] \in Seq(T)
  OBVIOUS
<1>2. F \in [1..n -> [Seq(T) -> Seq(T)]]
  <2>1. \A i \in 1..n, v \in Seq(T) : v \o s[i] \in Seq(T)
    BY <1>1
  <2>2. QED
    BY <2>1
<1> HIDE DEF F, n
<1>3. PICK f \in [0..n -> Seq(T)] : f[0] = <<>> /\ \A i \in 1..n : f[i] = F[i][f[i - 1]]
  <2>1. n \in Nat /\ <<>> \in Seq(T)
    BY <1>1 DEF n
  <2>2. \E f : Steps(Seq(T), <<>>, n, F, f)
    BY ONLY <1>2, <2>1, Recursion
  <2>3. QED
    BY <2>2 DEF Steps
<1>4. ASSUME NEW i \in 1..n
      PROVE  f[i] = f[i - 1] \o s[i]
  <2>1. i - 1 \in 0..n /\ f[i - 1] \in Seq(T)
    BY <1>1, <1>3
  <2>2. QED
    BY <1>3, <2>1 DEF F
<1>5. Runs(s, f)
  BY <1>3, <1>4 DEF Runs, n
<1>6. CASE n = 0
  <2>1. s = <<>> /\ FlattenSeq(s) = s
    BY <1>6 DEF FlattenSeq, n
  <2>2. QED
    BY <1>3, <1>5, <1>6, <2>1 DEF n
<1>7. CASE n # 0
  <2> DEFINE g == [i \in 1..n |-> f[i]]
  <2>1. ASSUME NEW i \in 1..n
        PROVE  g[i] = IF i = 1 THEN s[i] ELSE g[i - 1] \o s[i]
    <3>1. CASE i = 1
      <4>1. i - 1 = 0
        BY <3>1
      <4>2. f[i] = <<>> \o s[i]
        BY <1>3, <1>4, <4>1
      <4>3. QED
        BY <1>1, <3>1, <4>2
    <3>2. CASE i # 1
      <4>1. i - 1 \in 1..n
        BY <1>1, <3>2
      <4>2. QED
        BY <1>4, <3>2, <4>1
    <3>3. QED
      BY <3>1, <3>2
  <2>2. Joins(g)
    BY <2>1
  <2> DEFINE h == CHOOSE k : Joins(k)
  <2>3. Joins(h)
    BY <2>2
  <2>4. FlattenSeq(s) = h[n]
    BY <1>7 DEF FlattenSeq, n
  <2> HIDE DEF h
  <2>5. \A i \in 1..n : h[i] = IF i = 1 THEN s[i] ELSE h[i - 1] \o s[i]
    BY <2>3
  <2>6. \A i \in 1..n : g[i] = IF i = 1 THEN s[i] ELSE g[i - 1] \o s[i]
    BY <2>1
  <2> HIDE DEF g
  <2> DEFINE G == {0} \union {i \in 1..n : h[i] = g[i]}
  <2>7. ASSUME NEW k \in 1..n, k - 1 \in G
        PROVE  k \in G
    <3>1. CASE k = 1
      BY <2>5, <2>6, <3>1
    <3>2. CASE k # 1
      <4>1. h[k - 1] = g[k - 1]
        BY <2>7, <3>2
      <4>2. h[k] = h[k - 1] \o s[k] /\ g[k] = g[k - 1] \o s[k]
        BY <2>5, <2>6, <3>2
      <4>3. h[k] = g[k]
        BY <4>1, <4>2
      <4>4. QED
        BY <4>3
    <3>3. QED
      BY <3>1, <3>2
  <2>8. n \in G
    <3>1. 0 \in G
      OBVIOUS
    <3> HIDE DEF G
    <3>2. \A k \in 0..n : k \in G
      BY <1>1, <2>7, <3>1, Upward
    <3>3. QED
      BY <1>1, <3>2
  <2>9. n \in 1..n /\ h[n] = g[n]
    BY <1>1, <1>7, <2>8
  <2>10. g[n] = f[n]
    BY <2>9 DEF g
  <2>11. QED
    BY <1>3, <1>5, <2>4, <2>9, <2>10 DEF n
<1>8. QED
  BY <1>6, <1>7

(* Sequences that are joined make one.                                     *)
LEMMA FlattenTyped ==
    ASSUME NEW T, NEW s \in Seq(Seq(T))
    PROVE  FlattenSeq(s) \in Seq(T)
<1>1. PICK F \in [0..Len(s) -> Seq(T)] : FlattenSeq(s) = F[Len(s)]
  BY FlattenSteps
<1>2. Len(s) \in 0..Len(s)
  OBVIOUS
<1>3. QED
  BY <1>1, <1>2

(* Short sequences.                                                        *)
LEMMA Pieces ==
    ASSUME NEW T
    PROVE  \A a, b, c \in T : <<a>> \in Seq(T) /\ <<a, b>> \in Seq(T) /\ <<a, b, c>> \in Seq(T)
OBVIOUS

(* What a sequence is, ...                                                 *)
LEMMA Elements ==
    ASSUME NEW T, NEW s \in Seq(T)
    PROVE  DOMAIN s = 1..Len(s) /\ Len(s) \in Nat /\ \A i \in 1..Len(s) : s[i] \in T
OBVIOUS

(* ... how one is made, ...                                                *)
LEMMA Built ==
    ASSUME NEW T, NEW n \in Nat, NEW f \in [1..n -> T]
    PROVE  f \in Seq(T)
OBVIOUS

(* ... joined, ...                                                         *)
LEMMA Joined ==
    ASSUME NEW T
    PROVE  \A s, t \in Seq(T) : s \o t \in Seq(T)
OBVIOUS

(* ... and seen in a larger set.                                           *)
LEMMA Wider ==
    ASSUME NEW S, NEW T, S \subseteq T, NEW s \in Seq(S)
    PROVE  s \in Seq(T)
OBVIOUS

(* The bounds, alone.                                                      *)
LEMMA Limit == MaxEntries \in Nat /\ MaxFiles \in Nat /\ 1 <= MaxFiles
<1>1. MaxEntries \in Nat /\ MaxFiles \in Nat \ {0}
  BY ConfigAssumption, Zenon
<1>2. QED
  BY ONLY <1>1

(* What files are made of.                                                 *)
LEMMA SymbolsAre ==
    /\ Words \subseteq Symbols /\ {" ", ","} \subseteq Symbols
    /\ "{" \in Symbols /\ "}" \in Symbols /\ "quote" \in Symbols /\ ":" \in Symbols
BY DEF Symbols

(* What files are made of: an entry, and a block.                          *)
EntryOf(w, gap) == <<"quote", w, "quote">> \o gap

BlockOf(b, gap) ==
    <<b.key, ":">> \o gap.key \o <<"{">> \o gap.open
    \o FlattenSeq([i \in DOMAIN b.entries |-> EntryOf(b.entries[i], gap.entry)])
    \o <<"}">> \o gap.close

(* A layout is made of pieces, too.                                        *)
LEMMA LayoutPieces ==
    ASSUME NEW gap \in Layouts
    PROVE  /\ gap.key \in Seq(Spaces) /\ gap.open \in Seq(Spaces)
           /\ gap.entry \in Seq(Spaces) /\ gap.close \in Seq(Spaces)
           /\ gap.key \in Seq(Symbols) /\ gap.open \in Seq(Symbols)
           /\ gap.entry \in Seq(Symbols) /\ gap.close \in Seq(Symbols)
<1>1. Spaces \subseteq Symbols
  BY SymbolsAre DEF Spaces
<1> HIDE DEF Spaces
<1>2. /\ gap.key \in Seq(Spaces) /\ gap.open \in Seq(Spaces)
      /\ gap.entry \in Seq(Spaces) /\ gap.close \in Seq(Spaces)
  BY DEF Layouts
<1>3. QED
  BY <1>1, <1>2, Wider

(* An entry is a sequence of pieces, and so are all of them joined, ...    *)
LEMMA EntriesTyped ==
    ASSUME NEW e \in Seq(Words), NEW gap \in Seq(Symbols)
    PROVE  /\ \A w \in Words : /\ <<"quote", w, "quote">> \in Seq(Symbols)
                               /\ EntryOf(w, gap) \in Seq(Symbols)
           /\ [i \in DOMAIN e |-> EntryOf(e[i], gap)] \in Seq(Seq(Symbols))
           /\ FlattenSeq([i \in DOMAIN e |-> EntryOf(e[i], gap)]) \in Seq(Symbols)
<1>1. ASSUME NEW w \in Words
      PROVE  <<"quote", w, "quote">> \in Seq(Symbols) /\ EntryOf(w, gap) \in Seq(Symbols)
  <2>1. <<"quote", w, "quote">> \in Seq(Symbols)
    BY SymbolsAre, Pieces
  <2>2. QED
    BY <2>1, Joined DEF EntryOf
<1>2. DOMAIN e = 1..Len(e) /\ Len(e) \in Nat /\ \A i \in 1..Len(e) : e[i] \in Words
  BY Elements
<1>3. [i \in 1..Len(e) |-> EntryOf(e[i], gap)] \in [1..Len(e) -> Seq(Symbols)]
  BY <1>1, <1>2
<1>4. [i \in DOMAIN e |-> EntryOf(e[i], gap)] \in Seq(Seq(Symbols))
  BY <1>2, <1>3, Built
<1>5. QED
  BY <1>1, <1>4, FlattenTyped

(* ... a block, ...                                                        *)
LEMMA BlockTyped ==
    ASSUME NEW b \in Blocks, NEW gap \in Layouts
    PROVE  BlockOf(b, gap) \in Seq(Symbols)
<1>1. b.key \in Words /\ b.entries \in Seq(Words)
  BY DEF Blocks
<1>2. <<b.key, ":">> \in Seq(Symbols) /\ <<"{">> \in Seq(Symbols) /\ <<"}">> \in Seq(Symbols)
  BY <1>1, SymbolsAre, Pieces
<1>3. FlattenSeq([i \in DOMAIN b.entries |-> EntryOf(b.entries[i], gap.entry)]) \in Seq(Symbols)
  BY <1>1, LayoutPieces, EntriesTyped
<1>4. QED
  BY <1>2, <1>3, LayoutPieces, Joined DEF BlockOf

(* ... a configuration is blocks, ...                                      *)
LEMMA WrittenBlocks ==
    ASSUME NEW config, NEW gap
    PROVE  Written(config, gap) = FlattenSeq([i \in DOMAIN config |-> BlockOf(config[i], gap)])
BY DEF Written, BlockOf, EntryOf

(* ... its blocks, ...                                                     *)
LEMMA BlocksTyped ==
    ASSUME NEW config \in Seq(Blocks), NEW gap \in Layouts
    PROVE  [i \in DOMAIN config |-> BlockOf(config[i], gap)] \in Seq(Seq(Symbols))
<1>1. DOMAIN config = 1..Len(config) /\ Len(config) \in Nat
      /\ \A i \in 1..Len(config) : config[i] \in Blocks
  BY Elements
<1>2. [i \in 1..Len(config) |-> BlockOf(config[i], gap)] \in [1..Len(config) -> Seq(Symbols)]
  BY <1>1, BlockTyped
<1>3. QED
  BY <1>1, <1>2, Built

(* ... and so is what they make.                                           *)
LEMMA WrittenTyped ==
    ASSUME NEW config \in Seq(Blocks), NEW gap \in Layouts
    PROVE  Written(config, gap) \in Seq(Symbols)
<1>1. [i \in DOMAIN config |-> BlockOf(config[i], gap)] \in Seq(Seq(Symbols))
  BY BlocksTyped
<1>2. QED
  BY <1>1, WrittenBlocks, FlattenTyped

(* The layout of the default content is one.                               *)
LEMMA DefaultLaidOut == DefaultGaps \in Layouts
<1>1. <<" ">> \in Seq(Spaces) /\ <<",">> \in Seq(Spaces) /\ <<",", " ">> \in Seq(Spaces)
  <2>1. PICK x, y : x = " " /\ y = ","
    BY Zenon
  <2>2. x \in Spaces /\ y \in Spaces
    BY <2>1, Zenon DEF Spaces
  <2>3. <<x>> \in Seq(Spaces) /\ <<y>> \in Seq(Spaces) /\ <<y, x>> \in Seq(Spaces)
    BY ONLY <2>2, Pieces
  <2>4. QED
    BY <2>1, <2>3, Zenon
<1>2. PICK a, b, c : a = <<" ">> /\ b = <<",", " ">> /\ c = <<",">>
  BY Zenon
<1>3. a \in Seq(Spaces) /\ b \in Seq(Spaces) /\ c \in Seq(Spaces)
  BY <1>1, <1>2, Zenon
<1>4. DefaultGaps = [key |-> a, open |-> b, entry |-> b, close |-> c]
  BY <1>2, Zenon DEF DefaultGaps
<1>5. [key |-> a, open |-> b, entry |-> b, close |-> c] \in Layouts
  BY ONLY <1>3 DEF Layouts
<1>6. QED
  BY <1>4, <1>5, Zenon

(* Those that are there at the start, and the default one.                 *)
LEMMA FilesTyped == UserFiles \subseteq Seq(Symbols) /\ DefaultFile \in Seq(Symbols)
<1>1. \A c \in UserConfigs \union {Default}, g \in UserGaps \union {DefaultGaps} :
         c \in Seq(Blocks) /\ g \in Layouts
  BY DefaultLaidOut, ConfigAssumption
<1>2. \A c \in UserConfigs \union {Default}, g \in UserGaps \union {DefaultGaps} :
         Written(c, g) \in Seq(Symbols)
  BY <1>1, WrittenTyped
<1>3. DefaultFile \in Seq(Symbols)
  BY <1>2 DEF DefaultFile
<1>4. {Written(c, g) : c \in UserConfigs, g \in UserGaps} \subseteq Seq(Symbols)
  <2> SUFFICES ASSUME NEW c \in UserConfigs, NEW g \in UserGaps
               PROVE  Written(c, g) \in Seq(Symbols)
    OBVIOUS
  <2>1. QED
    BY <1>2
<1>5. OddFiles \subseteq Seq(Symbols)
  BY ConfigAssumption
<1>6. QED
  BY <1>3, <1>4, <1>5 DEF UserFiles

-----------------------------------------------------------------------------
(* The places of a word among the first n.                                 *)
PlacesUpto(s, n, w) == {i \in 1..n : s[i] = w}
WithinUpto(ss, n, w) == UNION {{i} \X Places(ss[i], w) : i \in 1..n}

(* They are finitely many, ...                                             *)
LEMMA PlacesFinite ==
    ASSUME NEW T, NEW s \in Seq(T), NEW w
    PROVE  /\ IsFiniteSet(Places(s, w)) /\ Cardinality(Places(s, w)) \in Nat
           /\ Places(s, w) = PlacesUpto(s, Len(s), w)
<1>1. DOMAIN s = 1..Len(s) /\ Len(s) \in Nat
  BY Elements
<1>2. Places(s, w) \subseteq 1..Len(s) /\ IsFiniteSet(1..Len(s))
  BY <1>1, FS_Interval DEF Places
<1>3. IsFiniteSet(Places(s, w)) /\ Cardinality(Places(s, w)) \in Nat
  BY <1>2, FS_Subset, FS_CardinalityType
<1>4. QED
  BY <1>1, <1>3 DEF Places, PlacesUpto

(* ... and one place further they may be one more, ...                     *)
LEMMA PlacesMore ==
    ASSUME NEW s, NEW n \in Nat, NEW m \in Nat, m = n + 1, NEW w
    PROVE  /\ IsFiniteSet(PlacesUpto(s, n, w)) /\ Cardinality(PlacesUpto(s, n, w)) \in Nat
           /\ Cardinality(PlacesUpto(s, m, w))
                = Cardinality(PlacesUpto(s, n, w)) + (IF s[m] = w THEN 1 ELSE 0)
<1>1. IsFiniteSet(PlacesUpto(s, n, w)) /\ Cardinality(PlacesUpto(s, n, w)) \in Nat
  <2>1. PlacesUpto(s, n, w) \subseteq 1..n /\ IsFiniteSet(1..n)
    BY FS_Interval DEF PlacesUpto
  <2>2. QED
    BY <2>1, FS_Subset, FS_CardinalityType
<1>2. 1..m = 1..n \union {m} /\ m \notin 1..n
  OBVIOUS
<1>3. CASE s[m] = w
  <2>1. PlacesUpto(s, m, w) = PlacesUpto(s, n, w) \union {m} /\ m \notin PlacesUpto(s, n, w)
    BY <1>2, <1>3 DEF PlacesUpto
  <2>2. Cardinality(PlacesUpto(s, n, w) \union {m}) = Cardinality(PlacesUpto(s, n, w)) + 1
    BY <1>1, <2>1, FS_AddElement
  <2>3. QED
    BY <1>1, <1>3, <2>1, <2>2
<1>4. CASE s[m] # w
  <2>1. PlacesUpto(s, m, w) = PlacesUpto(s, n, w)
    BY <1>2, <1>4 DEF PlacesUpto
  <2>2. QED
    BY <1>1, <1>4, <2>1
<1>5. QED
  BY <1>3, <1>4

(* ... as with one word more.                                              *)
LEMMA PlacesAppend ==
    ASSUME NEW T, NEW s \in Seq(T), NEW c \in T, NEW w
    PROVE  Cardinality(Places(Append(s, c), w))
              = Cardinality(Places(s, w)) + (IF c = w THEN 1 ELSE 0)
<1>1. PICK t, n, m : t = Append(s, c) /\ n = Len(s) /\ m = n + 1
  OBVIOUS
<1>2. /\ t \in Seq(T) /\ n \in Nat /\ m \in Nat /\ Len(t) = m /\ t[m] = c
      /\ \A i \in 1..n : t[i] = s[i]
  BY <1>1
<1>3. Places(t, w) = PlacesUpto(t, m, w) /\ Places(s, w) = PlacesUpto(s, n, w)
  BY <1>1, <1>2, PlacesFinite
<1>4. PlacesUpto(t, n, w) = PlacesUpto(s, n, w)
  BY <1>2 DEF PlacesUpto
<1>5. Cardinality(PlacesUpto(t, m, w)) = Cardinality(PlacesUpto(t, n, w)) + (IF t[m] = w THEN 1 ELSE 0)
  <2>1. n \in Nat /\ m \in Nat /\ m = n + 1
    BY <1>1, <1>2
  <2>2. QED
    BY ONLY <2>1, PlacesMore
<1>6. QED
  BY <1>1, <1>2, <1>3, <1>4, <1>5

(* The same in a sequence of sequences: one of them more, ...              *)
LEMMA WithinFinite ==
    ASSUME NEW T, NEW ss \in Seq(Seq(T)), NEW n \in 0..Len(ss), NEW w
    PROVE  /\ IsFiniteSet(WithinUpto(ss, n, w)) /\ Cardinality(WithinUpto(ss, n, w)) \in Nat
           /\ Within(ss, w) = WithinUpto(ss, Len(ss), w)
           /\ \A m \in 0..Len(ss) : m = n + 1 =>
                 Cardinality(WithinUpto(ss, m, w))
                    = Cardinality(WithinUpto(ss, n, w)) + Cardinality(Places(ss[m], w))
<1> DEFINE G == {k \in Nat : IsFiniteSet(WithinUpto(ss, k, w))}
<1>1. DOMAIN ss = 1..Len(ss) /\ Len(ss) \in Nat /\ \A i \in 1..Len(ss) : ss[i] \in Seq(T)
  BY Elements
<1>2. Within(ss, w) = WithinUpto(ss, Len(ss), w)
  BY <1>1 DEF Within, WithinUpto
<1>3. ASSUME NEW k \in Nat, NEW m \in 1..Len(ss), m = k + 1, IsFiniteSet(WithinUpto(ss, k, w))
      PROVE  /\ IsFiniteSet(WithinUpto(ss, m, w))
             /\ Cardinality(WithinUpto(ss, m, w))
                  = Cardinality(WithinUpto(ss, k, w)) + Cardinality(Places(ss[m], w))
  <2> DEFINE A == WithinUpto(ss, k, w)
             P == Places(ss[m], w)
             B == {m} \X P
  <2>1. WithinUpto(ss, m, w) = A \union B
    <3>1. 1..m = 1..k \union {m}
      BY <1>3
    <3>2. QED
      BY <3>1 DEF WithinUpto
  <2>2. A \intersect B = {}
    <3>1. \A p \in A : p[1] \in 1..k
      BY DEF WithinUpto
    <3>2. \A p \in B : p[1] = m
      OBVIOUS
    <3>3. m \notin 1..k
      BY <1>3
    <3> HIDE DEF A, B
    <3>4. QED
      BY <3>1, <3>2, <3>3
  <2>3. IsFiniteSet(P) /\ Cardinality(P) \in Nat
    BY <1>1, PlacesFinite
  <2>4. IsFiniteSet({m}) /\ Cardinality({m}) = 1
    BY FS_Singleton
  <2> HIDE DEF P
  <2>5. IsFiniteSet(B) /\ Cardinality(B) = 1 * Cardinality(P)
    BY <2>3, <2>4, FS_Product
  <2> HIDE DEF A, B
  <2>6. /\ IsFiniteSet(A \union B)
        /\ Cardinality(A \union B) = Cardinality(A) + Cardinality(B) - Cardinality(A \intersect B)
    BY <1>3, <2>5, FS_Union DEF A
  <2>7. Cardinality(A \intersect B) = 0 /\ Cardinality(A) \in Nat
    BY <1>3, <2>2, FS_EmptySet, FS_CardinalityType DEF A
  <2>8. Cardinality(A \union B) = Cardinality(A) + Cardinality(P)
    BY <2>3, <2>5, <2>6, <2>7
  <2>9. QED
    BY <2>1, <2>6, <2>8 DEF A, P
<1>4. 0 \in G
  <2>1. WithinUpto(ss, 0, w) = {}
    BY DEF WithinUpto
  <2>2. QED
    BY <2>1, FS_EmptySet
<1>5. ASSUME NEW k \in 1..Len(ss), k - 1 \in G
      PROVE  k \in G
  <2>1. PICK j : j = k - 1
    OBVIOUS
  <2>2. j \in Nat /\ k \in 1..Len(ss) /\ k = j + 1 /\ IsFiniteSet(WithinUpto(ss, j, w))
    BY <1>5, <2>1
  <2>3. IsFiniteSet(WithinUpto(ss, k, w))
    BY <1>3, <2>2
  <2>4. QED
    BY <2>3
<1>6. \A k \in 0..Len(ss) : IsFiniteSet(WithinUpto(ss, k, w))
  <2> HIDE DEF G
  <2>1. \A k \in 0..Len(ss) : k \in G
    BY <1>1, <1>4, <1>5, Upward
  <2>2. QED
    BY <2>1 DEF G
<1>7. \A k \in 0..Len(ss) : Cardinality(WithinUpto(ss, k, w)) \in Nat
  BY <1>6, FS_CardinalityType
<1>8. ASSUME NEW m \in 0..Len(ss), m = n + 1
      PROVE  Cardinality(WithinUpto(ss, m, w))
                = Cardinality(WithinUpto(ss, n, w)) + Cardinality(Places(ss[m], w))
  <2>1. n \in Nat /\ m \in 1..Len(ss) /\ IsFiniteSet(WithinUpto(ss, n, w))
    BY <1>6, <1>8
  <2>2. QED
    BY <1>3, <1>8, <2>1
<1>9. QED
  BY <1>2, <1>6, <1>7, <1>8

(* ... at the end.                                                         *)
LEMMA WithinAppend ==
    ASSUME NEW T, NEW ss \in Seq(Seq(T)), NEW t \in Seq(T), NEW w
    PROVE  /\ Cardinality(Within(Append(ss, t), w))
                 = Cardinality(Within(ss, w)) + Cardinality(Places(t, w))
           /\ IsFiniteSet(Within(ss, w)) /\ Cardinality(Within(ss, w)) \in Nat
<1>1. PICK rr, n, m : rr = Append(ss, t) /\ n = Len(ss) /\ m = n + 1
  OBVIOUS
<1>2. /\ rr \in Seq(Seq(T)) /\ n \in Nat /\ m \in Nat /\ Len(rr) = m /\ rr[m] = t
      /\ \A i \in 1..n : rr[i] = ss[i]
  <2>1. \A S : \A s \in Seq(S), e \in S :
           /\ Append(s, e) \in Seq(S) /\ Len(s) \in Nat /\ Len(Append(s, e)) = Len(s) + 1
           /\ Append(s, e)[Len(s) + 1] = e
           /\ \A i \in 1..Len(s) : Append(s, e)[i] = s[i]
    OBVIOUS
  <2>2. QED
    BY <1>1, <2>1
<1>3. n \in 0..Len(rr) /\ m \in 0..Len(rr) /\ n \in 0..Len(ss)
  BY <1>1, <1>2
<1>4. /\ Cardinality(WithinUpto(rr, m, w)) = Cardinality(WithinUpto(rr, n, w)) + Cardinality(Places(t, w))
      /\ Within(rr, w) = WithinUpto(rr, m, w)
  <2>1. rr \in Seq(Seq(T)) /\ n \in 0..Len(rr) /\ m \in 0..Len(rr) /\ m = n + 1
    BY <1>1, <1>2, <1>3
  <2>2. /\ Within(rr, w) = WithinUpto(rr, Len(rr), w)
        /\ \A k \in 0..Len(rr) : k = n + 1 =>
              Cardinality(WithinUpto(rr, k, w))
                = Cardinality(WithinUpto(rr, n, w)) + Cardinality(Places(rr[k], w))
    BY ONLY <2>1, WithinFinite
  <2>3. Cardinality(WithinUpto(rr, m, w)) = Cardinality(WithinUpto(rr, n, w)) + Cardinality(Places(rr[m], w))
    BY ONLY <2>1, <2>2
  <2>4. QED
    BY <1>2, <2>2, <2>3
<1>5. /\ Within(ss, w) = WithinUpto(ss, n, w) /\ IsFiniteSet(WithinUpto(ss, n, w))
      /\ Cardinality(WithinUpto(ss, n, w)) \in Nat
  BY <1>1, <1>3, WithinFinite
<1>6. WithinUpto(rr, n, w) = WithinUpto(ss, n, w)
  BY <1>2 DEF WithinUpto
<1>7. QED
  BY <1>1, <1>4, <1>5, <1>6

-----------------------------------------------------------------------------
(* The tokenizer: what its states are, and how often they hold a word.     *)
Kinds == {"TEXT", "NUMBER", "STRING", "{", "}", ":"}
Tokens == [type : Kinds, value : Seq(Words)]
Scanned == [tokens : Seq(Tokens), lexem : Seq(Words), quoted : BOOLEAN, overrun : BOOLEAN]

Values(tokens) == [i \in 1..Len(tokens) |-> tokens[i].value]
Cut(s, w) == Cardinality(Within(Values(s.tokens), w))
Held(s, w) == Cut(s, w) + Cardinality(Places(s.lexem, w))

(* Append, by element.                                                     *)
LEMMA Appended ==
    ASSUME NEW T, NEW s \in Seq(T), NEW e \in T, NEW n, n = Len(s)
    PROVE  /\ Append(s, e) \in Seq(T) /\ n \in Nat /\ Len(Append(s, e)) = n + 1
           /\ Append(s, e) = [i \in 1..(n + 1) |-> IF i = n + 1 THEN e ELSE s[i]]
<1>1. PICK t : t = Append(s, e)
  OBVIOUS
<1>2. t \in Seq(T) /\ n \in Nat /\ Len(t) = n + 1
  BY <1>1
<1>3. DOMAIN t = 1..(n + 1) /\ t = [i \in 1..(n + 1) |-> t[i]]
  BY <1>2
<1>4. \A i \in 1..(n + 1) : t[i] = IF i = n + 1 THEN e ELSE s[i]
  BY <1>1, <1>2
<1>5. QED
  BY <1>1, <1>2, <1>3, <1>4

(* The values of the tokens: their type, ...                               *)
LEMMA ValuesTyped ==
    ASSUME NEW tokens \in Seq(Tokens)
    PROVE  Values(tokens) \in Seq(Seq(Words)) /\ Len(Values(tokens)) = Len(tokens)
<1>1. Len(tokens) \in Nat /\ \A i \in 1..Len(tokens) : tokens[i] \in Tokens
  BY Elements
<1>2. \A i \in 1..Len(tokens) : tokens[i].value \in Seq(Words)
  BY <1>1 DEF Tokens
<1>3. Values(tokens) \in [1..Len(tokens) -> Seq(Words)]
  BY <1>2 DEF Values
<1>4. Values(tokens) \in Seq(Seq(Words))
  BY <1>1, <1>3, Built
<1>5. DOMAIN Values(tokens) = 1..Len(tokens)
  BY DEF Values
<1>6. QED
  BY <1>1, <1>4, <1>5

(* ... and those of one token more.                                        *)
LEMMA ValuesAppend ==
    ASSUME NEW tokens \in Seq(Tokens), NEW t \in Tokens
    PROVE  Values(Append(tokens, t)) = Append(Values(tokens), t.value)
<1>1. PICK v : v = t.value
  OBVIOUS
<1>2. Values(tokens) \in Seq(Seq(Words)) /\ Len(Values(tokens)) = Len(tokens)
  BY ValuesTyped
<1>3. Len(tokens) \in Nat /\ Len(Append(tokens, t)) = Len(tokens) + 1
  OBVIOUS
<1>4. PICK n : n = Len(tokens)
  OBVIOUS
<1>5. \A i \in 1..(n + 1) : Append(tokens, t)[i] = IF i = n + 1 THEN t ELSE tokens[i]
  BY <1>3, <1>4, Appended
<1>6. Append(Values(tokens), v) = [i \in 1..(n + 1) |-> IF i = n + 1 THEN v ELSE Values(tokens)[i]]
  <2>1. PICK u : u = Values(tokens)
    OBVIOUS
  <2>2. u \in Seq(Seq(Words)) /\ v \in Seq(Words) /\ n = Len(u)
    BY <1>1, <1>2, <1>4, <2>1 DEF Tokens
  <2>3. Append(u, v) = [i \in 1..(n + 1) |-> IF i = n + 1 THEN v ELSE u[i]]
    BY ONLY <2>2, Appended
  <2>4. QED
    BY <2>1, <2>3
<1>7. \A i \in 1..n : Values(tokens)[i] = tokens[i].value
  BY <1>4 DEF Values
<1>8. Values(Append(tokens, t)) = [i \in 1..(n + 1) |-> Append(tokens, t)[i].value]
  BY <1>3, <1>4 DEF Values
<1>9. \A i \in 1..(n + 1) : i = n + 1 \/ i \in 1..n
  BY <1>3, <1>4
<1>10. \A i \in 1..(n + 1) : Append(tokens, t)[i].value = IF i = n + 1 THEN v ELSE Values(tokens)[i]
  BY <1>1, <1>5, <1>7, <1>9
<1>11. QED
  BY <1>1, <1>6, <1>8, <1>10

(* A token more, if there is room.                                         *)
LEMMA PutTyped ==
    ASSUME NEW s \in Scanned, NEW t \in Tokens, NEW w
    PROVE  /\ Put(s, t) \in Scanned /\ Put(s, t).lexem = s.lexem /\ Put(s, t).quoted = s.quoted
           /\ Cut(s, w) \in Nat /\ Cut(Put(s, t), w) \in Nat
           /\ Cut(Put(s, t), w) <= Cut(s, w) + Cardinality(Places(t.value, w))
           /\ Cardinality(Places(t.value, w)) \in Nat
           /\ Cardinality(Places(s.lexem, w)) \in Nat
<1>1. s.tokens \in Seq(Tokens) /\ s.lexem \in Seq(Words) /\ t.value \in Seq(Words)
  BY DEF Scanned, Tokens
<1>2. Cardinality(Places(t.value, w)) \in Nat /\ Cardinality(Places(s.lexem, w)) \in Nat
  BY <1>1, PlacesFinite
<1>3. /\ Cardinality(Within(Append(Values(s.tokens), t.value), w))
            = Cut(s, w) + Cardinality(Places(t.value, w))
      /\ Cut(s, w) \in Nat
  BY <1>1, ValuesTyped, WithinAppend DEF Cut
<1>4. CASE Len(s.tokens) >= MaxTokens
  BY <1>2, <1>3, <1>4 DEF Put
<1>5. CASE ~(Len(s.tokens) >= MaxTokens)
  <2>1. Put(s, t) = [s EXCEPT !.tokens = Append(s.tokens, t)]
    BY <1>5 DEF Put
  <2>2. Append(s.tokens, t) \in Seq(Tokens)
    BY <1>1
  <2>3. Put(s, t) \in Scanned /\ Put(s, t).lexem = s.lexem /\ Put(s, t).quoted = s.quoted
        /\ Put(s, t).tokens = Append(s.tokens, t)
    BY <2>1, <2>2 DEF Scanned
  <2>4. Cut(Put(s, t), w) = Cut(s, w) + Cardinality(Places(t.value, w))
    BY <1>1, <1>3, <2>3, ValuesAppend DEF Cut
  <2>5. QED
    BY <1>2, <1>3, <2>3, <2>4
<1>6. QED
  BY <1>4, <1>5

(* Nothing has no places.                                                  *)
LEMMA NonePlaced == ASSUME NEW w PROVE Cardinality(Places(<<>>, w)) = 0
<1>1. Places(<<>>, w) = {}
  BY DEF Places
<1>2. QED
  BY <1>1, FS_EmptySet

(* A lexeme becomes the value of a token, and is empty then.               *)
LEMMA PutLexem ==
    ASSUME NEW s \in Scanned, NEW kind \in Kinds, NEW w
    PROVE  LET r == [Put(s, Token(kind, s.lexem)) EXCEPT !.lexem = <<>>]
           IN r \in Scanned /\ r.quoted = s.quoted /\ Held(r, w) \in Nat /\ Held(s, w) \in Nat
              /\ Held(r, w) <= Held(s, w)
<1> DEFINE t == Token(kind, s.lexem)
           p == Put(s, t)
           r == [p EXCEPT !.lexem = <<>>]
<1>1. t \in Tokens /\ t.value = s.lexem
  BY DEF Token, Tokens, Scanned
<1> HIDE DEF t
<1>2. /\ p \in Scanned /\ p.quoted = s.quoted
      /\ Cut(s, w) \in Nat /\ Cut(p, w) \in Nat
      /\ Cut(p, w) <= Cut(s, w) + Cardinality(Places(s.lexem, w))
      /\ Cardinality(Places(s.lexem, w)) \in Nat
  BY <1>1, PutTyped
<1> HIDE DEF p
<1>3. r \in Scanned /\ r.tokens = p.tokens /\ r.lexem = <<>> /\ r.quoted = p.quoted
  <2>1. <<>> \in Seq(Words)
    OBVIOUS
  <2>2. p \in [tokens : Seq(Tokens), lexem : Seq(Words), quoted : BOOLEAN, overrun : BOOLEAN]
    BY <1>2 DEF Scanned
  <2>3. r \in [tokens : Seq(Tokens), lexem : Seq(Words), quoted : BOOLEAN, overrun : BOOLEAN]
    BY <2>1, <2>2
  <2>4. r.tokens = p.tokens /\ r.lexem = <<>> /\ r.quoted = p.quoted
    BY <2>2
  <2>5. QED
    BY <2>3, <2>4 DEF Scanned
<1>4. Cut(r, w) = Cut(p, w)
  BY <1>3 DEF Cut
<1>5. Cardinality(Places(r.lexem, w)) = 0
  BY <1>3, NonePlaced
<1>6. Held(r, w) = Cut(p, w) /\ Held(s, w) = Cut(s, w) + Cardinality(Places(s.lexem, w))
  BY <1>2, <1>4, <1>5 DEF Held
<1>7. r \in Scanned /\ r.quoted = s.quoted /\ Held(r, w) \in Nat /\ Held(s, w) \in Nat /\ Held(r, w) <= Held(s, w)
  BY <1>2, <1>3, <1>6
<1>8. QED
  BY <1>7 DEF p, t

(* A number.                                                               *)
LEMMA HeldTyped == ASSUME NEW s \in Scanned, NEW w PROVE Held(s, w) \in Nat
BY PutLexem DEF Kinds

(* A space flushes the lexeme, ...                                         *)
LEMMA FlushTyped ==
    ASSUME NEW s \in Scanned, NEW kind \in Kinds, NEW w
    PROVE  Flush(s, kind) \in Scanned /\ Held(Flush(s, kind), w) <= Held(s, w)
<1>1. CASE s.lexem = <<>>
  BY <1>1, HeldTyped DEF Flush
<1>2. CASE s.lexem # <<>>
  BY <1>2, PutLexem DEF Flush
<1>3. QED
  BY <1>1, <1>2

(* ... a bracket or a colon adds a token without a value, ...              *)
LEMMA PutMark ==
    ASSUME NEW s \in Scanned, NEW kind \in Kinds, NEW w
    PROVE  Put(s, Token(kind, <<>>)) \in Scanned /\ Held(Put(s, Token(kind, <<>>)), w) <= Held(s, w)
<1> DEFINE t == Token(kind, <<>>)
<1>1. t \in Tokens /\ t.value = <<>>
  BY DEF Token, Tokens
<1> HIDE DEF t
<1>2. /\ Put(s, t) \in Scanned /\ Put(s, t).lexem = s.lexem
      /\ Cut(s, w) \in Nat /\ Cut(Put(s, t), w) \in Nat
      /\ Cut(Put(s, t), w) <= Cut(s, w) + Cardinality(Places(<<>>, w))
      /\ Cardinality(Places(s.lexem, w)) \in Nat
  BY <1>1, PutTyped
<1>3. Held(Put(s, t), w) <= Held(s, w)
  BY <1>2, NonePlaced DEF Held
<1>4. QED
  BY <1>2, <1>3 DEF t

(* ... a quotation mark may end a string, ...                              *)
LEMMA QuoteTyped ==
    ASSUME NEW s \in Scanned, NEW w
    PROVE  Quote(s) \in Scanned /\ Held(Quote(s), w) <= Held(s, w)
<1> DEFINE r == IF s.quoted THEN [Put(s, Token("STRING", s.lexem)) EXCEPT !.lexem = <<>>] ELSE s
<1>1. r \in Scanned /\ Held(r, w) <= Held(s, w)
  <2>1. "STRING" \in Kinds /\ Held(s, w) \in Nat
    BY HeldTyped DEF Kinds
  <2>2. CASE s.quoted
    BY <2>1, <2>2, PutLexem
  <2>3. CASE ~s.quoted
    BY <2>1, <2>3
  <2>4. QED
    BY <2>2, <2>3
<1> HIDE DEF r
<1>2. PICK q : q = [r EXCEPT !.quoted = ~@]
  OBVIOUS
<1>3. q \in Scanned /\ q.tokens = r.tokens /\ q.lexem = r.lexem
  BY <1>1, <1>2 DEF Scanned
<1>4. Held(q, w) = Held(r, w)
  BY <1>3 DEF Held, Cut
<1>5. Quote(s) = q
  BY <1>2 DEF Quote, r
<1>6. QED
  BY <1>1, <1>3, <1>4, <1>5

(* ... and a word is added to the lexeme.                                  *)
LEMMA CollectTyped ==
    ASSUME NEW s \in Scanned, NEW c \in Words, NEW w
    PROVE  /\ Collect(s, c) \in Scanned
           /\ Held(Collect(s, c), w) = Held(s, w) + (IF c = w THEN 1 ELSE 0)
<1>1. s.lexem \in Seq(Words)
  BY DEF Scanned
<1>2. PICK r : r = Collect(s, c)
  OBVIOUS
<1>3. r \in Scanned /\ r.tokens = s.tokens /\ r.lexem = Append(s.lexem, c)
  <2>1. Append(s.lexem, c) \in Seq(Words)
    BY <1>1, Appended
  <2>2. s \in [tokens : Seq(Tokens), lexem : Seq(Words), quoted : BOOLEAN, overrun : BOOLEAN]
    BY DEF Scanned
  <2>3. PICK o \in BOOLEAN : o = (s.overrun \/ Len(s.lexem) + 1 >= MaxLexeme)
    OBVIOUS
  <2>4. r = [s EXCEPT !.lexem = Append(s.lexem, c), !.overrun = o]
    BY <1>2, <2>3 DEF Collect
  <2>5. QED
    BY <2>1, <2>2, <2>4 DEF Scanned
<1>4. Cardinality(Places(r.lexem, w)) = Cardinality(Places(s.lexem, w)) + (IF c = w THEN 1 ELSE 0)
  BY <1>1, <1>3, PlacesAppend
<1>5. Cardinality(Places(s.lexem, w)) \in Nat /\ Cut(s, w) \in Nat
  <2>1. s.tokens \in Seq(Tokens)
    BY DEF Scanned
  <2>2. QED
    BY <1>1, <2>1, PlacesFinite, ValuesTyped, WithinAppend DEF Cut
<1>6. Cut(r, w) = Cut(s, w)
  BY <1>3 DEF Cut
<1>7. QED
  BY <1>2, <1>3, <1>4, <1>5, <1>6 DEF Held

(* One character adds no more to what is held than itself.                 *)
LEMMA ScanTyped ==
    ASSUME NEW s \in Scanned, NEW c \in Symbols, NEW w
    PROVE  /\ Scan(s, c) \in Scanned
           /\ Held(Scan(s, c), w) <= Held(s, w) + (IF c = w THEN 1 ELSE 0)
<1>1. Held(s, w) \in Nat /\ TextType(s.lexem) \in Kinds
  BY HeldTyped DEF TextType, Kinds
<1>2. SUFFICES Scan(s, c) \in Scanned /\
               (Held(Scan(s, c), w) <= Held(s, w)
                  \/ Held(Scan(s, c), w) = Held(s, w) + (IF c = w THEN 1 ELSE 0))
  <2>1. ASSUME Scan(s, c) \in Scanned,
               \/ Held(Scan(s, c), w) <= Held(s, w)
               \/ Held(Scan(s, c), w) = Held(s, w) + (IF c = w THEN 1 ELSE 0)
        PROVE  Held(Scan(s, c), w) <= Held(s, w) + (IF c = w THEN 1 ELSE 0)
    <3>1. Held(Scan(s, c), w) \in Nat
      BY <2>1, HeldTyped
    <3>2. QED
      BY <1>1, <2>1, <3>1
  <2>2. QED
    BY <2>1
<1>3. c \notin Words => c \in {"{", "}", "quote", " ", ":", ","}
  BY DEF Symbols
<1>4. CASE c \in Words
  <2>1. c \notin {"{", "}", "quote", " ", ":", ","}
    BY <1>4, ConfigAssumption
  <2>2. Scan(s, c) = Collect(s, c)
    BY <1>4, <2>1 DEF Scan
  <2>3. QED
    BY <1>4, <2>2, CollectTyped
<1>5. CASE c \in {"{", "}"} /\ c \notin Words
  <2>1. Scan(s, c) = Put(s, Token(c, <<>>)) /\ c \in Kinds
    BY <1>5 DEF Scan, Kinds
  <2>2. QED
    BY <2>1, PutMark
<1>6. CASE c = "quote" /\ c \notin Words
  <2>1. Scan(s, c) = Quote(s)
    BY <1>6 DEF Scan
  <2>2. QED
    BY <2>1, QuoteTyped
<1>7. CASE c = " " /\ c \notin Words
  <2>1. Scan(s, c) = Flush(s, TextType(s.lexem))
    BY <1>7 DEF Scan
  <2>2. QED
    BY <1>1, <2>1, FlushTyped
<1>8. CASE c = ":" /\ c \notin Words
  <2> DEFINE r == Flush(s, TextType(s.lexem))
  <2>1. Scan(s, c) = Put(r, Token(":", <<>>)) /\ ":" \in Kinds
    BY <1>8 DEF Scan, Kinds
  <2>2. r \in Scanned /\ Held(r, w) <= Held(s, w)
    BY <1>1, FlushTyped
  <2> HIDE DEF r
  <2>3. Put(r, Token(":", <<>>)) \in Scanned /\ Held(Put(r, Token(":", <<>>)), w) <= Held(r, w)
    BY <2>1, <2>2, PutMark
  <2>4. Held(r, w) \in Nat /\ Held(Put(r, Token(":", <<>>)), w) \in Nat
    BY <2>2, <2>3, HeldTyped
  <2>5. QED
    BY <1>1, <2>1, <2>2, <2>3, <2>4
<1>9. CASE c = "," /\ c \notin Words
  <2>1. Scan(s, c) = s
    BY <1>9 DEF Scan
  <2>2. QED
    BY <1>1, <2>1
<1>10. QED
  BY <1>3, <1>4, <1>5, <1>6, <1>7, <1>8, <1>9

(* No word is cut from a file more often than it is written there.         *)
LEMMA TokenizeTyped ==
    ASSUME NEW file \in Seq(Symbols), NEW w
    PROVE  /\ Tokenize(file) \in Scanned
           /\ Held(Tokenize(file), w) <= Cardinality(Places(file, w))
<1> DEFINE L == Len(file)
           Start == [tokens |-> <<>>, lexem |-> <<>>, quoted |-> FALSE, overrun |-> FALSE]
           F == [i \in 1..L |-> [s \in Scanned |-> Scan(s, file[i])]]
           Turns(f) == f = [n \in 0..L |-> IF n = 0 THEN Start ELSE Scan(f[n - 1], file[n])]
<1>1. L \in Nat /\ \A i \in 1..L : file[i] \in Symbols
  BY Elements
<1>2. Start \in Scanned
  <2>1. <<>> \in Seq(Tokens) /\ <<>> \in Seq(Words)
    OBVIOUS
  <2>2. QED
    BY <2>1 DEF Scanned
<1>3. Held(Start, w) = 0
  <2>1. Values(<<>>) = <<>>
    BY DEF Values
  <2>2. Within(<<>>, w) = {}
    BY DEF Within
  <2>3. Cut(Start, w) = 0
    BY <2>1, <2>2, FS_EmptySet DEF Cut
  <2>4. Cardinality(Places(Start.lexem, w)) = 0
    BY NonePlaced
  <2>5. QED
    BY <2>3, <2>4 DEF Held
<1> HIDE DEF Start, L
<1>4. PICK f : Turns(f)
  <2>1. F \in [1..L -> [Scanned -> Scanned]]
    <3>1. \A i \in 1..L, s \in Scanned : Scan(s, file[i]) \in Scanned
      BY <1>1, ScanTyped
    <3>2. QED
      BY <3>1
  <2> HIDE DEF F
  <2>2. \E f : Steps(Scanned, Start, L, F, f)
    BY ONLY <1>1, <1>2, <2>1, Recursion
  <2>3. PICK f \in [0..L -> Scanned] : f[0] = Start /\ \A i \in 1..L : f[i] = F[i][f[i - 1]]
    BY <2>2 DEF Steps
  <2>4. ASSUME NEW i \in 0..L
        PROVE  f[i] = IF i = 0 THEN Start ELSE Scan(f[i - 1], file[i])
    <3>1. CASE i = 0
      BY <2>3, <3>1
    <3>2. CASE i # 0
      <4>1. i \in 1..L /\ i - 1 \in 0..L
        BY <1>1, <3>2
      <4>2. f[i - 1] \in Scanned /\ f[i] = F[i][f[i - 1]]
        BY <2>3, <4>1
      <4>3. QED
        BY <3>2, <4>1, <4>2 DEF F
    <3>3. QED
      BY <3>1, <3>2
  <2>5. Turns(f)
    BY <2>3, <2>4
  <2> HIDE DEF Turns
  <2>6. QED
    BY <2>5
<1> DEFINE h == CHOOSE g : Turns(g)
<1>5. Turns(h)
  BY <1>4
<1>6. Tokenize(file) = h[L]
  BY DEF Tokenize, L, Start
<1> HIDE DEF h
<1>7. \A n \in 0..L : h[n] = IF n = 0 THEN Start ELSE Scan(h[n - 1], file[n])
  BY <1>5
<1> HIDE DEF Turns
<1> DEFINE G == {n \in 0..L : h[n] \in Scanned /\ Held(h[n], w) <= Cardinality(PlacesUpto(file, n, w))}
<1>8. 0 \in G
  <2>1. PlacesUpto(file, 0, w) = {}
    BY DEF PlacesUpto
  <2>2. Cardinality(PlacesUpto(file, 0, w)) = 0
    BY <2>1, FS_EmptySet
  <2>3. h[0] = Start /\ 0 \in 0..L
    BY <1>1, <1>7
  <2>4. QED
    BY <1>2, <1>3, <2>2, <2>3
<1>9. ASSUME NEW k \in 1..L, k - 1 \in G
      PROVE  k \in G
  <2>1. PICK j, c, r, s : j = k - 1 /\ c = file[k] /\ r = h[k] /\ s = h[j]
    OBVIOUS
  <2>2. j \in Nat /\ k \in Nat /\ k = j + 1 /\ k \in 0..L /\ j \in G /\ k # 0
    BY <1>1, <1>9, <2>1
  <2>3. s \in Scanned /\ Held(s, w) <= Cardinality(PlacesUpto(file, j, w)) /\ c \in Symbols
    BY <1>1, <2>1, <2>2
  <2>4. r = Scan(s, c)
    BY <1>7, <2>1, <2>2
  <2>5. r \in Scanned /\ Held(r, w) <= Held(s, w) + (IF c = w THEN 1 ELSE 0)
    BY <2>3, <2>4, ScanTyped
  <2>6. /\ Cardinality(PlacesUpto(file, j, w)) \in Nat
        /\ Cardinality(PlacesUpto(file, k, w))
             = Cardinality(PlacesUpto(file, j, w)) + (IF c = w THEN 1 ELSE 0)
    <3>1. j \in Nat /\ k \in Nat /\ k = j + 1 /\ c = file[k]
      BY <2>1, <2>2
    <3>2. QED
      BY ONLY <3>1, PlacesMore
  <2>7. Held(r, w) \in Nat /\ Held(s, w) \in Nat
    BY <2>3, <2>5, HeldTyped
  <2>8. Held(r, w) <= Cardinality(PlacesUpto(file, k, w))
    BY <2>3, <2>5, <2>6, <2>7
  <2>9. QED
    BY <2>1, <2>2, <2>5, <2>8
<1>10. L \in G
  <2>1. L \in 0..L
    BY <1>1
  <2> HIDE DEF G
  <2>2. \A k \in 0..L : k \in G
    BY <1>1, <1>8, <1>9, Upward
  <2>3. QED
    BY <2>1, <2>2
<1>11. Places(file, w) = PlacesUpto(file, L, w)
  BY PlacesFinite DEF L
<1>12. QED
  BY <1>6, <1>10, <1>11

-----------------------------------------------------------------------------
(* The parser: what its states are, and how often its lists hold a word.   *)
Lists == {l \in [Keys -> Seq(Seq(Words))] : \A k \in Keys : Len(l[k]) <= MaxEntries}
Parsing == [target : Keys \union {NoKey}, block : BOOLEAN, lists : Lists, wild : BOOLEAN]

(* An entry more, if there is room.                                        *)
LEMMA AddToTyped ==
    ASSUME NEW l \in Lists, NEW k \in Keys, NEW v \in Seq(Words), NEW w, IsFiniteSet(Listed(l, w))
    PROVE  /\ AddTo(l, k, v) \in Lists /\ IsFiniteSet(Listed(AddTo(l, k, v), w))
           /\ Cardinality(Listed(AddTo(l, k, v), w))
                <= Cardinality(Listed(l, w)) + Cardinality(Places(v, w))
<1>1. Cardinality(Listed(l, w)) \in Nat /\ Cardinality(Places(v, w)) \in Nat
      /\ IsFiniteSet(Places(v, w))
  BY FS_CardinalityType, PlacesFinite
<1>2. l \in [Keys -> Seq(Seq(Words))] /\ l[k] \in Seq(Seq(Words))
  BY DEF Lists
<1>3. CASE Len(l[k]) >= MaxEntries
  BY <1>1, <1>3 DEF AddTo
<1>4. CASE ~(Len(l[k]) >= MaxEntries)
  <2>1. PICK e, d, n : e = l[k] /\ d = Append(e, v) /\ n = Len(e)
    OBVIOUS
  <2>2. PICK a : a = [l EXCEPT ![k] = d]
    OBVIOUS
  <2>3. AddTo(l, k, v) = a
    BY <1>4, <2>1, <2>2 DEF AddTo
  <2>4. e \in Seq(Seq(Words)) /\ d \in Seq(Seq(Words)) /\ n \in Nat /\ Len(d) = n + 1
        /\ d = [i \in 1..(n + 1) |-> IF i = n + 1 THEN v ELSE e[i]]
    <3>1. e \in Seq(Seq(Words)) /\ v \in Seq(Words) /\ n = Len(e)
      BY <1>2, <2>1
    <3>2. Append(e, v) \in Seq(Seq(Words)) /\ n \in Nat /\ Len(Append(e, v)) = n + 1
      BY ONLY <3>1, Appended
    <3>3. Append(e, v) = [i \in 1..(n + 1) |-> IF i = n + 1 THEN v ELSE e[i]]
      BY ONLY <3>1, Appended
    <3>4. d = Append(e, v)
      BY <2>1
    <3>5. d \in Seq(Seq(Words)) /\ Len(d) = n + 1
      BY ONLY <3>2, <3>4, Zenon
    <3>6. d = [i \in 1..(n + 1) |-> IF i = n + 1 THEN v ELSE e[i]]
      BY ONLY <3>3, <3>4, Zenon
    <3>7. QED
      BY ONLY <3>1, <3>2, <3>5, <3>6, Zenon
  <2>5. n + 1 <= MaxEntries
    BY ONLY <1>4, <2>1, <2>4, Limit
  <2>6. a \in [Keys -> Seq(Seq(Words))] /\ a[k] = d /\ \A j \in Keys \ {k} : a[j] = l[j]
    BY <1>2, <2>2, <2>4
  <2>7. a \in Lists
    <3>1. \A j \in Keys \ {k} : Len(a[j]) <= MaxEntries
      BY <2>6 DEF Lists
    <3>2. Len(a[k]) <= MaxEntries
      BY <2>4, <2>5, <2>6
    <3>3. QED
      BY <2>6, <3>1, <3>2 DEF Lists
  <2> DEFINE P == Places(v, w)
             Q == {n + 1} \X P
             B == {k} \X Q
             A == Listed(l, w)
  <2>8. Within(d, w) \subseteq Within(e, w) \union Q
    <3>1. DOMAIN e = 1..n /\ DOMAIN d = 1..(n + 1)
      BY <2>1, <2>4
    <3>2. SUFFICES ASSUME NEW i \in 1..(n + 1), NEW p \in {i} \X Places(d[i], w)
                   PROVE  p \in Within(e, w) \union Q
      BY <3>1 DEF Within
    <3>3. CASE i = n + 1
      BY <2>4, <3>2, <3>3
    <3>4. CASE i # n + 1
      <4>1. i \in 1..n /\ d[i] = e[i]
        BY <2>4, <3>4
      <4>2. QED
        BY <3>1, <3>2, <4>1 DEF Within
    <3>5. QED
      BY <3>3, <3>4
  <2>9. Listed(a, w) \subseteq A \union B
    <3> HIDE DEF Q
    <3>1. SUFFICES ASSUME NEW j \in Keys, NEW p \in {j} \X Within(a[j], w)
                   PROVE  p \in A \union B
      BY DEF Listed
    <3>2. CASE j = k
      <4>1. p \in {k} \X (Within(l[k], w) \union Q)
        BY <2>1, <2>6, <2>8, <3>1, <3>2
      <4>2. p \in {k} \X Within(l[k], w) \/ p \in {k} \X Q
        BY <4>1
      <4>3. QED
        BY <4>2 DEF Listed
    <3>3. CASE j # k
      BY <2>6, <3>1, <3>3 DEF Listed
    <3>4. QED
      BY <3>2, <3>3
  <2>10. IsFiniteSet(B) /\ Cardinality(B) = Cardinality(P)
    <3>1. IsFiniteSet({n + 1}) /\ Cardinality({n + 1}) = 1 /\ IsFiniteSet({k}) /\ Cardinality({k}) = 1
      BY FS_Singleton
    <3>2. IsFiniteSet(P) /\ Cardinality(P) \in Nat
      BY <1>1
    <3> HIDE DEF P
    <3>3. IsFiniteSet(Q) /\ Cardinality(Q) = 1 * Cardinality(P)
      BY <3>1, <3>2, FS_Product
    <3> HIDE DEF Q
    <3>4. IsFiniteSet(B) /\ Cardinality(B) = 1 * Cardinality(Q)
      BY <3>1, <3>3, FS_Product
    <3> HIDE DEF B
    <3>5. QED
      BY <3>2, <3>3, <3>4
  <2> HIDE DEF A, B
  <2>11. /\ IsFiniteSet(A \union B) /\ Cardinality(A \intersect B) \in Nat
         /\ Cardinality(A \union B) = Cardinality(A) + Cardinality(B) - Cardinality(A \intersect B)
    <3>1. IsFiniteSet(A)
      BY DEF A
    <3>2. IsFiniteSet(A \intersect B)
      BY <3>1, FS_Subset
    <3>3. Cardinality(A \intersect B) \in Nat
      BY <3>2, FS_CardinalityType
    <3>4. QED
      BY <2>10, <3>1, <3>3, FS_Union
  <2>12. /\ IsFiniteSet(Listed(a, w)) /\ Cardinality(Listed(a, w)) \in Nat
         /\ Cardinality(Listed(a, w)) <= Cardinality(A \union B)
    BY <2>9, <2>11, FS_Subset, FS_CardinalityType
  <2>13. Cardinality(A) \in Nat /\ Cardinality(B) \in Nat /\ Cardinality(A \union B) \in Nat
    BY <1>1, <2>10, <2>11, FS_CardinalityType DEF A
  <2>14. Cardinality(Listed(a, w)) <= Cardinality(A) + Cardinality(B)
    BY <2>11, <2>12, <2>13
  <2>15. QED
    BY <2>3, <2>7, <2>10, <2>12, <2>14 DEF A, P
<1>5. QED
  BY <1>3, <1>4

(* One token adds no more to the lists than it has.                        *)
LEMMA FollowTyped ==
    ASSUME NEW tokens \in Seq(Tokens), NEW s \in Parsing, NEW i \in 1..Len(tokens), NEW w,
           IsFiniteSet(Listed(s.lists, w))
    PROVE  /\ Follow(tokens, s, i) \in Parsing
           /\ IsFiniteSet(Listed(Follow(tokens, s, i).lists, w))
           /\ Cardinality(Listed(Follow(tokens, s, i).lists, w))
                <= Cardinality(Listed(s.lists, w)) + Cardinality(Places(tokens[i].value, w))
<1>1. PICK r, t : r = Follow(tokens, s, i) /\ t = tokens[i]
  OBVIOUS
<1>2. t \in Tokens /\ t.type \in Kinds /\ t.value \in Seq(Words)
  <2>1. t \in Tokens
    BY <1>1, Elements
  <2>2. QED
    BY <2>1 DEF Tokens
<1>3. s.lists \in Lists /\ s.target \in Keys \union {NoKey} /\ s.block \in BOOLEAN /\ s.wild \in BOOLEAN
  BY DEF Parsing
<1>4. Cardinality(Listed(s.lists, w)) \in Nat /\ Cardinality(Places(t.value, w)) \in Nat
  BY <1>2, PlacesFinite, FS_CardinalityType
<1>5. SUFFICES /\ r \in Parsing
               /\ \/ r.lists = s.lists
                  \/ /\ IsFiniteSet(Listed(r.lists, w))
                     /\ Cardinality(Listed(r.lists, w))
                          <= Cardinality(Listed(s.lists, w)) + Cardinality(Places(t.value, w))
  BY <1>1, <1>4
<1>6. CASE t.type = "TEXT"
  <2>1. r = Text(tokens, s, i)
    BY <1>1, <1>6 DEF Follow
  <2>2. CASE r = [s EXCEPT !.wild = TRUE]
    BY <2>2 DEF Parsing
  <2>3. CASE t.value \in {<<k>> : k \in Keys} /\ r = [s EXCEPT !.target = Head(t.value)]
    <3>1. PICK k \in Keys : t.value = <<k>>
      BY <2>3
    <3>2. Head(t.value) = k
      BY <3>1
    <3>3. r = [s EXCEPT !.target = k]
      BY <2>3, <3>2
    <3>4. QED
      BY <3>3 DEF Parsing
  <2>4. CASE r = s
    BY <2>4
  <2>5. QED
    BY <1>1, <2>1, <2>2, <2>3, <2>4 DEF Text
<1>7. CASE t.type = "STRING"
  <2>1. r = String(s, t.value)
    BY <1>1, <1>7 DEF Follow
  <2>2. CASE r = [s EXCEPT !.wild = TRUE]
    BY <2>2 DEF Parsing
  <2>3. CASE s.target # NoKey /\ r = [s EXCEPT !.lists = AddTo(s.lists, s.target, t.value)]
    <3>1. PICK l : l = AddTo(s.lists, s.target, t.value)
      OBVIOUS
    <3>2. /\ l \in Lists /\ IsFiniteSet(Listed(l, w))
          /\ Cardinality(Listed(l, w))
               <= Cardinality(Listed(s.lists, w)) + Cardinality(Places(t.value, w))
      BY <1>2, <1>3, <2>3, <3>1, AddToTyped
    <3>3. r \in Parsing /\ r.lists = l
      BY <2>3, <3>1, <3>2 DEF Parsing
    <3>4. QED
      BY <3>2, <3>3
  <2>4. CASE r = s
    BY <2>4
  <2>5. QED
    BY <2>1, <2>2, <2>3, <2>4 DEF String
<1>8. CASE t.type = "{"
  <2>1. r = [s EXCEPT !.block = TRUE]
    BY <1>1, <1>8 DEF Follow
  <2>2. QED
    BY <2>1 DEF Parsing
<1>9. CASE t.type = "}"
  <2>1. r = [s EXCEPT !.block = FALSE, !.target = NoKey]
    BY <1>1, <1>9 DEF Follow, Close
  <2>2. QED
    BY <2>1 DEF Parsing
<1>10. CASE t.type \in {"NUMBER", ":"}
  <2>1. r = s
    BY <1>1, <1>10 DEF Follow
  <2>2. QED
    BY <2>1
<1>11. QED
  BY <1>2, <1>6, <1>7, <1>8, <1>9, <1>10 DEF Kinds

(* No word is listed more often than the tokens have it.                   *)
LEMMA ParseTyped ==
    ASSUME NEW tokens \in Seq(Tokens), NEW w
    PROVE  /\ Parse(tokens) \in Parsing
           /\ Cardinality(Listed(Parse(tokens).lists, w)) <= Cardinality(Within(Values(tokens), w))
           /\ Cardinality(Listed(Parse(tokens).lists, w)) \in Nat
<1> DEFINE L == Len(tokens)
           S == {s \in Parsing : IsFiniteSet(Listed(s.lists, w))}
           Start == [target |-> NoKey, block |-> FALSE, lists |-> Nothing, wild |-> FALSE]
           F == [i \in 1..L |-> [s \in S |-> Follow(tokens, s, i)]]
           Turns(f) == f = [n \in 0..L |-> IF n = 0 THEN Start ELSE Follow(tokens, f[n - 1], n)]
<1>1. L \in Nat /\ L = Len(Values(tokens)) /\ Values(tokens) \in Seq(Seq(Words))
  BY Elements, ValuesTyped
<1>2. Start \in Parsing /\ Listed(Start.lists, w) = {}
  <2>1. <<>> \in Seq(Seq(Words)) /\ Len(<<>>) = 0
    OBVIOUS
  <2>2. Nothing \in Lists
    <3>1. Nothing \in [Keys -> Seq(Seq(Words))] /\ \A k \in Keys : Nothing[k] = <<>>
      BY <2>1 DEF Nothing
    <3>2. Len(<<>>) <= MaxEntries
      BY <2>1, Limit
    <3>3. \A k \in Keys : Len(Nothing[k]) <= MaxEntries
      BY <3>1, <3>2, Zenon
    <3>4. QED
      BY <3>1, <3>3 DEF Lists
  <2>3. \A k \in Keys : Within(Nothing[k], w) = {}
    BY DEF Nothing, Within
  <2>4. Listed(Nothing, w) = {}
    BY <2>3 DEF Listed
  <2>5. QED
    BY <2>2, <2>4 DEF Parsing
<1> HIDE DEF Start
<1>3. Start \in S /\ \A i \in 1..L, s \in S : Follow(tokens, s, i) \in S
  BY <1>2, FollowTyped, FS_EmptySet
<1> HIDE DEF L, S
<1>4. PICK f : Turns(f)
  <2>1. F \in [1..L -> [S -> S]]
    BY <1>3
  <2> HIDE DEF F
  <2>2. \E f : Steps(S, Start, L, F, f)
    BY ONLY <1>1, <1>3, <2>1, Recursion
  <2>3. PICK f \in [0..L -> S] : f[0] = Start /\ \A i \in 1..L : f[i] = F[i][f[i - 1]]
    BY <2>2 DEF Steps
  <2>4. ASSUME NEW i \in 0..L
        PROVE  f[i] = IF i = 0 THEN Start ELSE Follow(tokens, f[i - 1], i)
    <3>1. CASE i = 0
      BY <2>3, <3>1
    <3>2. CASE i # 0
      <4>1. i \in 1..L /\ i - 1 \in 0..L
        BY <1>1, <3>2
      <4>2. f[i - 1] \in S /\ f[i] = F[i][f[i - 1]]
        BY <2>3, <4>1
      <4>3. QED
        BY <3>2, <4>1, <4>2 DEF F
    <3>3. QED
      BY <3>1, <3>2
  <2>5. Turns(f)
    BY <2>3, <2>4
  <2> HIDE DEF Turns
  <2>6. QED
    BY <2>5
<1> DEFINE h == CHOOSE g : Turns(g)
<1>5. Turns(h)
  BY <1>4
<1>6. Parse(tokens) = h[L]
  BY DEF Parse, L, Start
<1> HIDE DEF h
<1>7. \A n \in 0..L : h[n] = IF n = 0 THEN Start ELSE Follow(tokens, h[n - 1], n)
  BY <1>5
<1> HIDE DEF Turns
<1> DEFINE Has(n) == Listed(h[n].lists, w)
           G == {n \in 0..L : /\ h[n] \in Parsing /\ IsFiniteSet(Has(n))
                              /\ Cardinality(Has(n)) <= Cardinality(WithinUpto(Values(tokens), n, w))}
<1>8. 0 \in G
  <2>1. WithinUpto(Values(tokens), 0, w) = {}
    BY DEF WithinUpto
  <2>2. h[0] = Start /\ 0 \in 0..L
    BY <1>1, <1>7
  <2>3. Has(0) = {} /\ h[0] \in Parsing
    BY <1>2, <2>2
  <2>4. IsFiniteSet(Has(0)) /\ Cardinality(Has(0)) = 0
        /\ Cardinality(WithinUpto(Values(tokens), 0, w)) = 0
    BY <2>1, <2>3, FS_EmptySet
  <2> HIDE DEF Has
  <2>5. Cardinality(Has(0)) <= Cardinality(WithinUpto(Values(tokens), 0, w))
    BY <2>4
  <2>6. QED
    BY <2>2, <2>3, <2>4, <2>5
<1>9. ASSUME NEW k \in 1..L, k - 1 \in G
      PROVE  k \in G
  <2>1. PICK j, r, s, v : j = k - 1 /\ r = h[k] /\ s = h[j] /\ v = tokens[k].value
    OBVIOUS
  <2>2. j \in 0..L /\ k \in 0..L /\ k = j + 1 /\ j \in G /\ k # 0
    BY <1>1, <1>9, <2>1
  <2>3. s \in Parsing /\ IsFiniteSet(Listed(s.lists, w))
        /\ Cardinality(Listed(s.lists, w)) <= Cardinality(WithinUpto(Values(tokens), j, w))
    BY <2>1, <2>2
  <2>4. r = Follow(tokens, s, k)
    BY <1>7, <2>1, <2>2
  <2>5. /\ r \in Parsing /\ IsFiniteSet(Listed(r.lists, w))
        /\ Cardinality(Listed(r.lists, w)) <= Cardinality(Listed(s.lists, w)) + Cardinality(Places(v, w))
    BY <2>1, <2>3, <2>4, FollowTyped DEF L
  <2>6. /\ Cardinality(WithinUpto(Values(tokens), j, w)) \in Nat
        /\ Cardinality(WithinUpto(Values(tokens), k, w))
             = Cardinality(WithinUpto(Values(tokens), j, w)) + Cardinality(Places(v, w))
    <3>1. PICK ss : ss = Values(tokens)
      OBVIOUS
    <3>2. ss \in Seq(Seq(Words)) /\ j \in 0..Len(ss) /\ k \in 0..Len(ss) /\ k = j + 1
      BY <1>1, <2>2, <3>1
    <3>3. /\ Cardinality(WithinUpto(ss, j, w)) \in Nat
          /\ \A m \in 0..Len(ss) : m = j + 1 =>
                Cardinality(WithinUpto(ss, m, w))
                  = Cardinality(WithinUpto(ss, j, w)) + Cardinality(Places(ss[m], w))
      BY ONLY <3>2, WithinFinite
    <3>4. ss[k] = v
      BY <2>1, <3>1 DEF Values, L
    <3>5. Cardinality(WithinUpto(ss, k, w)) = Cardinality(WithinUpto(ss, j, w)) + Cardinality(Places(ss[k], w))
      BY ONLY <3>2, <3>3
    <3>6. QED
      BY <3>1, <3>3, <3>4, <3>5
  <2>7. /\ Cardinality(Listed(r.lists, w)) \in Nat /\ Cardinality(Listed(s.lists, w)) \in Nat
        /\ Cardinality(Places(v, w)) \in Nat
    <3>1. tokens[k] \in Tokens
      BY Elements DEF L
    <3>2. v \in Seq(Words)
      BY <2>1, <3>1 DEF Tokens
    <3>3. QED
      BY <2>3, <2>5, <3>2, FS_CardinalityType, PlacesFinite
  <2>8. Cardinality(Listed(r.lists, w)) <= Cardinality(WithinUpto(Values(tokens), k, w))
    BY <2>3, <2>5, <2>6, <2>7
  <2>9. QED
    BY <2>1, <2>2, <2>5, <2>8
<1>10. L \in G
  <2>1. L \in 0..L
    BY <1>1
  <2> HIDE DEF G
  <2>2. \A k \in 0..L : k \in G
    BY <1>1, <1>8, <1>9, Upward
  <2>3. QED
    BY <2>1, <2>2
<1>11. Within(Values(tokens), w) = WithinUpto(Values(tokens), L, w)
  <2>1. DOMAIN Values(tokens) = 1..L
    BY DEF Values, L
  <2>2. QED
    BY <2>1 DEF Within, WithinUpto
<1>12. QED
  BY <1>6, <1>10, <1>11, FS_CardinalityType

(* What a cmon makes of a file.                                            *)
LEMMA ReadTyped ==
    ASSUME NEW file \in Seq(Symbols), NEW w
    PROVE  /\ Parse(Tokenize(file).tokens).lists \in Lists
           /\ Cardinality(Listed(Parse(Tokenize(file).tokens).lists, w))
                <= Cardinality(Places(file, w))
<1>1. PICK s, l : s = Tokenize(file) /\ l = Parse(s.tokens).lists
  OBVIOUS
<1>2. s \in Scanned /\ Held(s, w) <= Cardinality(Places(file, w))
  BY <1>1, TokenizeTyped
<1>3. s.tokens \in Seq(Tokens) /\ s.lexem \in Seq(Words)
  BY <1>2 DEF Scanned
<1>4. /\ l \in Lists
      /\ Cardinality(Listed(l, w)) <= Cut(s, w) /\ Cardinality(Listed(l, w)) \in Nat
  BY <1>1, <1>3, ParseTyped DEF Parsing, Cut
<1>5. /\ Cut(s, w) \in Nat /\ Cardinality(Places(s.lexem, w)) \in Nat
      /\ Cardinality(Places(file, w)) \in Nat
  BY <1>3, ValuesTyped, WithinAppend, PlacesFinite DEF Cut
<1>6. Cardinality(Listed(l, w)) <= Cardinality(Places(file, w))
  BY <1>2, <1>4, <1>5 DEF Held
<1>7. QED
  BY <1>1, <1>4, <1>6

(* What is left of a file.                                                 *)
LEMMA Rest ==
    ASSUME NEW T, NEW s \in Seq(T), NEW m \in Nat
    PROVE  SubSeq(s, m + 1, Len(s)) \in Seq(T)
OBVIOUS

(* A file more, ...                                                        *)
LEMMA NewFile ==
    ASSUME NEW T, NEW d \in Seq(T), NEW e \in T, NEW n, n = Len(d), NEW t, t = Append(d, e)
    PROVE  /\ t \in Seq(T) /\ Len(t) = n + 1 /\ DOMAIN t = 1..(n + 1)
           /\ \A i \in 1..n : t[i] = d[i]
OBVIOUS

(* ... or one written over.                                                *)
LEMMA OldFile ==
    ASSUME NEW T, NEW d \in Seq(T), NEW e \in T, NEW j \in 1..Len(d), NEW t, t = [d EXCEPT ![j] = e]
    PROVE  /\ t \in Seq(T) /\ Len(t) = Len(d) /\ DOMAIN t = 1..Len(d)
           /\ \A i \in 1..Len(d) : t[i] = IF i = j THEN e ELSE d[i]
OBVIOUS

-----------------------------------------------------------------------------
(* The lists of a cmon have their type, and room.                          *)
LEMMA ListsTyped ==
    ASSUME NEW l
    PROVE  l \in Lists <=> l \in [Keys -> Seq(Seq(Words))] /\ \A k \in Keys : Len(l[k]) <= MaxEntries
BY DEF Lists

(* No lists.                                                               *)
LEMMA NothingTyped == Nothing \in Lists /\ \A w : Listed(Nothing, w) = {}
<1>1. <<>> \in Seq(Seq(Words)) /\ Len(<<>>) <= MaxEntries
  BY Limit
<1>2. Nothing \in [Keys -> Seq(Seq(Words))] /\ \A k \in Keys : Nothing[k] = <<>>
  BY <1>1 DEF Nothing
<1>3. \A k \in Keys : Len(Nothing[k]) <= MaxEntries
  BY <1>1, <1>2, Zenon
<1>4. \A k \in Keys : \A w : Within(Nothing[k], w) = {}
  BY <1>2 DEF Within
<1>5. QED
  BY <1>2, <1>3, <1>4 DEF Lists, Listed

(* The start.                                                              *)
LEMMA InitInv == Init => IInv
<1> SUFFICES ASSUME Init PROVE IInv
  OBVIOUS
<1>1. /\ disk \in Seq(Seq(Symbols)) /\ Len(disk) <= MaxFiles /\ name \in 0..Len(disk)
      /\ \A i \in DOMAIN disk : disk[i] \in UserFiles
  <2>1. CASE disk = <<>> /\ name = NoFile
    BY <2>1, Limit DEF NoFile
  <2>2. ASSUME NEW f \in UserFiles, disk = <<f>>, name = 1
        PROVE  /\ disk \in Seq(Seq(Symbols)) /\ Len(disk) <= MaxFiles /\ name \in 0..Len(disk)
               /\ \A i \in DOMAIN disk : disk[i] \in UserFiles
    <3>1. f \in Seq(Symbols)
      BY FilesTyped
    <3>2. disk \in Seq(Seq(Symbols))
      BY <2>2, <3>1, Pieces
    <3>3. Len(disk) = 1 /\ DOMAIN disk = {1} /\ disk[1] = f
      BY <2>2
    <3>4. QED
      BY <2>2, <3>2, <3>3, Limit
  <2>3. QED
    BY <2>1, <2>2 DEF Init
<1>2. TypeOK
  <2>1. got \in [Cmons -> Seq(Symbols)]
    BY DEF Init
  <2>2. DOMAIN lists = Cmons /\ \A c \in Cmons : lists[c] \in Lists
    BY NothingTyped DEF Init
  <2>3. fd \in [Cmons -> 0..Len(disk)]
    BY <1>1 DEF Init, NoFile
  <2>4. QED
    BY <1>1, <2>1, <2>2, <2>3, ListsTyped DEF TypeOK, Init
<1>3. Opened
  BY DEF Opened, Init
<1>4. EmptyWasMade
  BY <1>1 DEF EmptyWasMade
<1>5. EmptyIsNew
  BY DEF EmptyIsNew, Init
<1>6. QED
  BY <1>2, <1>3, <1>4, <1>5 DEF IInv

(* Only a cmon's own steps change what it has open and has made, and none  *)
(* of them what a cmon that made a file made.                              *)
LEMMA StepInv ==
    ASSUME IInv, NEW c \in Cmons, Cmon(c) \/ Kill(c)
    PROVE  IInv'
<1> USE DEF NoFile
<1>1. /\ disk \in Seq(Seq(Symbols)) /\ Len(disk) <= MaxFiles /\ Len(disk) \in Nat
      /\ DOMAIN disk = 1..Len(disk)
      /\ name \in 0..Len(disk) /\ pc \in [Cmons -> {"access", "create", "write", "open", "read",
                                           "done", "exited", "killed", "undefined"}]
      /\ fd \in [Cmons -> 0..Len(disk)] /\ made \in [Cmons -> BOOLEAN]
      /\ DOMAIN lists = Cmons /\ \A b \in Cmons : lists[b] \in Lists
      /\ got \in [Cmons -> Seq(Symbols)]
  <2>1. DOMAIN lists = Cmons /\ \A b \in Cmons : lists[b] \in Lists
    BY ListsTyped DEF IInv, TypeOK
  <2>2. Len(disk) \in Nat /\ DOMAIN disk = 1..Len(disk)
    BY DEF IInv, TypeOK
  <2>3. QED
    BY <2>1, <2>2 DEF IInv, TypeOK
<1>2. Opened /\ EmptyWasMade /\ EmptyIsNew
  BY DEF IInv
<1>3. CASE Access(c) \/ Denied(c) \/ CreateDenied(c) \/ Kill(c)
  <2>1. /\ UNCHANGED <<disk, name, fd, made, lists, got>>
        /\ \E to \in {"create", "open", "exited", "undefined", "killed"} :
             /\ pc' = [pc EXCEPT ![c] = to]
             /\ to # "killed" => pc[c] \in {"access", "open", "create"}
             /\ to \in {"create", "open"} => pc[c] = "access"
    BY <1>3 DEF Access, Denied, CreateDenied, Kill, At
  <2>2. PICK to \in {"create", "open", "exited", "undefined", "killed"} :
             /\ pc' = [pc EXCEPT ![c] = to]
             /\ to # "killed" => pc[c] \in {"access", "open", "create"}
             /\ to \in {"create", "open"} => pc[c] = "access"
    BY <2>1
  <2>3. TypeOK'
    BY <1>1, <2>1, <2>2, ListsTyped DEF TypeOK
  <2>4. Opened'
    BY <1>1, <1>2, <2>1, <2>2 DEF Opened
  <2>5. EmptyWasMade'
    BY <1>1, <1>2, <2>1, <2>2 DEF EmptyWasMade, Opened
  <2>6. EmptyIsNew'
    BY <1>1, <1>2, <2>1, <2>2 DEF EmptyIsNew
  <2>7. QED
    BY <2>3, <2>4, <2>5, <2>6 DEF IInv
<1>4. CASE Create(c)
  <2>1. /\ pc[c] = "create" /\ pc' = [pc EXCEPT ![c] = "write"] /\ ~made[c]
        /\ made' = [made EXCEPT ![c] = TRUE] /\ fd' = [fd EXCEPT ![c] = name']
        /\ UNCHANGED <<lists, got>>
    BY <1>1, <1>2, <1>4 DEF Create, At, Opened
  <2>2. /\ disk' \in Seq(Seq(Symbols)) /\ Len(disk') <= MaxFiles /\ Len(disk) <= Len(disk')
        /\ Len(disk') \in Nat /\ DOMAIN disk' = 1..Len(disk')
        /\ name' \in 1..Len(disk') /\ \A i \in DOMAIN disk' \ {name'} : i \in DOMAIN disk /\ disk'[i] = disk[i]
    <3>1. <<>> \in Seq(Symbols)
      OBVIOUS
    <3>2. CASE name = NoFile
      <4>1. Len(disk) < MaxFiles /\ disk' = Append(disk, <<>>) /\ name' = Len(disk) + 1
        BY <1>4, <3>2 DEF Create
      <4>2. PICK e, m : e = <<>> /\ m = Len(disk)
        OBVIOUS
      <4>3. e \in Seq(Symbols) /\ m = Len(disk) /\ disk' = Append(disk, e) /\ disk \in Seq(Seq(Symbols))
        BY <1>1, <3>1, <4>1, <4>2
      <4>4. /\ disk' \in Seq(Seq(Symbols)) /\ Len(disk') = m + 1 /\ DOMAIN disk' = 1..(m + 1)
            /\ \A i \in 1..m : disk'[i] = disk[i]
        BY ONLY <4>3, NewFile
      <4>5. m \in Nat /\ m < MaxFiles /\ name' = m + 1 /\ DOMAIN disk = 1..m
        BY <1>1, <4>1, <4>2
      <4>6. QED
        BY <4>2, <4>4, <4>5, Limit
    <3>3. CASE name # NoFile
      <4>1. disk' = [disk EXCEPT ![name] = <<>>] /\ name' = name
        BY <1>4, <3>3 DEF Create
      <4>2. name \in 1..Len(disk)
        BY <1>1, <3>3
      <4>3. PICK e : e = <<>>
        OBVIOUS
      <4>4. e \in Seq(Symbols) /\ disk' = [disk EXCEPT ![name] = e] /\ disk \in Seq(Seq(Symbols))
            /\ name \in 1..Len(disk)
        BY <1>1, <3>1, <4>1, <4>2, <4>3
      <4>5. /\ disk' \in Seq(Seq(Symbols)) /\ Len(disk') = Len(disk) /\ DOMAIN disk' = 1..Len(disk)
            /\ \A i \in 1..Len(disk) : disk'[i] = IF i = name THEN e ELSE disk[i]
        BY ONLY <4>4, OldFile
      <4>6. QED
        BY <1>1, <4>1, <4>2, <4>5
    <3>4. QED
      BY <3>2, <3>3
  <2>3. TypeOK'
    <3>1. fd' \in [Cmons -> 0..Len(disk')]
      BY <1>1, <2>1, <2>2
    <3>2. name' \in 0..Len(disk')
      BY <2>2
    <3>3. QED
      BY <1>1, <2>1, <2>2, <3>1, <3>2, ListsTyped DEF TypeOK
  <2>4. Opened'
    <3>1. name' # NoFile
      BY <2>2
    <3>2. QED
      BY <1>1, <1>2, <2>1, <3>1 DEF Opened
  <2>5. EmptyWasMade'
    <3>1. SUFFICES ASSUME NEW i \in DOMAIN disk', disk'[i] = <<>>, <<>> \notin UserFiles \union Saved
                   PROVE  \E b \in Cmons : /\ made'[b] /\ fd'[b] = i
                                           /\ DefaultFile # <<>> => pc'[b] \in {"write", "killed"}
      BY DEF EmptyWasMade
    <3>2. CASE i = name'
      BY <1>1, <2>1, <3>2
    <3>3. CASE i # name'
      <4>1. i \in DOMAIN disk /\ disk[i] = <<>>
        BY <2>2, <3>1, <3>3
      <4>2. PICK b \in Cmons : /\ made[b] /\ fd[b] = i
                               /\ DefaultFile # <<>> => pc[b] \in {"write", "killed"}
        BY <1>2, <3>1, <4>1 DEF EmptyWasMade
      <4>3. b # c
        BY <2>1, <4>2
      <4>4. QED
        BY <1>1, <2>1, <4>2, <4>3
    <3>4. QED
      BY <3>2, <3>3
  <2>6. EmptyIsNew'
    BY <1>1, <1>2, <2>1 DEF EmptyIsNew
  <2>7. QED
    BY <2>3, <2>4, <2>5, <2>6 DEF IInv
<1>5. CASE Write(c)
  <2>1. /\ pc[c] = "write" /\ pc' = [pc EXCEPT ![c] = "read"] /\ made[c] /\ fd[c] \in 1..Len(disk)
        /\ UNCHANGED <<name, fd, made, lists, got>>
    BY <1>1, <1>2, <1>5 DEF Write, At, Opened
  <2>2. /\ disk' \in Seq(Seq(Symbols)) /\ Len(disk') = Len(disk) /\ DOMAIN disk' = DOMAIN disk
        /\ \A i \in DOMAIN disk : disk'[i] = IF i = fd[c] THEN DefaultFile ELSE disk[i]
    <3>1. PICK j, e : j = fd[c] /\ e = DefaultFile
      OBVIOUS
    <3>2. e \in Seq(Symbols) /\ disk' = [disk EXCEPT ![j] = e] /\ disk \in Seq(Seq(Symbols))
          /\ j \in 1..Len(disk)
      BY <1>1, <1>5, <2>1, <3>1, FilesTyped DEF Write
    <3>3. /\ disk' \in Seq(Seq(Symbols)) /\ Len(disk') = Len(disk) /\ DOMAIN disk' = 1..Len(disk)
          /\ \A i \in 1..Len(disk) : disk'[i] = IF i = j THEN e ELSE disk[i]
      BY ONLY <3>2, OldFile
    <3>4. QED
      BY <1>1, <3>1, <3>3
  <2>3. TypeOK'
    BY <1>1, <2>1, <2>2, ListsTyped DEF TypeOK
  <2>4. Opened'
    BY <1>1, <1>2, <2>1 DEF Opened
  <2>5. EmptyWasMade'
    <3>1. SUFFICES ASSUME NEW i \in DOMAIN disk, disk'[i] = <<>>, <<>> \notin UserFiles \union Saved
                   PROVE  \E b \in Cmons : /\ made[b] /\ fd[b] = i
                                           /\ DefaultFile # <<>> => pc'[b] \in {"write", "killed"}
      BY <2>1, <2>2 DEF EmptyWasMade
    <3>2. CASE i = fd[c]
      BY <2>1, <2>2, <3>1, <3>2
    <3>3. CASE i # fd[c]
      BY <1>1, <1>2, <2>1, <2>2, <3>1, <3>3 DEF EmptyWasMade
    <3>4. QED
      BY <3>2, <3>3
  <2>6. EmptyIsNew'
    BY <1>1, <1>2, <2>1 DEF EmptyIsNew
  <2>7. QED
    BY <2>3, <2>4, <2>5, <2>6 DEF IInv
<1>6. CASE Open(c)
  <2>1. /\ pc[c] = "open" /\ ~made[c] /\ fd' = [fd EXCEPT ![c] = name]
        /\ pc' = [pc EXCEPT ![c] = IF name = NoFile THEN "exited" ELSE "read"]
        /\ UNCHANGED <<disk, name, made, lists, got>>
    BY <1>1, <1>2, <1>6 DEF Open, At, Opened
  <2>2. TypeOK'
    <3>1. fd' \in [Cmons -> 0..Len(disk)]
      BY <1>1, <2>1
    <3>2. pc' \in [Cmons -> {"access", "create", "write", "open", "read", "done",
                             "exited", "killed", "undefined"}]
      BY <1>1, <2>1
    <3>3. QED
      BY <1>1, <2>1, <3>1, <3>2, ListsTyped DEF TypeOK
  <2>3. Opened'
    BY <1>1, <1>2, <2>1 DEF Opened
  <2>4. EmptyWasMade'
    <3>1. SUFFICES ASSUME NEW i \in DOMAIN disk, disk[i] = <<>>, <<>> \notin UserFiles \union Saved
                   PROVE  \E b \in Cmons : /\ made[b] /\ fd'[b] = i
                                           /\ DefaultFile # <<>> => pc'[b] \in {"write", "killed"}
      BY <2>1 DEF EmptyWasMade
    <3>2. PICK b \in Cmons : /\ made[b] /\ fd[b] = i
                             /\ DefaultFile # <<>> => pc[b] \in {"write", "killed"}
      BY <1>2, <3>1 DEF EmptyWasMade
    <3>3. b # c
      BY <2>1, <3>2
    <3>4. QED
      BY <1>1, <2>1, <3>2, <3>3
  <2>5. EmptyIsNew'
    BY <1>1, <1>2, <2>1 DEF EmptyIsNew
  <2>6. QED
    BY <2>2, <2>3, <2>4, <2>5 DEF IInv
<1>7. CASE Read(c)
  <2>1. PICK file, to :
           /\ file = (IF made[c] THEN SubSeq(disk[fd[c]], Len(DefaultFile) + 1, Len(disk[fd[c]]))
                      ELSE disk[fd[c]])
           /\ to \in {"undefined", "done"}
           /\ pc[c] = "read" /\ pc' = [pc EXCEPT ![c] = to]
           /\ got' = [got EXCEPT ![c] = file]
           /\ lists' = [lists EXCEPT ![c] = Parse(Tokenize(file).tokens).lists]
           /\ UNCHANGED <<disk, name, fd, made>>
    BY <1>7 DEF Read, At
  <2>2. fd[c] \in 1..Len(disk) /\ disk[fd[c]] \in Seq(Symbols)
    BY <1>1, <1>2, <2>1 DEF Opened
  <2>3. file \in Seq(Symbols)
    <3>1. Len(DefaultFile) \in Nat
      BY FilesTyped
    <3>2. SubSeq(disk[fd[c]], Len(DefaultFile) + 1, Len(disk[fd[c]])) \in Seq(Symbols)
      BY <2>2, <3>1, Rest
    <3>3. QED
      BY <2>1, <2>2, <3>2
  <2>4. Parse(Tokenize(file).tokens).lists \in Lists
    BY <2>3, ReadTyped
  <2>5. TypeOK'
    <3>1. DOMAIN lists' = Cmons /\ \A b \in Cmons : lists'[b] \in Lists
      BY <1>1, <2>1, <2>4
    <3>2. got' \in [Cmons -> Seq(Symbols)]
      BY <1>1, <2>1, <2>3
    <3>3. QED
      BY <1>1, <2>1, <3>1, <3>2, ListsTyped DEF TypeOK
  <2>6. Opened'
    <3>1. pc'[c] \in {"undefined", "done"} /\ \A b \in Cmons : b # c => pc'[b] = pc[b]
      BY <1>1, <2>1
    <3>2. QED
      BY <1>2, <2>1, <3>1 DEF Opened
  <2>7. EmptyWasMade'
    <3>1. SUFFICES ASSUME NEW i \in DOMAIN disk, disk[i] = <<>>, <<>> \notin UserFiles \union Saved
                   PROVE  \E b \in Cmons : /\ made[b] /\ fd[b] = i
                                           /\ DefaultFile # <<>> => pc'[b] \in {"write", "killed"}
      BY <2>1 DEF EmptyWasMade
    <3>2. PICK b \in Cmons : /\ made[b] /\ fd[b] = i
                             /\ DefaultFile # <<>> => pc[b] \in {"write", "killed"}
      BY <1>2, <3>1 DEF EmptyWasMade
    <3>3. DefaultFile # <<>> => b # c
      BY <2>1, <3>2
    <3>4. DefaultFile # <<>> => pc'[b] = pc[b]
      BY <1>1, <2>1, <3>2, <3>3
    <3>5. QED
      BY <3>2, <3>4
  <2>8. EmptyIsNew'
    <3>1. SUFFICES ASSUME NEW a \in Cmons, pc'[a] = "done", got'[a] = <<>>,
                          <<>> \notin UserFiles \union Saved
                   PROVE  \E b \in Cmons : made[b] /\ fd[b] = fd[a]
      BY <2>1 DEF EmptyIsNew
    <3>2. CASE a # c
      BY <1>1, <1>2, <2>1, <3>1, <3>2 DEF EmptyIsNew
    <3>3. CASE a = c /\ made[c]
      BY <3>3
    <3>4. CASE a = c /\ ~made[c]
      <4>1. disk[fd[c]] = <<>> /\ fd[c] \in DOMAIN disk
        BY <1>1, <2>1, <2>2, <3>1, <3>4
      <4>2. QED
        BY <1>2, <3>1, <3>4, <4>1 DEF EmptyWasMade
    <3>5. QED
      BY <3>2, <3>3, <3>4
  <2>9. QED
    BY <2>5, <2>6, <2>7, <2>8 DEF IInv
<1>8. QED
  BY <1>3, <1>4, <1>5, <1>6, <1>7 DEF Cmon

(* The user's steps, and none.                                             *)
LEMMA UserInv ==
    ASSUME IInv, (\E f \in Saved : Save(f)) \/ Unlink \/ UNCHANGED vars
    PROVE  IInv'
<1> USE DEF NoFile
<1>1. /\ disk \in Seq(Seq(Symbols)) /\ Len(disk) <= MaxFiles /\ Len(disk) \in Nat
      /\ DOMAIN disk = 1..Len(disk) /\ fd \in [Cmons -> 0..Len(disk)]
  BY DEF IInv, TypeOK
<1>2. ASSUME NEW f \in Saved, Save(f)
      PROVE  IInv'
  <2>1. PICK n : n = Len(disk)
    OBVIOUS
  <2>2. /\ n < MaxFiles /\ name' = n + 1 /\ disk' = Append(disk, f)
        /\ UNCHANGED <<pc, fd, made, lists, got>>
    BY <1>2, <2>1 DEF Save
  <2>3. f \in Seq(Symbols)
    BY ConfigAssumption
  <2>4. /\ disk' \in Seq(Seq(Symbols)) /\ Len(disk') = n + 1 /\ DOMAIN disk' = 1..(n + 1)
        /\ \A i \in 1..n : disk'[i] = disk[i]
    <3>1. f \in Seq(Symbols) /\ n = Len(disk) /\ disk' = Append(disk, f) /\ disk \in Seq(Seq(Symbols))
      BY <1>1, <2>1, <2>2, <2>3
    <3>2. QED
      BY ONLY <3>1, NewFile
  <2>5. n \in Nat /\ DOMAIN disk = 1..n /\ fd \in [Cmons -> 0..n] /\ disk'[n + 1] = f
    BY <1>1, <2>1, <2>2
  <2>6. TypeOK'
    <3>1. fd' \in [Cmons -> 0..Len(disk')] /\ name' \in 0..Len(disk') /\ Len(disk') <= MaxFiles
      <4>1. 0..n \subseteq 0..(n + 1) /\ n + 1 \in 0..(n + 1) /\ n + 1 <= MaxFiles
        BY <2>2, <2>5, Limit
      <4>2. QED
        BY <2>2, <2>4, <2>5, <4>1
    <3>2. QED
      BY <2>2, <2>4, <3>1 DEF IInv, TypeOK
  <2>7. Opened' /\ EmptyIsNew'
    BY <2>2 DEF IInv, Opened, EmptyIsNew
  <2>8. EmptyWasMade'
    <3>1. SUFFICES ASSUME NEW i \in 1..(n + 1), disk'[i] = <<>>, <<>> \notin UserFiles \union Saved
                   PROVE  \E b \in Cmons : /\ made[b] /\ fd[b] = i
                                           /\ DefaultFile # <<>> => pc[b] \in {"write", "killed"}
      BY <2>2, <2>4 DEF EmptyWasMade
    <3>2. i # n + 1
      BY <2>5, <3>1
    <3>3. i \in DOMAIN disk /\ disk[i] = <<>>
      BY <2>4, <2>5, <3>1, <3>2
    <3>4. QED
      BY <3>1, <3>3 DEF IInv, EmptyWasMade
  <2>9. QED
    BY <2>6, <2>7, <2>8 DEF IInv
<1>3. CASE Unlink
  <2>1. name' \in 0..Len(disk) /\ UNCHANGED <<disk, pc, fd, made, lists, got>>
    BY <1>1, <1>3 DEF Unlink
  <2>2. QED
    BY <2>1 DEF IInv, TypeOK, Opened, EmptyWasMade, EmptyIsNew
<1>4. CASE UNCHANGED vars
  BY <1>4 DEF vars, IInv, TypeOK, Opened, EmptyWasMade, EmptyIsNew
<1>5. QED
  BY <1>2, <1>3, <1>4

(* Config's invariant: the types of its state, who has a file open, and    *)
(* who has made the one that is empty.                                     *)
THEOREM Invariance == Spec => []IInv
<1>1. IInv /\ [Next]_vars => IInv'
  BY StepInv, UserInv DEF Next
<1>2. QED
  BY InitInv, <1>1, PTL DEF Spec

(* An empty file is never read by a cmon that neither made it nor started  *)
(* beside the one that did.  (config.c 147-171.)                           *)
THEOREM FilesReadAreFull == Spec => []EmptyIsNew
<1>1. IInv => EmptyIsNew
  BY DEF IInv
<1>2. QED
  BY <1>1, Invariance, PTL

(* .config.cmon is empty only between its making and its writing, as long  *)
(* as the default content is something.  (config.c 147-158.)               *)
THEOREM EmptinessPasses == ASSUME DefaultFile # <<>> PROVE Spec => []EmptyIsTransient
<1>1. IInv => EmptyIsTransient
  <2> SUFFICES ASSUME IInv, name # NoFile, disk[name] = <<>>, <<>> \notin UserFiles \union Saved
               PROVE  \E c \in Cmons : made[c] /\ fd[c] = name /\ pc[c] \in {"write", "killed"}
    BY DEF EmptyIsTransient
  <2>1. name \in DOMAIN disk
    BY DEF IInv, TypeOK, NoFile
  <2>2. QED
    BY <2>1 DEF IInv, EmptyWasMade
<1>2. QED
  BY <1>1, Invariance, PTL

(* Whatever is in the file, a word is listed no more often than it is      *)
(* written.  (tokenizer.c 196-261, config.c 299-363.)                      *)
THEOREM NothingIsListedTwice == Spec => []ListedOnce
<1>1. Init => ListedOnce
  <2> SUFFICES ASSUME Init, NEW c \in Cmons, NEW w
               PROVE  Cardinality(Listed(lists[c], w)) <= Cardinality(Places(got[c], w))
    BY DEF ListedOnce
  <2>1. Listed(lists[c], w) = {} /\ got[c] = <<>>
    BY NothingTyped DEF Init
  <2>2. Cardinality(Listed(lists[c], w)) = 0 /\ Cardinality(Places(got[c], w)) = 0
    BY <2>1, NonePlaced, FS_EmptySet
  <2>3. QED
    BY <2>2
<1>2. IInv /\ ListedOnce /\ [Next]_vars => ListedOnce'
  <2> SUFFICES ASSUME IInv, ListedOnce, [Next]_vars
               PROVE  ListedOnce'
    OBVIOUS
  <2>1. CASE UNCHANGED <<lists, got>>
    BY <2>1 DEF ListedOnce
  <2>2. ASSUME NEW c \in Cmons, Read(c)
        PROVE  ListedOnce'
    <3>1. PICK file :
             /\ file = (IF made[c] THEN SubSeq(disk[fd[c]], Len(DefaultFile) + 1, Len(disk[fd[c]]))
                        ELSE disk[fd[c]])
             /\ pc[c] = "read"
             /\ got' = [got EXCEPT ![c] = file]
             /\ lists' = [lists EXCEPT ![c] = Parse(Tokenize(file).tokens).lists]
      BY <2>2 DEF Read, At
    <3>2. fd[c] \in 1..Len(disk) /\ disk[fd[c]] \in Seq(Symbols)
      BY <3>1 DEF IInv, TypeOK, Opened, NoFile
    <3>3. file \in Seq(Symbols)
      <4>1. Len(DefaultFile) \in Nat
        BY FilesTyped
      <4>2. SubSeq(disk[fd[c]], Len(DefaultFile) + 1, Len(disk[fd[c]])) \in Seq(Symbols)
        BY <3>2, <4>1, Rest
      <4>3. QED
        BY <3>1, <3>2, <4>2
    <3>4. DOMAIN lists = Cmons /\ DOMAIN got = Cmons
      BY DEF IInv, TypeOK
    <3>5. ASSUME NEW a \in Cmons, NEW w \in Words
          PROVE  Cardinality(Listed(lists'[a], w)) <= Cardinality(Places(got'[a], w))
      <4>1. CASE a = c
        <5>1. lists'[a] = Parse(Tokenize(file).tokens).lists /\ got'[a] = file
          BY <3>1, <3>4, <4>1
        <5>2. QED
          BY <3>3, <5>1, ReadTyped
      <4>2. CASE a # c
        <5>1. lists'[a] = lists[a] /\ got'[a] = got[a]
          BY <3>1, <3>4, <4>2
        <5>2. QED
          BY <5>1 DEF ListedOnce
      <4>3. QED
        BY <4>1, <4>2
    <3>6. QED
      BY <3>5 DEF ListedOnce
  <2>3. QED
    BY <2>1, <2>2 DEF Next, Cmon, Access, Denied, Create, CreateDenied, Write, Open, Kill, Save,
                      Unlink, vars
<1>3. QED
  BY <1>1, <1>2, Invariance, PTL DEF Spec

-----------------------------------------------------------------------------
(* Two computations that take the same steps end alike.                    *)
LEMMA Alike ==
    ASSUME NEW n \in Nat, NEW f, NEW g, f[0] = g[0],
           \A k \in 1..n : f[k - 1] = g[k - 1] => f[k] = g[k]
    PROVE  f[n] = g[n]
<1> DEFINE G == {k \in 0..n : f[k] = g[k]}
<1>1. 0 \in G
  OBVIOUS
<1>2. \A k \in 1..n : k - 1 \in G => k \in G
  OBVIOUS
<1> HIDE DEF G
<1>3. \A k \in 0..n : k \in G
  BY <1>1, <1>2, Upward
<1>4. QED
  BY <1>3 DEF G

(* The tokenizer takes a file a character at a time.                       *)
Fresh == [tokens |-> <<>>, lexem |-> <<>>, quoted |-> FALSE, overrun |-> FALSE]

ScansTo(h, file) ==
    /\ h[0] = Fresh /\ Tokenize(file) = h[Len(file)]
    /\ \A i \in 1..Len(file) : h[i] = Scan(h[i - 1], file[i])

(* Its states between two characters; ...                                  *)
LEMMA TokenizeSteps ==
    ASSUME NEW file \in Seq(Symbols)
    PROVE  \E h : ScansTo(h, file)
<1> DEFINE L == Len(file)
           F == [i \in 1..L |-> [s \in Scanned |-> Scan(s, file[i])]]
           Turns(f) == f = [n \in 0..L |-> IF n = 0 THEN Fresh ELSE Scan(f[n - 1], file[n])]
<1>1. L \in Nat /\ \A i \in 1..L : file[i] \in Symbols
  BY Elements
<1>2. Fresh \in Scanned
  <2>1. <<>> \in Seq(Tokens) /\ <<>> \in Seq(Words)
    OBVIOUS
  <2>2. QED
    BY <2>1 DEF Scanned, Fresh
<1> HIDE DEF L
<1>3. PICK f : Turns(f)
  <2>1. F \in [1..L -> [Scanned -> Scanned]]
    <3>1. \A i \in 1..L, s \in Scanned : Scan(s, file[i]) \in Scanned
      BY <1>1, ScanTyped
    <3>2. QED
      BY <3>1
  <2> HIDE DEF F
  <2>2. \E f : Steps(Scanned, Fresh, L, F, f)
    BY ONLY <1>1, <1>2, <2>1, Recursion
  <2>3. PICK f \in [0..L -> Scanned] : f[0] = Fresh /\ \A i \in 1..L : f[i] = F[i][f[i - 1]]
    BY <2>2 DEF Steps
  <2>4. ASSUME NEW i \in 0..L
        PROVE  f[i] = IF i = 0 THEN Fresh ELSE Scan(f[i - 1], file[i])
    <3>1. CASE i = 0
      BY <2>3, <3>1
    <3>2. CASE i # 0
      <4>1. i \in 1..L /\ i - 1 \in 0..L
        BY <1>1, <3>2
      <4>2. f[i - 1] \in Scanned /\ f[i] = F[i][f[i - 1]]
        BY <2>3, <4>1
      <4>3. QED
        BY <3>2, <4>1, <4>2 DEF F
    <3>3. QED
      BY <3>1, <3>2
  <2>5. Turns(f)
    BY <2>3, <2>4
  <2> HIDE DEF Turns
  <2>6. QED
    BY <2>5
<1> DEFINE h == CHOOSE g : Turns(g)
<1>4. Turns(h)
  BY <1>3
<1>5. Tokenize(file) = h[L]
  BY DEF Tokenize, L, Fresh
<1> HIDE DEF h
<1>6. \A n \in 0..L : h[n] = IF n = 0 THEN Fresh ELSE Scan(h[n - 1], file[n])
  BY <1>4
<1> HIDE DEF Turns
<1>7. h[0] = Fresh /\ \A n \in 1..L : h[n] = Scan(h[n - 1], file[n])
  <2>1. 0 \in 0..L /\ \A n \in 1..L : n \in 0..L /\ n # 0
    BY <1>1
  <2>2. QED
    BY <1>6, <2>1
<1>8. QED
  BY <1>5, <1>7 DEF ScansTo, L

(* What comes later does not change what has been taken.                   *)
LEMMA TokenizeMore ==
    ASSUME NEW f \in Seq(Symbols), NEW g \in Seq(Symbols), NEW n, n = Len(f), n <= Len(g),
           \A i \in 1..n : g[i] = f[i], NEW r, ScansTo(r, g)
    PROVE  r[n] = Tokenize(f)
<1>1. PICK h : ScansTo(h, f)
  BY TokenizeSteps
<1>2. n \in Nat /\ n <= Len(g) /\ Len(g) \in Nat
  OBVIOUS
<1>3. h[0] = r[0] /\ \A k \in 1..n : h[k - 1] = r[k - 1] => h[k] = r[k]
  BY <1>1, <1>2 DEF ScansTo
<1>4. h[n] = r[n]
  BY ONLY <1>2, <1>3, Alike
<1>5. QED
  BY <1>1, <1>4 DEF ScansTo

(* One character more is one turn more.                                    *)
LEMMA TokenizeAppend ==
    ASSUME NEW f \in Seq(Symbols), NEW c \in Symbols
    PROVE  Tokenize(Append(f, c)) = Scan(Tokenize(f), c)
<1>1. PICK g, n : g = Append(f, c) /\ n = Len(f)
  OBVIOUS
<1>2. /\ g \in Seq(Symbols) /\ n \in Nat /\ Len(g) = n + 1 /\ g[n + 1] = c
      /\ \A i \in 1..n : g[i] = f[i]
  BY <1>1
<1>3. PICK r : ScansTo(r, g)
  BY <1>2, TokenizeSteps
<1>4. r[n] = Tokenize(f)
  <2>1. n = Len(f) /\ n <= Len(g) /\ g \in Seq(Symbols) /\ \A i \in 1..n : g[i] = f[i]
    BY <1>1, <1>2
  <2>2. QED
    BY ONLY f \in Seq(Symbols), <1>3, <2>1, TokenizeMore
<1>5. r[n + 1] = Scan(r[n], c)
  <2>1. n + 1 \in 1..Len(g) /\ (n + 1) - 1 = n
    BY <1>2
  <2>2. r[n + 1] = Scan(r[(n + 1) - 1], g[n + 1])
    BY <1>3, <2>1 DEF ScansTo
  <2>3. QED
    BY <1>2, <2>1, <2>2
<1>6. QED
  BY <1>1, <1>2, <1>3, <1>4, <1>5 DEF ScansTo

(* ... and the parser a token at a time.                                   *)
Where(k, b, ls) == [target |-> k, block |-> b, lists |-> ls, wild |-> FALSE]

FollowsTo(h, tokens) ==
    /\ h[0] = Where(NoKey, FALSE, Nothing) /\ Parse(tokens) = h[Len(tokens)]
    /\ \A i \in 1..Len(tokens) : h[i] = Follow(tokens, h[i - 1], i)

(* Its states between two tokens, ...                                      *)
LEMMA ParseSteps ==
    ASSUME NEW tokens \in Seq(Tokens)
    PROVE  \E h : FollowsTo(h, tokens)
<1> DEFINE L == Len(tokens)
           S == {s \in Parsing : \A w : IsFiniteSet(Listed(s.lists, w))}
           Start == Where(NoKey, FALSE, Nothing)
           F == [i \in 1..L |-> [s \in S |-> Follow(tokens, s, i)]]
           Turns(f) == f = [n \in 0..L |-> IF n = 0 THEN Start ELSE Follow(tokens, f[n - 1], n)]
<1>1. L \in Nat
  BY Elements
<1>2. Start \in Parsing /\ \A w : Listed(Start.lists, w) = {}
  BY NothingTyped DEF Where, Parsing
<1>3. Start \in S /\ \A i \in 1..L, s \in S : Follow(tokens, s, i) \in S
  BY <1>2, FollowTyped, FS_EmptySet
<1>4. Parse(tokens) = (CHOOSE f : Turns(f))[L]
  BY DEF Parse, Where
<1> HIDE DEF L, S, Start
<1>5. PICK f : Turns(f)
  <2>1. F \in [1..L -> [S -> S]]
    BY <1>3
  <2> HIDE DEF F
  <2>2. \E f : Steps(S, Start, L, F, f)
    BY ONLY <1>1, <1>3, <2>1, Recursion
  <2>3. PICK f \in [0..L -> S] : f[0] = Start /\ \A i \in 1..L : f[i] = F[i][f[i - 1]]
    BY <2>2 DEF Steps
  <2>4. ASSUME NEW i \in 0..L
        PROVE  f[i] = IF i = 0 THEN Start ELSE Follow(tokens, f[i - 1], i)
    <3>1. CASE i = 0
      BY <2>3, <3>1
    <3>2. CASE i # 0
      <4>1. i \in 1..L /\ i - 1 \in 0..L
        BY <1>1, <3>2
      <4>2. f[i - 1] \in S /\ f[i] = F[i][f[i - 1]]
        BY <2>3, <4>1
      <4>3. QED
        BY <3>2, <4>1, <4>2 DEF F
    <3>3. QED
      BY <3>1, <3>2
  <2>5. Turns(f)
    BY <2>3, <2>4
  <2> HIDE DEF Turns
  <2>6. QED
    BY <2>5
<1> DEFINE h == CHOOSE g : Turns(g)
<1>6. Turns(h)
  BY <1>5
<1>7. Parse(tokens) = h[L]
  BY <1>4
<1> HIDE DEF h
<1>8. \A n \in 0..L : h[n] = IF n = 0 THEN Start ELSE Follow(tokens, h[n - 1], n)
  BY <1>6
<1> HIDE DEF Turns
<1>9. h[0] = Start /\ \A n \in 1..L : h[n] = Follow(tokens, h[n - 1], n)
  <2>1. 0 \in 0..L /\ \A n \in 1..L : n \in 0..L /\ n # 0
    BY <1>1
  <2>2. QED
    BY <1>8, <2>1
<1>10. QED
  BY <1>7, <1>9 DEF FollowsTo, L, Start

(* What is parsed after tokens that do not end in a text is parsed from    *)
(* where they have led.                                                    *)
Ended(ts) == ts = <<>> \/ ts[Len(ts)].type # "TEXT"

(* ... the first of which the later tokens do not change.                  *)
LEMMA ParseMore ==
    ASSUME NEW ts \in Seq(Tokens), Ended(ts), NEW us \in Seq(Tokens),
           NEW n, n = Len(ts), n <= Len(us), \A i \in 1..n : us[i] = ts[i],
           NEW r, FollowsTo(r, us)
    PROVE  r[n] = Parse(ts)
<1>1. n = Len(ts)
  OBVIOUS
<1>2. PICK h : FollowsTo(h, ts)
  BY ParseSteps
<1>3. n \in Nat /\ Len(us) \in Nat
  BY <1>1
<1>4. ASSUME NEW k \in 1..n, h[k - 1] = r[k - 1]
      PROVE  h[k] = r[k]
  <2>1. h[k] = Follow(ts, h[k - 1], k) /\ r[k] = Follow(us, r[k - 1], k)
    BY <1>1, <1>2, <1>3 DEF FollowsTo
  <2>2. us[k] = ts[k] /\ (k # n => us[k + 1] = ts[k + 1]) /\ (k # n => k # Len(us))
    BY <1>1, <1>3
  <2>3. CASE k = n
    <3>1. ts[k].type # "TEXT"
      BY <1>1, <1>3, <2>3 DEF Ended
    <3>2. QED
      BY <1>4, <2>1, <2>2, <3>1 DEF Follow
  <2>4. CASE k # n
    BY <1>1, <1>4, <2>1, <2>2, <2>4 DEF Follow, Text
  <2>5. QED
    BY <2>3, <2>4
<1>5. h[0] = r[0]
  BY <1>2 DEF FollowsTo
<1>6. h[n] = r[n]
  BY ONLY <1>3, <1>4, <1>5, Alike
<1>7. QED
  BY <1>1, <1>2, <1>6 DEF FollowsTo

(* One token more, ...                                                     *)
LEMMA ParseAppend ==
    ASSUME NEW ts \in Seq(Tokens), Ended(ts), NEW t \in Tokens
    PROVE  Parse(Append(ts, t)) = Follow(Append(ts, t), Parse(ts), Len(ts) + 1)
<1>1. PICK us, n : us = Append(ts, t) /\ n = Len(ts)
  OBVIOUS
<1>2. us \in Seq(Tokens) /\ n \in Nat /\ Len(us) = n + 1 /\ \A i \in 1..n : us[i] = ts[i]
  BY <1>1
<1>3. PICK r : FollowsTo(r, us)
  BY <1>2, ParseSteps
<1>4. r[n] = Parse(ts)
  <2>1. n = Len(ts) /\ n <= Len(us) /\ us \in Seq(Tokens) /\ \A i \in 1..n : us[i] = ts[i]
    BY <1>1, <1>2
  <2>2. QED
    BY ONLY Ended(ts), ts \in Seq(Tokens), <1>3, <2>1, ParseMore
<1>5. r[n + 1] = Follow(us, r[n], n + 1)
  <2>1. n + 1 \in 1..Len(us) /\ (n + 1) - 1 = n
    BY <1>2
  <2>2. r[n + 1] = Follow(us, r[(n + 1) - 1], n + 1)
    BY <1>3, <2>1 DEF FollowsTo
  <2>3. QED
    BY <2>1, <2>2
<1>6. QED
  BY <1>1, <1>2, <1>3, <1>4, <1>5 DEF FollowsTo

(* ... and two: a text is followed with the colon after it.                *)
LEMMA ParsePair ==
    ASSUME NEW ts \in Seq(Tokens), Ended(ts), NEW t \in Tokens, NEW u \in Tokens
    PROVE  LET us == Append(Append(ts, t), u)
               n  == Len(ts)
           IN /\ Parse(us) = Follow(us, Follow(us, Parse(ts), n + 1), n + 2)
              /\ us \in Seq(Tokens) /\ Len(us) = n + 2 /\ us[n + 1] = t /\ us[n + 2] = u
<1>1. PICK vs, us, n : n = Len(ts) /\ vs = Append(ts, t) /\ us = Append(vs, u)
  OBVIOUS
<1>2. vs \in Seq(Tokens) /\ n \in Nat /\ Len(vs) = n + 1 /\ vs[n + 1] = t /\ \A i \in 1..n : vs[i] = ts[i]
  BY <1>1
<1>3. us \in Seq(Tokens) /\ Len(us) = n + 2 /\ us[n + 2] = u /\ \A i \in 1..(n + 1) : us[i] = vs[i]
  BY <1>1, <1>2
<1>4. us[n + 1] = t /\ \A i \in 1..n : us[i] = ts[i]
  BY <1>2, <1>3
<1>5. PICK r : FollowsTo(r, us)
  BY <1>3, ParseSteps
<1>6. r[n] = Parse(ts)
  <2>1. n = Len(ts) /\ n <= Len(us) /\ us \in Seq(Tokens)
    BY <1>1, <1>2, <1>3
  <2>2. QED
    BY ONLY Ended(ts), ts \in Seq(Tokens), <1>4, <1>5, <2>1, ParseMore
<1>7. \A i \in {n + 1, n + 2} : i \in 1..Len(us)
  BY <1>2, <1>3
<1>8. r[n + 1] = Follow(us, r[(n + 1) - 1], n + 1) /\ r[n + 2] = Follow(us, r[(n + 2) - 1], n + 2)
  BY <1>5, <1>7 DEF FollowsTo
<1>9. (n + 1) - 1 = n /\ (n + 2) - 1 = n + 1
  BY <1>2
<1>10. Parse(us) = r[n + 2]
  BY <1>3, <1>5 DEF FollowsTo
<1>11. Parse(us) = Follow(us, Follow(us, Parse(ts), n + 1), n + 2)
  BY <1>6, <1>8, <1>9, <1>10
<1>12. QED
  BY <1>1, <1>3, <1>4, <1>11, Zenon

(* A file has been read so far: all its lexemes are tokens, n of them, and *)
(* the parser is in state p.                                               *)
Clean(ts) == [tokens |-> ts, lexem |-> <<>>, quoted |-> FALSE, overrun |-> FALSE]

Reads(f, n, p) ==
    /\ f \in Seq(Symbols)
    /\ \E ts \in Seq(Tokens) :
          Len(ts) = n /\ Ended(ts) /\ Tokenize(f) = Clean(ts) /\ Parse(ts) = p

(* Two sequences joined, by element.                                       *)
LEMMA Concat ==
    ASSUME NEW T, NEW f \in Seq(T), NEW g \in Seq(T), NEW h, h = f \o g,
           NEW m, m = Len(f), NEW l, l = Len(g)
    PROVE  /\ h \in Seq(T) /\ m \in Nat /\ l \in Nat /\ Len(h) = m + l
           /\ \A i \in 1..m : h[i] = f[i]
           /\ \A i \in 1..l : h[m + i] = g[i]
OBVIOUS

(* Elements joined are appended.                                           *)
LEMMA JoinOne ==
    ASSUME NEW T, NEW f \in Seq(T), NEW a \in T
    PROVE  f \o <<a>> = Append(f, a) /\ Append(f, a) \in Seq(T)
OBVIOUS

(* Two elements joined, ...                                                *)
LEMMA JoinTwo ==
    ASSUME NEW T, NEW f \in Seq(T), NEW a \in T, NEW b \in T
    PROVE  f \o <<a, b>> = Append(Append(f, a), b)
OBVIOUS

(* ... and three.                                                          *)
LEMMA JoinThree ==
    ASSUME NEW T, NEW f \in Seq(T), NEW a \in T, NEW b \in T, NEW c \in T
    PROVE  f \o <<a, b, c>> = Append(Append(Append(f, a), b), c)
OBVIOUS

(* A sequence with one element more, ...                                   *)
LEMMA OneMore ==
    ASSUME NEW T, NEW s \in Seq(T), NEW e \in T, NEW n, n = Len(s), NEW t, t = Append(s, e)
    PROVE  t \in Seq(T) /\ n \in Nat /\ Len(t) = n + 1 /\ t[n + 1] = e
OBVIOUS

(* Tokens, and what is no word.                                            *)
LEMMA TokenTyped ==
    ASSUME NEW kind \in Kinds, NEW v \in Seq(Words), NEW t, t = Token(kind, v)
    PROVE  t \in Tokens /\ t.type = kind /\ t.value = v
BY DEF Token, Tokens

(* No mark is a word.                                                      *)
LEMMA NoWords ==
    /\ "{" \notin Words /\ "}" \notin Words /\ "quote" \notin Words
    /\ " " \notin Words /\ ":" \notin Words /\ "," \notin Words
BY ConfigAssumption, Zenon

(* What tokens are called.                                                 *)
LEMMA KindsAre == {"TEXT", "NUMBER", "STRING", ":"} \subseteq Kinds
BY Zenon DEF Kinds

(* The limits of the tokenizer, alone.                                     *)
LEMMA Room == MaxTokens \in Nat /\ MaxLexeme \in Nat /\ ~(0 + 1 >= MaxLexeme)
<1>1. MaxTokens \in Nat /\ MaxLexeme \in Nat \ {0, 1}
  BY ConfigAssumption, Zenon
<1>2. QED
  BY ONLY <1>1

(* Spaces change nothing between two lexemes.                              *)
LEMMA SpacesAre ==
    Spaces \subseteq Symbols /\ \A ts : \A c \in Spaces : Scan(Clean(ts), c) = Clean(ts)
<1>1. Spaces \subseteq Symbols
  BY SymbolsAre, Zenon DEF Spaces
<1>2. ASSUME NEW ts PROVE Scan(Clean(ts), " ") = Clean(ts)
  <2>1. Scan(Clean(ts), " ") = Flush(Clean(ts), TextType(Clean(ts).lexem))
    BY NoWords, Zenon DEF Scan
  <2>2. Clean(ts).lexem = <<>>
    BY DEF Clean
  <2>3. QED
    BY <2>1, <2>2, Zenon DEF Flush
<1>3. ASSUME NEW ts PROVE Scan(Clean(ts), ",") = Clean(ts)
  BY NoWords, Zenon DEF Scan
<1>4. QED
  BY <1>1, <1>2, <1>3, Zenon DEF Spaces

(* It changes nothing between lexemes, ...                                 *)
LEMMA ReadsGap ==
    ASSUME NEW f, NEW n, NEW p, Reads(f, n, p), NEW gap \in Seq(Spaces)
    PROVE  Reads(f \o gap, n, p)
<1>1. PICK ts \in Seq(Tokens) : Len(ts) = n /\ Ended(ts) /\ Tokenize(f) = Clean(ts) /\ Parse(ts) = p
  BY DEF Reads
<1>2. PICK g, m, l : g = f \o gap /\ m = Len(f) /\ l = Len(gap)
  OBVIOUS
<1>3. f \in Seq(Symbols) /\ gap \in Seq(Symbols)
  BY SpacesAre, Wider DEF Reads
<1>4. /\ g \in Seq(Symbols) /\ m \in Nat /\ l \in Nat /\ Len(g) = m + l
      /\ \A i \in 1..m : g[i] = f[i]
      /\ \A i \in 1..l : g[m + i] = gap[i]
  <2>1. g = f \o gap /\ m = Len(f) /\ l = Len(gap)
    BY <1>2
  <2>2. QED
    BY ONLY <1>3, <2>1, Concat
<1>5. \A i \in 1..l : g[m + i] \in Spaces
  <2>1. \A i \in 1..l : gap[i] \in Spaces
    BY <1>2, Elements
  <2>2. QED
    BY <1>4, <2>1
<1>6. PICK r : ScansTo(r, g)
  BY <1>4, TokenizeSteps
<1>7. r[m] = Clean(ts)
  <2>1. m = Len(f) /\ m <= Len(g) /\ f \in Seq(Symbols) /\ g \in Seq(Symbols)
        /\ \A i \in 1..m : g[i] = f[i]
    BY <1>2, <1>3, <1>4
  <2>2. r[m] = Tokenize(f)
    BY ONLY <1>6, <2>1, TokenizeMore
  <2>3. QED
    BY <1>1, <2>2
<1>8. \A c \in Spaces : Scan(Clean(ts), c) = Clean(ts)
  BY SpacesAre
<1> DEFINE G == {i \in 0..l : r[m + i] = Clean(ts)}
<1>9. 0 \in G
  BY <1>4, <1>7
<1>10. ASSUME NEW i \in 1..l, i - 1 \in G
       PROVE  i \in G
  <2>1. m + i \in 1..Len(g) /\ (m + i) - 1 = m + (i - 1) /\ i \in 0..l
    BY <1>4
  <2>2. r[m + i] = Scan(r[m + (i - 1)], g[m + i])
    BY <1>6, <2>1 DEF ScansTo
  <2>3. QED
    BY <1>5, <1>8, <1>10, <2>1, <2>2
<1>11. l \in G
  <2> HIDE DEF G
  <2>1. \A i \in 0..l : i \in G
    BY <1>4, <1>9, <1>10, Upward
  <2>2. QED
    BY <1>4, <2>1
<1>12. Tokenize(g) = Clean(ts)
  BY <1>4, <1>6, <1>11 DEF ScansTo
<1>13. QED
  BY <1>1, <1>2, <1>4, <1>12 DEF Reads

(* ... a mark becomes a token, ...                                         *)
LEMMA ReadsMark ==
    ASSUME NEW f, NEW n \in Nat, NEW p, Reads(f, n, p), n < MaxTokens,
           NEW c \in Symbols, c \in Kinds, c # "TEXT",
           \A s : Scan(s, c) = Put(s, Token(c, <<>>)),
           NEW q, \A ts, i : ts[i].type = c => Follow(ts, p, i) = q
    PROVE  Reads(f \o <<c>>, n + 1, q)
<1>1. PICK ts \in Seq(Tokens) : Len(ts) = n /\ Ended(ts) /\ Tokenize(f) = Clean(ts) /\ Parse(ts) = p
  BY DEF Reads
<1>2. PICK t, us : t = Token(c, <<>>) /\ us = Append(ts, t)
  OBVIOUS
<1>3. t \in Tokens /\ t.type = c
  <2>1. c \in Kinds /\ <<>> \in Seq(Words) /\ t = Token(c, <<>>)
    BY <1>2
  <2>2. QED
    BY ONLY <2>1, TokenTyped
<1>4. us \in Seq(Tokens) /\ Len(us) = n + 1 /\ us[n + 1] = t
  <2>1. ts \in Seq(Tokens) /\ n = Len(ts) /\ us = Append(ts, t)
    BY <1>1, <1>2
  <2>2. QED
    BY ONLY <1>3, <2>1, OneMore
<1>5. Tokenize(f \o <<c>>) = Clean(us) /\ f \o <<c>> \in Seq(Symbols)
  <2>1. f \in Seq(Symbols)
    BY DEF Reads
  <2>2. Tokenize(f \o <<c>>) = Scan(Clean(ts), c) /\ f \o <<c>> \in Seq(Symbols)
    BY <1>1, <2>1, JoinOne, TokenizeAppend
  <2>3. ~(n >= MaxTokens)
    BY Room
  <2>4. Put(Clean(ts), t) = Clean(us)
    BY <1>1, <1>2, <2>3 DEF Put, Clean
  <2>5. QED
    BY <1>2, <2>2, <2>4
<1>6. Parse(us) = Follow(us, p, n + 1)
  BY <1>1, <1>2, <1>3, ParseAppend
<1>7. Parse(us) = q
  BY <1>3, <1>4, <1>6
<1>8. Ended(us)
  BY <1>3, <1>4 DEF Ended
<1>9. QED
  BY <1>4, <1>5, <1>7, <1>8 DEF Reads

(* One field of a state is set.                                            *)
ParserAt(k, b, ls, wild) == [target |-> k, block |-> b, lists |-> ls, wild |-> wild]
ScannerAt(ts, l, q, o) == [tokens |-> ts, lexem |-> l, quoted |-> q, overrun |-> o]

(* It has that value then, and the others theirs.                          *)
LEMMA FieldsSet ==
    ASSUME NEW a, NEW b, NEW c, NEW d, NEW x
    PROVE  /\ [ParserAt(a, b, c, d) EXCEPT !.block = x] = ParserAt(a, x, c, d)
           /\ [ParserAt(a, b, c, d) EXCEPT !.target = x] = ParserAt(x, b, c, d)
           /\ [ScannerAt(a, b, c, d) EXCEPT !.quoted = x] = ScannerAt(a, b, x, d)
BY DEF ParserAt, ScannerAt

(* Being in a block is one of them, ...                                    *)
LEMMA BlockSet ==
    ASSUME NEW k, NEW b, NEW c, NEW ls
    PROVE  [Where(k, b, ls) EXCEPT !.block = c] = Where(k, c, ls)
<1>1. PICK w : w = FALSE
  OBVIOUS
<1>2. \A x : Where(k, x, ls) = ParserAt(k, x, ls, w)
  BY <1>1, Zenon DEF ParserAt, Where
<1>3. QED
  BY <1>2, FieldsSet

(* ... for any state.                                                      *)
LEMMA BlockOpened == \A k, ls, b, c : [Where(k, b, ls) EXCEPT !.block = c] = Where(k, c, ls)
BY BlockSet

(* ... as a bracket does that opens a block ...                            *)
LEMMA ReadsOpen ==
    ASSUME NEW f, NEW n \in Nat, NEW k, NEW ls, Reads(f, n, Where(k, FALSE, ls)), n < MaxTokens
    PROVE  Reads(f \o <<"{">>, n + 1, Where(k, TRUE, ls))
<1>1. PICK c : c = "{"
  OBVIOUS
<1>2. c \in Symbols /\ c \in Kinds /\ c # "TEXT"
  BY <1>1, SymbolsAre, Zenon DEF Kinds
<1>3. \A s : Scan(s, c) = Put(s, Token(c, <<>>))
  BY <1>1, NoWords, Zenon DEF Scan
<1>4. \A ts, i : ts[i].type = c => Follow(ts, Where(k, FALSE, ls), i) = Where(k, TRUE, ls)
  <2>1. \A s, ts, i : ts[i].type = c => Follow(ts, s, i) = [s EXCEPT !.block = TRUE]
    BY <1>1, Zenon DEF Follow
  <2>2. [Where(k, FALSE, ls) EXCEPT !.block = TRUE] = Where(k, TRUE, ls)
    <3>1. PICK b, d : b = FALSE /\ d = TRUE
      OBVIOUS
    <3>2. [Where(k, b, ls) EXCEPT !.block = d] = Where(k, d, ls)
      BY BlockOpened
    <3>3. QED
      BY <3>1, <3>2, Zenon
  <2>3. QED
    BY <2>1, <2>2, Zenon
<1>5. Reads(f \o <<c>>, n + 1, Where(k, TRUE, ls))
  BY <1>2, <1>3, <1>4, ReadsMark
<1>6. QED
  BY <1>1, <1>5, Zenon

(* ... or closes it, ...                                                   *)
LEMMA ReadsClose ==
    ASSUME NEW f, NEW n \in Nat, NEW k, NEW ls, Reads(f, n, Where(k, TRUE, ls)), n < MaxTokens
    PROVE  Reads(f \o <<"}">>, n + 1, Where(NoKey, FALSE, ls))
<1>1. PICK c : c = "}"
  OBVIOUS
<1>2. c \in Symbols /\ c \in Kinds /\ c # "TEXT"
  BY <1>1, SymbolsAre, Zenon DEF Kinds
<1>3. \A s : Scan(s, c) = Put(s, Token(c, <<>>))
  BY <1>1, NoWords, Zenon DEF Scan
<1>4. \A ts, i : ts[i].type = c => Follow(ts, Where(k, TRUE, ls), i) = Where(NoKey, FALSE, ls)
  <2>1. \A s, ts, i : ts[i].type = c => Follow(ts, s, i) = Close(s)
    BY <1>1, Zenon DEF Follow
  <2>2. Close(Where(k, TRUE, ls)) = Where(NoKey, FALSE, ls)
    <3>1. Close(Where(k, TRUE, ls)) = [[Where(k, TRUE, ls) EXCEPT !.block = FALSE] EXCEPT !.target = NoKey]
      BY DEF Close
    <3>2. QED
      BY <3>1, FieldsSet, Zenon DEF ParserAt, Where
  <2>3. QED
    BY <2>1, <2>2
<1>5. Reads(f \o <<c>>, n + 1, Where(NoKey, FALSE, ls))
  BY <1>2, <1>3, <1>4, ReadsMark
<1>6. QED
  BY <1>1, <1>5, Zenon

(* ... a key names a list, if it is one of the keys, ...                   *)
LEMMA ReadsKey ==
    ASSUME NEW f, NEW n \in Nat, NEW ls, Reads(f, n, Where(NoKey, FALSE, ls)), n + 2 <= MaxTokens,
           NEW key \in Words
    PROVE  Reads(f \o <<key, ":">>, n + 2, Where(IF key \in Keys THEN key ELSE NoKey, FALSE, ls))
<1>1. PICK ts \in Seq(Tokens) : /\ Len(ts) = n /\ Ended(ts) /\ Tokenize(f) = Clean(ts)
                                /\ Parse(ts) = Where(NoKey, FALSE, ls)
  BY DEF Reads
<1>2. PICK kind : kind = TextType(<<key>>)
  OBVIOUS
<1>3. kind \in {"TEXT", "NUMBER"} /\ (key \in Keys => kind = "TEXT")
  <2>1. Range(<<key>>) = {key}
    BY DEF Range
  <2>2. QED
    BY <1>2, <2>1, ConfigAssumption DEF TextType
<1>4. PICK t, u, vs, us : /\ t = Token(kind, <<key>>) /\ u = Token(":", <<>>)
                          /\ vs = Append(ts, t) /\ us = Append(vs, u)
  OBVIOUS
<1>5. t \in Tokens /\ t.type = kind /\ t.value = <<key>> /\ u \in Tokens /\ u.type = ":"
  <2>1. kind \in Kinds /\ <<key>> \in Seq(Words) /\ ":" \in Kinds /\ <<>> \in Seq(Words)
    BY <1>3, KindsAre
  <2>2. t = Token(kind, <<key>>) /\ u = Token(":", <<>>)
    BY <1>4
  <2>3. t \in Tokens /\ t.type = kind /\ t.value = <<key>>
    BY ONLY <2>1, <2>2, TokenTyped
  <2>4. u \in Tokens /\ u.type = ":"
    BY ONLY <2>1, <2>2, TokenTyped
  <2>5. QED
    BY <2>3, <2>4
<1>6. /\ Parse(us) = Follow(us, Follow(us, Parse(ts), n + 1), n + 2)
      /\ us \in Seq(Tokens) /\ Len(us) = n + 2 /\ us[n + 1] = t /\ us[n + 2] = u
  <2>1. vs = Append(ts, t) /\ us = Append(vs, u) /\ n = Len(ts) /\ t \in Tokens /\ u \in Tokens
        /\ Ended(ts)
    BY <1>1, <1>4, <1>5
  <2>2. PICK x, m : x = Append(Append(ts, t), u) /\ m = Len(ts)
    OBVIOUS
  <2>3. /\ Parse(x) = Follow(x, Follow(x, Parse(ts), m + 1), m + 2)
        /\ x \in Seq(Tokens) /\ Len(x) = m + 2 /\ x[m + 1] = t /\ x[m + 2] = u
    BY <2>1, <2>2, ParsePair
  <2>4. QED
    BY <2>1, <2>2, <2>3, Zenon
<1>7. Tokenize(f \o <<key, ":">>) = Clean(us) /\ f \o <<key, ":">> \in Seq(Symbols)
  <2>1. f \in Seq(Symbols) /\ key \in Symbols /\ ":" \in Symbols
    BY SymbolsAre DEF Reads
  <2>2. f \o <<key, ":">> = Append(Append(f, key), ":") /\ f \o <<key, ":">> \in Seq(Symbols)
        /\ Append(f, key) \in Seq(Symbols)
    BY <2>1
  <2>3. Tokenize(f \o <<key, ":">>) = Scan(Scan(Clean(ts), key), ":")
    BY <1>1, <2>1, <2>2, TokenizeAppend
  <2>4. PICK s : s = [tokens |-> ts, lexem |-> <<key>>, quoted |-> FALSE, overrun |-> FALSE]
    OBVIOUS
  <2>5. Scan(Clean(ts), key) = s
    <3>1. key \notin {"{", "}", "quote", " ", ":", ","}
      BY ConfigAssumption
    <3>2. Scan(Clean(ts), key) = Collect(Clean(ts), key)
      BY <3>1 DEF Scan
    <3>3. ~(0 + 1 >= MaxLexeme) /\ Len(<<>>) = 0 /\ Append(<<>>, key) = <<key>>
      BY Room
    <3>4. QED
      BY <2>4, <3>2, <3>3 DEF Collect, Clean
  <2>6. ~(n >= MaxTokens) /\ ~(n + 1 >= MaxTokens)
    BY Room
  <2>7. Flush(s, kind) = Clean(vs)
    <3>1. s.lexem # <<>>
      BY <2>4
    <3>2. Flush(s, kind) = [Put(s, t) EXCEPT !.lexem = <<>>]
      BY <1>4, <2>4, <3>1 DEF Flush
    <3>3. Put(s, t) = [s EXCEPT !.tokens = vs]
      BY <1>1, <1>4, <2>4, <2>6 DEF Put
    <3>4. QED
      BY <2>4, <3>2, <3>3 DEF Clean
  <2>8. Put(Clean(vs), u) = Clean(us)
    <3>1. Len(vs) = n + 1
      BY <1>1, <1>4, <1>5
    <3>2. QED
      BY <1>4, <2>6, <3>1 DEF Put, Clean
  <2>9. Scan(s, ":") = Put(Flush(s, kind), u)
    <3>1. ":" \notin Words
      BY NoWords
    <3>2. QED
      BY <1>2, <1>4, <2>4, <3>1 DEF Scan
  <2>10. QED
    BY <2>2, <2>3, <2>5, <2>7, <2>8, <2>9
<1>8. Follow(us, Where(NoKey, FALSE, ls), n + 1) = Where(IF key \in Keys THEN key ELSE NoKey, FALSE, ls)
  <2>1. key \in Keys <=> <<key>> \in {<<k>> : k \in Keys}
    OBVIOUS
  <2>2. Head(<<key>>) = key /\ n + 1 # n + 2 /\ (n + 1) + 1 = n + 2
    OBVIOUS
  <2>3. CASE kind = "TEXT"
    <3>1. Follow(us, Where(NoKey, FALSE, ls), n + 1) = Text(us, Where(NoKey, FALSE, ls), n + 1)
      BY <1>5, <1>6, <2>3 DEF Follow
    <3>2. QED
      BY <1>5, <1>6, <2>1, <2>2, <3>1 DEF Text, Where
  <2>4. CASE kind = "NUMBER"
    BY <1>3, <1>5, <1>6, <2>4 DEF Follow
  <2>5. QED
    BY <1>3, <2>3, <2>4
<1>9. \A s : Follow(us, s, n + 2) = s
  BY <1>5, <1>6 DEF Follow
<1>10. Ended(us)
  BY <1>5, <1>6 DEF Ended
<1>11. QED
  BY <1>1, <1>6, <1>7, <1>8, <1>9, <1>10 DEF Reads

(* ... and an entry goes to that list.                                     *)
LEMMA ReadsEntry ==
    ASSUME NEW f, NEW n \in Nat, NEW k, NEW ls, Reads(f, n, Where(k, TRUE, ls)), n < MaxTokens,
           NEW w \in Words
    PROVE  Reads(f \o <<"quote", w, "quote">>, n + 1,
                 Where(k, TRUE, IF k = NoKey THEN ls ELSE AddTo(ls, k, <<w>>)))
<1>1. PICK ts \in Seq(Tokens) : /\ Len(ts) = n /\ Ended(ts) /\ Tokenize(f) = Clean(ts)
                                /\ Parse(ts) = Where(k, TRUE, ls)
  BY DEF Reads
<1>2. PICK t, us : t = Token("STRING", <<w>>) /\ us = Append(ts, t)
  OBVIOUS
<1>3. t \in Tokens /\ t.type = "STRING" /\ t.value = <<w>>
  <2>1. "STRING" \in Kinds /\ <<w>> \in Seq(Words) /\ t = Token("STRING", <<w>>)
    BY <1>2 DEF Kinds
  <2>2. QED
    BY ONLY <2>1, TokenTyped
<1>4. us \in Seq(Tokens) /\ Len(us) = n + 1 /\ us[n + 1] = t
  <2>1. ts \in Seq(Tokens) /\ n = Len(ts) /\ us = Append(ts, t)
    BY <1>1, <1>2
  <2>2. QED
    BY ONLY <1>3, <2>1, OneMore
<1>5. /\ Tokenize(f \o <<"quote", w, "quote">>) = Clean(us)
      /\ f \o <<"quote", w, "quote">> \in Seq(Symbols)
  <2>1. f \in Seq(Symbols) /\ w \in Symbols /\ "quote" \in Symbols
    BY SymbolsAre DEF Reads
  <2>2. PICK g, h : g = Append(f, "quote") /\ h = Append(g, w)
    OBVIOUS
  <2>3. g \in Seq(Symbols) /\ h \in Seq(Symbols) /\ Append(h, "quote") \in Seq(Symbols)
        /\ f \o <<"quote", w, "quote">> = Append(h, "quote")
    BY <2>1, <2>2
  <2>4. Tokenize(g) = Scan(Clean(ts), "quote") /\ Tokenize(h) = Scan(Tokenize(g), w)
        /\ Tokenize(Append(h, "quote")) = Scan(Tokenize(h), "quote")
    BY <1>1, <2>1, <2>2, <2>3, TokenizeAppend, Zenon
  <2>5. PICK s, r : /\ s = [tokens |-> ts, lexem |-> <<>>, quoted |-> TRUE, overrun |-> FALSE]
                    /\ r = [tokens |-> ts, lexem |-> <<w>>, quoted |-> TRUE, overrun |-> FALSE]
    OBVIOUS
  <2>6. \A x : Scan(x, "quote") = Quote(x)
    <3>1. "quote" \notin Words
      BY NoWords
    <3>2. QED
      BY <3>1 DEF Scan
  <2>7. Quote(Clean(ts)) = s
    <3>1. Clean(ts).quoted = FALSE
      BY DEF Clean
    <3>2. Quote(Clean(ts)) = [Clean(ts) EXCEPT !.quoted = TRUE]
      BY <3>1 DEF Quote
    <3>3. QED
      BY <2>5, <3>2, FieldsSet, Zenon DEF ScannerAt, Clean
  <2>8. Scan(s, w) = r
    <3>1. w \notin {"{", "}", "quote", " ", ":", ","}
      BY ConfigAssumption
    <3>2. Scan(s, w) = Collect(s, w)
      BY <3>1 DEF Scan
    <3>3. ~(0 + 1 >= MaxLexeme) /\ Len(<<>>) = 0 /\ Append(<<>>, w) = <<w>>
      BY Room
    <3>4. QED
      BY <2>5, <3>2, <3>3 DEF Collect
  <2>9. Quote(r) = Clean(us)
    <3>1. ~(n >= MaxTokens)
      BY Room
    <3>2. Put(r, t) = [r EXCEPT !.tokens = us]
      BY <1>1, <1>2, <2>5, <3>1 DEF Put
    <3>3. Quote(r) = [[Put(r, t) EXCEPT !.lexem = <<>>] EXCEPT !.quoted = FALSE]
      BY <1>2, <2>5, <3>2 DEF Quote
    <3>4. QED
      BY <2>5, <3>2, <3>3 DEF Clean
  <2>10. QED
    BY <2>3, <2>4, <2>6, <2>7, <2>8, <2>9
<1>6. Parse(us) = Follow(us, Where(k, TRUE, ls), n + 1)
  BY <1>1, <1>2, <1>3, ParseAppend
<1>7. Parse(us) = Where(k, TRUE, IF k = NoKey THEN ls ELSE AddTo(ls, k, <<w>>))
  <2>1. Parse(us) = String(Where(k, TRUE, ls), <<w>>)
    BY <1>3, <1>4, <1>6 DEF Follow
  <2>2. <<w>> # <<>>
    OBVIOUS
  <2>3. QED
    BY <2>1, <2>2 DEF String, Where
<1>8. Ended(us)
  BY <1>3, <1>4 DEF Ended
<1>9. QED
  BY <1>4, <1>5, <1>7, <1>8 DEF Reads

(* Two sequences with the same elements.                                   *)
LEMMA SameElements ==
    ASSUME NEW T, NEW s \in Seq(T), NEW t \in Seq(T), NEW n \in Nat, Len(s) = n, Len(t) = n,
           \A i \in 1..n : s[i] = t[i]
    PROVE  s = t
OBVIOUS

(* Joining is associative, and the empty sequence adds nothing.            *)
LEMMA JoinJoined ==
    ASSUME NEW T
    PROVE  /\ \A a, b, c \in Seq(T) : a \o (b \o c) = (a \o b) \o c
           /\ \A a \in Seq(T) : a \o <<>> = a /\ <<>> \o a = a
<1>1. ASSUME NEW a \in Seq(T), NEW b \in Seq(T), NEW c \in Seq(T)
      PROVE  a \o (b \o c) = (a \o b) \o c
  <2>1. PICK l, m, n : l = Len(a) /\ m = Len(b) /\ n = Len(c)
    OBVIOUS
  <2>2. PICK ab, bc : ab = a \o b /\ bc = b \o c
    OBVIOUS
  <2>3. /\ ab \in Seq(T) /\ l \in Nat /\ m \in Nat /\ Len(ab) = l + m
        /\ \A i \in 1..l : ab[i] = a[i]
        /\ \A i \in 1..m : ab[l + i] = b[i]
    BY ONLY <2>1, <2>2, Concat
  <2>4. /\ bc \in Seq(T) /\ n \in Nat /\ Len(bc) = m + n
        /\ \A i \in 1..m : bc[i] = b[i]
        /\ \A i \in 1..n : bc[m + i] = c[i]
    BY ONLY <2>1, <2>2, Concat
  <2>5. PICK x, y : x = a \o bc /\ y = ab \o c
    OBVIOUS
  <2>6. PICK p, q : p = Len(bc) /\ q = Len(ab)
    OBVIOUS
  <2>7. a \in Seq(T) /\ bc \in Seq(T) /\ x = a \o bc /\ l = Len(a) /\ p = Len(bc)
    BY <2>1, <2>4, <2>5, <2>6
  <2>8. ab \in Seq(T) /\ c \in Seq(T) /\ y = ab \o c /\ q = Len(ab) /\ n = Len(c)
    BY <2>1, <2>3, <2>5, <2>6
  <2>9. p = m + n /\ q = l + m
    BY <2>3, <2>4, <2>6
  <2>10. /\ x \in Seq(T) /\ Len(x) = l + p
         /\ \A i \in 1..l : x[i] = a[i]
         /\ \A i \in 1..p : x[l + i] = bc[i]
    BY ONLY <2>7, Concat
  <2>11. /\ y \in Seq(T) /\ Len(y) = q + n
         /\ \A i \in 1..q : y[i] = ab[i]
         /\ \A i \in 1..n : y[q + i] = c[i]
    BY ONLY <2>8, Concat
  <2>12. Len(x) = Len(y)
    BY <2>3, <2>4, <2>9, <2>10, <2>11
  <2>13. ASSUME NEW i \in 1..Len(x) PROVE x[i] = y[i]
    <3>1. CASE i \in 1..l
      <4>1. i \in 1..q
        BY <3>1, <2>3, <2>4, <2>9
      <4>2. QED
        BY <2>3, <2>10, <2>11, <3>1, <4>1
    <3>2. CASE i \in (l + 1)..(l + m)
      <4>1. PICK j \in 1..m : i = l + j
        <5>1. i - l \in 1..m /\ i = l + (i - l)
          BY <2>3, <3>2
        <5>2. QED
          BY <5>1
      <4>2. j \in 1..p /\ l + j \in 1..q
        BY <2>3, <2>4, <2>9
      <4>3. QED
        BY <2>3, <2>4, <2>10, <2>11, <4>1, <4>2
    <3>3. CASE i \in (l + m + 1)..(l + m + n)
      <4>1. PICK j \in 1..n : i = q + j
        <5>1. i - q \in 1..n /\ i = q + (i - q)
          BY <2>3, <2>4, <2>9, <3>3
        <5>2. QED
          BY <5>1
      <4>2. m + j \in 1..p /\ i = l + (m + j)
        BY <2>3, <2>4, <2>9, <4>1
      <4>3. QED
        BY <2>4, <2>10, <2>11, <4>1, <4>2
    <3>4. QED
      BY <2>3, <2>4, <2>9, <2>10, <3>1, <3>2, <3>3
  <2>14. x = y
    BY <2>10, <2>11, <2>12, <2>13
  <2>15. QED
    BY <2>2, <2>5, <2>14
<1>2. \A a \in Seq(T) : a \o <<>> = a /\ <<>> \o a = a
  OBVIOUS
<1>3. QED
  BY <1>1, <1>2

(* What is before each element of s, and all of it.                        *)
Firsts(s) == [j \in 0..Len(s) |-> SubSeq(s, 1, j)]

Grows(F, T, s, n) ==
    /\ F[0] = <<>> /\ F[n] = s /\ \A j \in 0..n : F[j] \in Seq(T)
    /\ \A j \in 1..n : F[j] = F[j - 1] \o <<s[j]>>

(* It is one element longer each time.                                     *)
LEMMA FirstOnes ==
    ASSUME NEW T, NEW s \in Seq(T), NEW n, n = Len(s), NEW F, F = Firsts(s)
    PROVE  Grows(F, T, s, n)
<1>1. n \in Nat /\ n = Len(s)
  OBVIOUS
<1>2. \A j \in 0..n : F[j] \in Seq(T) /\ Len(F[j]) = j /\ \A i \in 1..j : F[j][i] = s[i]
  BY DEF Firsts
<1>3. F[0] = <<>> /\ F[n] = s
  BY DEF Firsts
<1>4. ASSUME NEW j \in 1..n
      PROVE  F[j] = F[j - 1] \o <<s[j]>>
  <2>1. PICK a, b, e : a = F[j - 1] /\ b = F[j] /\ e = s[j]
    OBVIOUS
  <2>2. PICK l : l = j - 1
    OBVIOUS
  <2>3. l \in 0..n /\ j \in 0..n
    BY <1>1, <2>2
  <2>4. a \in Seq(T) /\ Len(a) = l /\ \A i \in 1..l : a[i] = s[i]
    BY <1>2, <2>1, <2>2, <2>3
  <2>5. b \in Seq(T) /\ Len(b) = j /\ \A i \in 1..j : b[i] = s[i]
    BY <1>2, <2>1, <2>3
  <2>6. b = a \o <<e>>
    <3>1. e \in T /\ j \in Nat /\ j = l + 1 /\ l \in Nat
      BY <1>1, <2>1, <2>2, <2>3
    <3>2. PICK d : d = a \o <<e>>
      OBVIOUS
    <3>3. d \in Seq(T) /\ Len(d) = j /\ d[j] = e /\ \A i \in 1..l : d[i] = a[i]
      BY ONLY <2>4, <3>1, <3>2
    <3>4. ASSUME NEW i \in 1..j PROVE d[i] = b[i]
      <4>1. CASE i = j
        BY <2>1, <2>5, <3>3, <4>1
      <4>2. CASE i # j
        <5>1. i \in 1..l
          BY <3>1, <4>2
        <5>2. QED
          BY <2>4, <2>5, <3>3, <5>1
      <4>3. QED
        BY <4>1, <4>2
    <3>5. d = b
      BY ONLY <2>5, <3>3, <3>4, SameElements
    <3>6. QED
      BY <3>2, <3>5, Zenon
  <2>7. QED
    BY <2>1, <2>6
<1>5. QED
  BY <1>2, <1>3, <1>4 DEF Grows

(* The entries that lists take of the words A.                             *)
Cap(s) == [i \in 1..(IF Len(s) < MaxEntries THEN Len(s) ELSE MaxEntries) |-> <<s[i]>>]
Capped(A) == [k \in Keys |-> Cap(A[k])]
Grown(A, k, s) == [j \in Keys |-> IF j = k THEN A[j] \o s ELSE A[j]]

(* One word more is one entry more, if there is room.                      *)
LEMMA CapOne ==
    ASSUME NEW s \in Seq(Words), NEW w \in Words, MaxEntries \in Nat
    PROVE  /\ Len(Cap(s)) >= MaxEntries => Cap(s \o <<w>>) = Cap(s)
           /\ ~(Len(Cap(s)) >= MaxEntries) => Cap(s \o <<w>>) = Append(Cap(s), <<w>>)
<1>1. PICK t, n : t = s \o <<w>> /\ n = Len(s)
  OBVIOUS
<1>2. t \in Seq(Words) /\ n \in Nat /\ Len(t) = n + 1 /\ t[n + 1] = w /\ \A i \in 1..n : t[i] = s[i]
  BY ONLY <1>1
<1>3. CASE n < MaxEntries
  <2>1. Cap(s) = [i \in 1..n |-> <<s[i]>>]
    BY <1>1, <1>3 DEF Cap
  <2>2. \A i \in 1..n : s[i] \in Words
    BY <1>1
  <2>3. Cap(s) \in Seq(Seq(Words)) /\ Len(Cap(s)) = n
    <3>1. [i \in 1..n |-> <<s[i]>>] \in [1..n -> Seq(Words)]
      BY <2>2
    <3>2. QED
      BY <1>2, <2>1, <3>1
  <2>4. Cap(t) = [i \in 1..(n + 1) |-> <<t[i]>>]
    <3>1. (IF Len(t) < MaxEntries THEN Len(t) ELSE MaxEntries) = n + 1
      BY <1>2, <1>3
    <3>2. QED
      BY <3>1 DEF Cap
  <2>5. Append(Cap(s), <<w>>) = [i \in 1..(n + 1) |-> <<t[i]>>]
    <3>1. PICK x, y : x = Cap(s) /\ y = <<w>>
      OBVIOUS
    <3>2. Append(x, y) = [i \in 1..(n + 1) |-> IF i = n + 1 THEN y ELSE x[i]]
      BY ONLY <1>2, <2>3, <3>1
    <3>3. \A i \in 1..n : x[i] = <<t[i]>>
      BY <1>2, <2>1, <3>1
    <3>4. y = <<t[n + 1]>>
      BY <1>2, <3>1
    <3>5. \A i \in 1..(n + 1) : (IF i = n + 1 THEN y ELSE x[i]) = <<t[i]>>
      <4> SUFFICES ASSUME NEW i \in 1..(n + 1)
                   PROVE  (IF i = n + 1 THEN y ELSE x[i]) = <<t[i]>>
        OBVIOUS
      <4>1. i # n + 1 => i \in 1..n
        BY <1>2
      <4>2. QED
        BY <3>3, <3>4, <4>1
    <3>6. QED
      BY <3>1, <3>2, <3>5
  <2>6. Cap(t) = Append(Cap(s), <<w>>) /\ ~(Len(Cap(s)) >= MaxEntries)
    <3>1. ~(Len(Cap(s)) >= MaxEntries)
      BY <1>2, <1>3, <2>3
    <3>2. QED
      BY <2>4, <2>5, <3>1
  <2>7. QED
    BY <1>1, <2>6, Zenon
<1>4. CASE ~(n < MaxEntries)
  <2>1. Cap(s) = [i \in 1..MaxEntries |-> <<s[i]>>]
    BY <1>1, <1>4 DEF Cap
  <2>2. Cap(t) = [i \in 1..MaxEntries |-> <<t[i]>>]
    <3>1. ~(Len(t) < MaxEntries)
      BY <1>2, <1>4
    <3>2. QED
      BY <3>1 DEF Cap
  <2>3. \A i \in 1..MaxEntries : t[i] = s[i]
    BY <1>2, <1>4
  <2>4. Cap(s) = Cap(t)
    BY <2>1, <2>2, <2>3
  <2>5. Len(Cap(s)) = MaxEntries
    BY <2>1
  <2>6. QED
    BY <1>1, <2>4, <2>5
<1>5. QED
  BY <1>3, <1>4

(* An entry is added to one of them.                                       *)
LEMMA AddCapped ==
    ASSUME NEW A \in [Keys -> Seq(Words)], NEW k \in Keys, NEW w \in Words
    PROVE  AddTo(Capped(A), k, <<w>>) = Capped(Grown(A, k, <<w>>))
<1>1. PICK n : n = Capped(A)
  OBVIOUS
<1>2. n = [j \in Keys |-> Cap(A[j])]
  BY <1>1 DEF Capped
<1>3. Capped(Grown(A, k, <<w>>)) = [j \in Keys |-> Cap(IF j = k THEN A[j] \o <<w>> ELSE A[j])]
  BY DEF Capped, Grown
<1>4. /\ Len(Cap(A[k])) >= MaxEntries => Cap(A[k] \o <<w>>) = Cap(A[k])
      /\ ~(Len(Cap(A[k])) >= MaxEntries) => Cap(A[k] \o <<w>>) = Append(Cap(A[k]), <<w>>)
  BY Limit, CapOne
<1>5. CASE Len(n[k]) >= MaxEntries
  <2>1. AddTo(n, k, <<w>>) = n
    BY <1>5 DEF AddTo
  <2>2. Cap(A[k] \o <<w>>) = Cap(A[k])
    BY <1>2, <1>4, <1>5
  <2>3. QED
    BY <1>1, <1>2, <1>3, <2>1, <2>2
<1>6. CASE ~(Len(n[k]) >= MaxEntries)
  <2>1. AddTo(n, k, <<w>>) = [n EXCEPT ![k] = Append(@, <<w>>)]
    BY <1>6 DEF AddTo
  <2>2. Cap(A[k] \o <<w>>) = Append(n[k], <<w>>)
    BY <1>2, <1>4, <1>6
  <2>3. QED
    BY <1>1, <1>2, <1>3, <2>1, <2>2
<1>7. QED
  BY <1>5, <1>6

(* NoKey is no key.                                                        *)
LEMMA NoKeyIsNone == Keys \subseteq Words /\ NoKey \notin Words /\ NoKey \notin Keys
BY ConfigAssumption, Zenon

(* What the lists have after some more words for one of them ...           *)
LEMMA GrownTyped ==
    ASSUME NEW A \in [Keys -> Seq(Words)], NEW k, NEW s \in Seq(Words)
    PROVE  /\ Grown(A, k, s) \in [Keys -> Seq(Words)] /\ Grown(A, k, <<>>) = A
           /\ k \notin Keys => Grown(A, k, s) = A
<1>1. \A j \in Keys : A[j] \in Seq(Words) /\ A[j] \o s \in Seq(Words)
  BY Joined
<1>2. Grown(A, k, s) \in [Keys -> Seq(Words)]
  BY <1>1 DEF Grown
<1>3. Grown(A, k, <<>>) = A
  <2>1. \A j \in Keys : A[j] \o <<>> = A[j]
    BY <1>1, JoinJoined
  <2>2. QED
    BY <2>1 DEF Grown
<1>4. k \notin Keys => Grown(A, k, s) = A
  BY DEF Grown
<1>5. QED
  BY <1>2, <1>3, <1>4

(* ... and yet some more.                                                  *)
GrowsOn(A, k, s, t) == Grown(Grown(A, k, s), k, t) = Grown(A, k, s \o t)

(* It is as if they came together.                                         *)
LEMMA GrownTwice ==
    ASSUME NEW A \in [Keys -> Seq(Words)], NEW k, NEW s \in Seq(Words), NEW t \in Seq(Words)
    PROVE  GrowsOn(A, k, s, t)
<1> DEFINE B == Grown(A, k, s)
           u == s \o t
<1>1. \A j \in Keys : A[j] \in Seq(Words)
  OBVIOUS
<1>2. \A j \in Keys : (A[j] \o s) \o t = A[j] \o (s \o t)
  BY <1>1, JoinJoined
<1>3. \A j \in Keys : B[j] = IF j = k THEN A[j] \o s ELSE A[j]
  BY DEF Grown
<1>4. \A j \in Keys : (IF j = k THEN B[j] \o t ELSE B[j]) = (IF j = k THEN A[j] \o u ELSE A[j])
  BY <1>2, <1>3
<1>5. QED
  BY <1>4 DEF Grown, GrowsOn

(* The entries of a block are read one after the other.                    *)
LEMMA ReadsEntries ==
    ASSUME NEW f, NEW n \in Nat, NEW k \in Keys \union {NoKey}, NEW A \in [Keys -> Seq(Words)],
           NEW e \in Seq(Words), NEW gap \in Seq(Spaces), n + Len(e) <= MaxTokens,
           Reads(f, n, Where(k, TRUE, Capped(A)))
    PROVE  Reads(f \o FlattenSeq([i \in DOMAIN e |-> EntryOf(e[i], gap)]), n + Len(e),
                 Where(k, TRUE, Capped(Grown(A, k, e))))
<1>1. PICK m, s : m = Len(e) /\ s = [i \in DOMAIN e |-> EntryOf(e[i], gap)]
  OBVIOUS
<1>2. m \in Nat /\ DOMAIN e = 1..m /\ \A i \in 1..m : e[i] \in Words
  BY <1>1, Elements
<1>3. gap \in Seq(Symbols) /\ f \in Seq(Symbols)
  BY SpacesAre, Wider DEF Reads
<1>4. /\ \A w \in Words : <<"quote", w, "quote">> \in Seq(Symbols)
      /\ [i \in DOMAIN e |-> EntryOf(e[i], gap)] \in Seq(Seq(Symbols))
  BY <1>3, EntriesTyped
<1>5. s \in Seq(Seq(Symbols)) /\ Len(s) = m /\ \A i \in 1..m : s[i] = EntryOf(e[i], gap)
  <2>1. Len(s) = m
    BY <1>1, <1>2, <1>4
  <2>2. QED
    BY <1>1, <1>2, <1>4, <2>1
<1>6. PICK F \in [0..m -> Seq(Symbols)] : Runs(s, F) /\ FlattenSeq(s) = F[m]
  BY <1>5, FlattenSteps
<1>7. PICK E : E = Firsts(e)
  OBVIOUS
<1>8. /\ E[0] = <<>> /\ E[m] = e /\ \A j \in 0..m : E[j] \in Seq(Words)
      /\ \A j \in 1..m : E[j] = E[j - 1] \o <<e[j]>>
  <2>1. e \in Seq(Words) /\ m = Len(e) /\ E = Firsts(e)
    BY <1>1, <1>7
  <2>2. Grows(E, Words, e, m)
    BY ONLY <2>1, FirstOnes
  <2>3. QED
    BY <2>2 DEF Grows
<1> DEFINE G == {j \in 0..m : Reads(f \o F[j], n + j, Where(k, TRUE, Capped(Grown(A, k, E[j]))))}
<1>9. 0 \in G
  <2>1. F[0] = <<>>
    BY <1>6 DEF Runs
  <2>2. f \o <<>> = f
    BY <1>3, JoinJoined
  <2>3. Grown(A, k, E[0]) = A
    <3>1. Grown(A, k, <<>>) = A
      BY <1>8, GrownTyped
    <3>2. QED
      BY <1>8, <3>1
  <2>4. f \o F[0] = f /\ n + 0 = n /\ 0 \in 0..m
    BY <1>2, <2>1, <2>2
  <2>5. QED
    BY <2>3, <2>4
<1>10. ASSUME NEW j \in 1..m, j - 1 \in G
       PROVE  j \in G
  <2>1. PICK B, g, i, w, q : /\ B = Grown(A, k, E[j - 1]) /\ g = f \o F[j - 1]
                             /\ i = n + (j - 1) /\ w = e[j] /\ q = <<"quote", w, "quote">>
    BY Zenon
  <2>2. Reads(g, i, Where(k, TRUE, Capped(B)))
    BY <1>10, <2>1
  <2>3. i \in Nat /\ i < MaxTokens /\ i + 1 = n + j /\ w \in Words /\ j - 1 \in 0..m
    BY <1>1, <1>2, <2>1, Room
  <2>4. E[j - 1] \in Seq(Words) /\ B \in [Keys -> Seq(Words)] /\ <<w>> \in Seq(Words)
    <3>1. PICK x : x = E[j - 1]
      OBVIOUS
    <3>2. x \in Seq(Words) /\ <<w>> \in Seq(Words)
      BY <1>8, <2>3, <3>1
    <3>3. Grown(A, k, x) \in [Keys -> Seq(Words)]
      BY <3>2, GrownTyped
    <3>4. QED
      BY <2>1, <3>1, <3>2, <3>3
  <2>5. Reads(g \o q, i + 1, Where(k, TRUE, IF k = NoKey THEN Capped(B)
                                            ELSE AddTo(Capped(B), k, <<w>>)))
    BY <2>1, <2>2, <2>3, ReadsEntry
  <2>6. Reads((g \o q) \o gap, i + 1, Where(k, TRUE, IF k = NoKey THEN Capped(B)
                                                      ELSE AddTo(Capped(B), k, <<w>>)))
    BY <2>5, ReadsGap
  <2>7. (IF k = NoKey THEN Capped(B) ELSE AddTo(Capped(B), k, <<w>>)) = Capped(Grown(B, k, <<w>>))
    <3>1. CASE k = NoKey
      <4>1. k \notin Keys
        BY <3>1, NoKeyIsNone
      <4>2. Grown(B, k, <<w>>) = B
        <5>1. PICK y : y = <<w>>
          OBVIOUS
        <5>2. y \in Seq(Words)
          BY <2>4, <5>1
        <5>3. B \in [Keys -> Seq(Words)]
          BY <2>4
        <5>4. Grown(B, k, y) = B
          BY ONLY <4>1, <5>2, <5>3, GrownTyped
        <5>5. QED
          BY <5>1, <5>4, Zenon
      <4>3. QED
        BY <3>1, <4>2
    <3>2. CASE k # NoKey
      BY <2>3, <2>4, <3>2, AddCapped
    <3>3. QED
      BY <3>1, <3>2
  <2>8. Grown(B, k, <<w>>) = Grown(A, k, E[j])
    <3>1. E[j] = E[j - 1] \o <<w>>
      BY <1>8, <2>1
    <3>2. PICK x, y : x = E[j - 1] /\ y = <<w>>
      OBVIOUS
    <3>3. x \in Seq(Words) /\ y \in Seq(Words)
      BY <2>4, <3>2
    <3>4. GrowsOn(A, k, x, y)
      BY <3>3, GrownTwice
    <3>5. Grown(Grown(A, k, x), k, y) = Grown(A, k, x \o y)
      BY ONLY <3>4 DEF GrowsOn
    <3>6. QED
      BY <2>1, <3>1, <3>2, <3>5, Zenon
  <2>9. (g \o q) \o gap = f \o F[j]
    <3>1. F[j] = F[j - 1] \o (q \o gap)
      BY <1>5, <1>6, <2>1 DEF Runs, EntryOf
    <3>2. q \in Seq(Symbols) /\ F[j - 1] \in Seq(Symbols)
      BY <1>4, <1>6, <2>1, <2>3
    <3>3. PICK h, x : h = F[j - 1] /\ x = h \o q
      OBVIOUS
    <3>4. h \in Seq(Symbols) /\ q \in Seq(Symbols) /\ gap \in Seq(Symbols) /\ f \in Seq(Symbols)
      BY <1>3, <3>2, <3>3
    <3>5. x \in Seq(Symbols)
      BY <3>3, <3>4, Joined
    <3>6. \A a, b, c \in Seq(Symbols) : a \o (b \o c) = (a \o b) \o c
      BY JoinJoined
    <3>7. h \o (q \o gap) = (h \o q) \o gap
      BY ONLY <3>4, <3>6, Zenon
    <3>8. f \o (x \o gap) = (f \o x) \o gap /\ f \o (h \o q) = (f \o h) \o q
      <4>1. f \o (h \o q) = (f \o h) \o q
        BY ONLY <3>4, <3>6, Zenon
      <4>2. f \o (x \o gap) = (f \o x) \o gap
        BY ONLY <3>4, <3>5, <3>6, Zenon
      <4>3. QED
        BY <4>1, <4>2
    <3>9. F[j] = h \o (q \o gap) /\ g = f \o h
      BY <2>1, <3>1, <3>3
    <3>10. F[j] = x \o gap
      BY ONLY <3>3, <3>7, <3>9, Zenon
    <3>11. f \o x = g \o q
      BY <3>3, <3>8, <3>9
    <3>12. QED
      BY <3>8, <3>10, <3>11
  <2>10. j \in 0..m
    BY <1>2
  <2>11. QED
    BY <2>3, <2>6, <2>7, <2>8, <2>9, <2>10
<1>11. m \in G
  <2> HIDE DEF G
  <2>1. \A j \in 0..m : j \in G
    BY <1>2, <1>9, <1>10, Upward
  <2>2. QED
    BY <1>2, <2>1
<1>12. Reads(f \o F[m], n + m, Where(k, TRUE, Capped(Grown(A, k, e))))
  BY <1>8, <1>11
<1>13. QED
  BY <1>1, <1>6, <1>12

(* Seven sequences joined to one are joined one by one.                    *)
AtOnce(f, a, b, c, d, e, g, h) == f \o ((((((a \o b) \o c) \o d) \o e) \o g) \o h)
OneByOne(f, a, b, c, d, e, g, h) == ((((((f \o a) \o b) \o c) \o d) \o e) \o g) \o h

(* Both are the same.                                                      *)
LEMMA JoinSeven ==
    ASSUME NEW f, NEW a, NEW b, NEW c, NEW d, NEW e, NEW g, NEW h,
           {f, a, b, c, d, e, g, h} \subseteq Seq(Symbols)
    PROVE  AtOnce(f, a, b, c, d, e, g, h) = OneByOne(f, a, b, c, d, e, g, h)
<1>1. \A x, y \in Seq(Symbols) :
         x \o y \in Seq(Symbols) /\ f \o (x \o y) = (f \o x) \o y
  <2>1. \A x, y \in Seq(Symbols) : x \o y \in Seq(Symbols)
    BY Joined
  <2>2. \A x, y, z \in Seq(Symbols) : x \o (y \o z) = (x \o y) \o z
    BY JoinJoined
  <2>3. f \in Seq(Symbols)
    OBVIOUS
  <2>4. QED
    BY ONLY <2>1, <2>2, <2>3, Zenon
<1>2. PICK p : p = a \o b
  OBVIOUS
<1>3. PICK q : q = p \o c
  OBVIOUS
<1>4. PICK r : r = q \o d
  OBVIOUS
<1>5. PICK s : s = r \o e
  OBVIOUS
<1>6. PICK t : t = s \o g
  OBVIOUS
<1>7. p \in Seq(Symbols) /\ f \o p = (f \o a) \o b
  BY <1>1, <1>2, Zenon
<1>8. q \in Seq(Symbols) /\ f \o q = (f \o p) \o c
  BY <1>1, <1>3, <1>7, Zenon
<1>9. r \in Seq(Symbols) /\ f \o r = (f \o q) \o d
  BY <1>1, <1>4, <1>8, Zenon
<1>10. s \in Seq(Symbols) /\ f \o s = (f \o r) \o e
  BY <1>1, <1>5, <1>9, Zenon
<1>11. t \in Seq(Symbols) /\ f \o t = (f \o s) \o g
  BY <1>1, <1>6, <1>10, Zenon
<1>12. f \o (t \o h) = (f \o t) \o h
  BY <1>1, <1>11, Zenon
<1>13. (((((a \o b) \o c) \o d) \o e) \o g) = t
  BY <1>2, <1>3, <1>4, <1>5, <1>6, Zenon
<1>14. ((((((f \o a) \o b) \o c) \o d) \o e) \o g) = f \o t
  BY <1>7, <1>8, <1>9, <1>10, <1>11, Zenon
<1>15. QED
  BY <1>12, <1>13, <1>14, Zenon DEF AtOnce, OneByOne

(* A block is read: four tokens, and one for each of its entries,     *)
(* which the list of its key is given.                                     *)
LEMMA ReadsBlock ==
    ASSUME NEW f, NEW n \in Nat, NEW A \in [Keys -> Seq(Words)], NEW b \in Blocks,
           NEW gap \in Layouts, n + 4 + Len(b.entries) <= MaxTokens,
           Reads(f, n, Where(NoKey, FALSE, Capped(A)))
    PROVE  Reads(f \o BlockOf(b, gap), n + 4 + Len(b.entries),
                 Where(NoKey, FALSE, Capped(Grown(A, b.key, b.entries))))
<1>1. PICK key, e : key = b.key /\ e = b.entries
  OBVIOUS
<1>2. key \in Words /\ e \in Seq(Words) /\ Len(e) \in Nat
  BY <1>1 DEF Blocks
<1>3. PICK k, m, s : /\ k = (IF key \in Keys THEN key ELSE NoKey) /\ m = Len(e)
                     /\ s = FlattenSeq([i \in DOMAIN e |-> EntryOf(e[i], gap.entry)])
  OBVIOUS
<1>4. PICK start, open, close : start = <<key, ":">> /\ open = <<"{">> /\ close = <<"}">>
  BY Zenon
<1>4a. PICK g1, g2, g4 : g1 = gap.key /\ g2 = gap.open /\ g4 = gap.close
  OBVIOUS
<1>4b. /\ g1 \in Seq(Spaces) /\ g2 \in Seq(Spaces) /\ g4 \in Seq(Spaces)
       /\ g1 \in Seq(Symbols) /\ g2 \in Seq(Symbols) /\ g4 \in Seq(Symbols)
  BY <1>4a, LayoutPieces
<1>5. BlockOf(b, gap) = (((((start \o g1) \o open) \o g2) \o s) \o close) \o g4
  BY <1>1, <1>3, <1>4, <1>4a, Zenon DEF BlockOf
<1>6. k \in Keys \union {NoKey}
  BY <1>3
<1>7. m \in Nat /\ n + 4 + m <= MaxTokens /\ MaxTokens \in Nat
  BY <1>1, <1>2, <1>3, Room
<1>8. n + 2 <= MaxTokens /\ n + 2 \in Nat /\ n + 2 < MaxTokens
      /\ n + 3 \in Nat /\ n + 3 + m <= MaxTokens /\ n + 3 + m \in Nat /\ n + 3 + m < MaxTokens
      /\ (n + 2) + 1 = n + 3 /\ (n + 3 + m) + 1 = n + 4 + m
  BY ONLY <1>7, n \in Nat
<1>9. Reads(f \o start, n + 2, Where(k, FALSE, Capped(A)))
  <2>1. Reads(f \o <<key, ":">>, n + 2, Where(IF key \in Keys THEN key ELSE NoKey, FALSE, Capped(A)))
    BY <1>2, <1>8, ReadsKey
  <2>2. QED
    BY <1>3, <1>4, <2>1, Zenon
<1>10. Reads((f \o start) \o g1, n + 2, Where(k, FALSE, Capped(A)))
  BY <1>9, <1>4b, ReadsGap
<1>11. Reads(((f \o start) \o g1) \o open, n + 3, Where(k, TRUE, Capped(A)))
  <2>1. PICK g, i, j : g = (f \o start) \o g1 /\ i = n + 2 /\ j = n + 3
    OBVIOUS
  <2>2. Reads(g, i, Where(k, FALSE, Capped(A))) /\ i \in Nat /\ i < MaxTokens /\ i + 1 = j
    BY <1>8, <1>10, <2>1
  <2>3. Reads(g \o <<"{">>, i + 1, Where(k, TRUE, Capped(A)))
    BY ONLY <2>2, ReadsOpen, Zenon
  <2>4. QED
    BY <1>4, <2>1, <2>2, <2>3, Zenon
<1>12. Reads((((f \o start) \o g1) \o open) \o g2, n + 3, Where(k, TRUE, Capped(A)))
  BY <1>11, <1>4b, ReadsGap
<1>13. Reads(((((f \o start) \o g1) \o open) \o g2) \o s, n + 3 + m,
             Where(k, TRUE, Capped(Grown(A, k, e))))
  <2>1. PICK g, i : g = (((f \o start) \o g1) \o open) \o g2 /\ i = n + 3
    OBVIOUS
  <2>2. Reads(g, i, Where(k, TRUE, Capped(A))) /\ i \in Nat /\ i + Len(e) <= MaxTokens
    BY <1>3, <1>8, <1>12, <2>1
  <2>3. Reads(g \o FlattenSeq([j \in DOMAIN e |-> EntryOf(e[j], gap.entry)]), i + Len(e),
              Where(k, TRUE, Capped(Grown(A, k, e))))
    <3>1. A \in [Keys -> Seq(Words)] /\ e \in Seq(Words) /\ gap.entry \in Seq(Spaces)
      BY <1>2, LayoutPieces
    <3>2. QED
      BY ONLY <1>6, <2>2, <3>1, ReadsEntries, Zenon
  <2>4. QED
    BY <1>3, <2>1, <2>3
<1>14. Reads((((((f \o start) \o g1) \o open) \o g2) \o s) \o close, n + 4 + m,
             Where(NoKey, FALSE, Capped(Grown(A, k, e))))
  <2>1. PICK g, i, j, ls : /\ g = ((((f \o start) \o g1) \o open) \o g2) \o s /\ i = n + 3 + m
                           /\ j = n + 4 + m /\ ls = Capped(Grown(A, k, e))
    OBVIOUS
  <2>2. Reads(g, i, Where(k, TRUE, ls)) /\ i \in Nat /\ i < MaxTokens /\ i + 1 = j
    BY <1>8, <1>13, <2>1
  <2>3. Reads(g \o <<"}">>, i + 1, Where(NoKey, FALSE, ls))
    BY ONLY <2>2, ReadsClose, Zenon
  <2>4. QED
    BY <1>4, <2>1, <2>2, <2>3, Zenon
<1>15. Reads(((((((f \o start) \o g1) \o open) \o g2) \o s) \o close) \o g4, n + 4 + m,
             Where(NoKey, FALSE, Capped(Grown(A, k, e))))
  BY <1>14, <1>4b, ReadsGap
<1>16. Grown(A, k, e) = Grown(A, key, e)
  BY <1>2, <1>3, NoKeyIsNone, GrownTyped
<1>17. /\ f \in Seq(Symbols) /\ s \in Seq(Symbols)
       /\ start \in Seq(Symbols) /\ open \in Seq(Symbols) /\ close \in Seq(Symbols)
  <2>1. f \in Seq(Symbols)
    BY DEF Reads
  <2>2. start \in Seq(Symbols)
    BY <1>2, <1>4, SymbolsAre, Pieces
  <2>3. open \in Seq(Symbols) /\ close \in Seq(Symbols)
    <3>1. PICK x, y : x = "{" /\ y = "}"
      BY Zenon
    <3>2. x \in Symbols /\ y \in Symbols
      BY <3>1, SymbolsAre, Zenon
    <3>3. <<x>> \in Seq(Symbols) /\ <<y>> \in Seq(Symbols)
      BY <3>2, Pieces
    <3>4. QED
      BY <1>4, <3>1, <3>3, Zenon
  <2>4. s \in Seq(Symbols)
    BY <1>2, <1>3, LayoutPieces, EntriesTyped
  <2>5. QED
    BY <2>1, <2>2, <2>3, <2>4
<1>18. f \o BlockOf(b, gap) = ((((((f \o start) \o g1) \o open) \o g2) \o s) \o close) \o g4
  <2>1. AtOnce(f, start, g1, open, g2, s, close, g4)
        = OneByOne(f, start, g1, open, g2, s, close, g4)
    <3>1. {f, start, g1, open, g2, s, close, g4} \subseteq Seq(Symbols)
      BY <1>17, <1>4b
    <3>2. QED
      BY ONLY <3>1, JoinSeven, Zenon
  <2>2. QED
    BY <1>5, <2>1, Zenon DEF AtOnce, OneByOne
<1>19. QED
  BY <1>1, <1>3, <1>15, <1>16, <1>18

(* The tokens of the first blocks, as Fits counts them.                    *)
Counts(t, config) ==
    /\ t[0] = 0 /\ (Fits(config) <=> t[Len(config)] <= MaxTokens)
    /\ \A i \in 1..Len(config) : t[i] = t[i - 1] + 4 + Len(config[i].entries)

(* There is such a count.                                                  *)
LEMMA TokensCounted ==
    ASSUME NEW config \in Seq(Blocks)
    PROVE  \E t \in [0..Len(config) -> Nat] : Counts(t, config)
<1> DEFINE L == Len(config)
           More(i) == Len(config[i].entries)
           F == [i \in 1..L |-> [v \in Nat |-> v + 4 + More(i)]]
           Turns(f) == f = [n \in 0..L |-> IF n = 0 THEN 0 ELSE f[n - 1] + 4 + More(n)]
<1>1. L \in Nat /\ \A i \in 1..L : More(i) \in Nat
  <2>1. L \in Nat /\ \A i \in 1..L : config[i] \in Blocks
    BY Elements
  <2>2. \A b \in Blocks : b.entries \in Seq(Words)
    BY DEF Blocks
  <2>3. QED
    BY <2>1, <2>2
<1> HIDE DEF L, More
<1>2. PICK f \in [0..L -> Nat] : f[0] = 0 /\ \A i \in 1..L : f[i] = f[i - 1] + 4 + More(i)
  <2>1. F \in [1..L -> [Nat -> Nat]]
    <3>1. \A i \in 1..L, v \in Nat : v + 4 + More(i) \in Nat
      BY <1>1
    <3>2. QED
      BY <3>1
  <2>2. \A i \in 1..L, v \in Nat : F[i][v] = v + 4 + More(i)
    OBVIOUS
  <2> HIDE DEF F
  <2>3. \E f : Steps(Nat, 0, L, F, f)
    BY ONLY <1>1, <2>1, 0 \in Nat, Recursion
  <2>4. PICK f \in [0..L -> Nat] : f[0] = 0 /\ \A i \in 1..L : f[i] = F[i][f[i - 1]]
    BY <2>3 DEF Steps
  <2>5. \A i \in 1..L : f[i - 1] \in Nat
    BY <1>1, <2>4
  <2>6. QED
    BY <2>2, <2>4, <2>5
<1>3. Turns(f)
  <2>1. ASSUME NEW n \in 0..L
        PROVE  f[n] = IF n = 0 THEN 0 ELSE f[n - 1] + 4 + More(n)
    <3>1. n # 0 => n \in 1..L
      BY <1>1
    <3>2. QED
      BY <1>2, <3>1
  <2>2. QED
    BY <1>2, <2>1
<1> DEFINE h == CHOOSE g : Turns(g)
<1>4. Turns(h)
  BY <1>3
<1>5. Fits(config) <=> h[L] <= MaxTokens
  BY DEF Fits, L, More
<1> HIDE DEF h
<1>6. /\ h = [n \in 0..L |-> h[n]] /\ h[0] = 0
      /\ \A n \in 1..L : h[n] = h[n - 1] + 4 + More(n)
  <2>1. \A n \in 0..L : h[n] = IF n = 0 THEN 0 ELSE h[n - 1] + 4 + More(n)
    BY <1>4
  <2>2. h = [n \in 0..L |-> h[n]]
    BY <1>4, <2>1
  <2> HIDE DEF Turns
  <2>3. 0 \in 0..L /\ \A n \in 1..L : n \in 0..L /\ n # 0
    BY <1>1
  <2>4. QED
    BY <2>1, <2>2, <2>3
<1>7. h[L] = f[L]
  <2>1. L \in Nat /\ h[0] = f[0] /\ \A k \in 1..L : h[k - 1] = f[k - 1] => h[k] = f[k]
    BY <1>1, <1>2, <1>6
  <2>2. QED
    BY ONLY <2>1, Alike
<1>8. QED
  BY <1>2, <1>5, <1>7 DEF Counts, L, More

(* It counts upward.                                                       *)
LEMMA CountsUp ==
    ASSUME NEW config \in Seq(Blocks), NEW t \in [0..Len(config) -> Nat], Counts(t, config),
           NEW i \in 1..Len(config)
    PROVE  t[i - 1] \in Nat /\ t[i] \in Nat /\ t[i - 1] <= t[i]
<1>1. i - 1 \in 0..Len(config) /\ i \in 0..Len(config) /\ Len(config) \in Nat
  OBVIOUS
<1>2. t[i - 1] \in Nat /\ t[i] \in Nat /\ t[i] = t[i - 1] + 4 + Len(config[i].entries)
  BY <1>1 DEF Counts
<1>3. Len(config[i].entries) \in Nat
  <2>1. config[i] \in Blocks
    BY Elements
  <2>2. QED
    BY <2>1 DEF Blocks
<1>4. QED
  BY <1>2, <1>3

(* The entries of the blocks of k, block by block.                         *)
PartsOf(config, k) ==
    [i \in DOMAIN config |-> IF config[i].key = k THEN config[i].entries ELSE <<>>]

(* They are sequences of words, and so are all of them joined.             *)
LEMMA PartsTyped ==
    ASSUME NEW config \in Seq(Blocks), NEW k
    PROVE  /\ PartsOf(config, k) \in Seq(Seq(Words)) /\ Len(PartsOf(config, k)) = Len(config)
           /\ FlattenSeq(PartsOf(config, k)) \in Seq(Words)
<1>1. PICK n, s : n = Len(config) /\ s = PartsOf(config, k)
  OBVIOUS
<1>2. DOMAIN config = 1..n /\ n \in Nat /\ \A i \in 1..n : config[i] \in Blocks
  BY <1>1, Elements
<1>3. \A i \in 1..n : (IF config[i].key = k THEN config[i].entries ELSE <<>>) \in Seq(Words)
  <2>1. \A b \in Blocks : b.entries \in Seq(Words)
    BY DEF Blocks
  <2>2. \A i \in 1..n : config[i].entries \in Seq(Words)
    BY <1>2, <2>1
  <2>3. <<>> \in Seq(Words)
    OBVIOUS
  <2>4. QED
    BY ONLY <2>2, <2>3
<1>4. s \in [1..n -> Seq(Words)]
  BY <1>1, <1>2, <1>3 DEF PartsOf
<1>5. s \in Seq(Seq(Words)) /\ Len(s) = n
  <2>1. s \in Seq(Seq(Words))
    BY <1>2, <1>4, Built
  <2>2. QED
    BY <1>2, <1>4, <2>1
<1>6. FlattenSeq(s) \in Seq(Words)
  BY <1>5, FlattenTyped
<1>7. QED
  BY <1>1, <1>5, <1>6

(* Nothing is read of an empty file.                                       *)
LEMMA ReadsNothing == Reads(<<>>, 0, Where(NoKey, FALSE, Nothing))
<1>1. <<>> \in Seq(Symbols) /\ <<>> \in Seq(Tokens) /\ Len(<<>>) = 0
  OBVIOUS
<1>2. PICK h : ScansTo(h, <<>>)
  BY <1>1, TokenizeSteps
<1>3. Tokenize(<<>>) = Clean(<<>>)
  BY <1>1, <1>2 DEF ScansTo, Fresh, Clean
<1>4. PICK g : FollowsTo(g, <<>>)
  BY <1>1, ParseSteps
<1>5. Parse(<<>>) = Where(NoKey, FALSE, Nothing)
  BY <1>1, <1>4 DEF FollowsTo
<1>6. Ended(<<>>)
  BY DEF Ended
<1>7. QED
  BY <1>1, <1>3, <1>5, <1>6 DEF Reads

(* A file that Written makes is read block by block.                       *)
LEMMA ReadsWritten ==
    ASSUME NEW config \in Seq(Blocks), NEW gap \in Layouts, Fits(config)
    PROVE  \E n : Reads(Written(config, gap), n,
                        Where(NoKey, FALSE, [k \in Keys |-> Cap(FlattenSeq(PartsOf(config, k)))]))
<1>1. PICK m, s : m = Len(config) /\ s = [i \in DOMAIN config |-> BlockOf(config[i], gap)]
  OBVIOUS
<1>2. DOMAIN config = 1..m /\ m \in Nat /\ \A i \in 1..m : config[i] \in Blocks
  BY <1>1, Elements
<1>3. PICK t \in [0..m -> Nat] : Counts(t, config)
  BY <1>1, TokensCounted
<1>4. t[m] <= MaxTokens /\ MaxTokens \in Nat
  BY <1>1, <1>3, Room DEF Counts
<1>5. PICK P : P = [k \in Keys |-> CHOOSE F \in [0..m -> Seq(Words)] :
                        Runs(PartsOf(config, k), F) /\ FlattenSeq(PartsOf(config, k)) = F[m]]
  OBVIOUS
<1>6. \A k \in Keys : /\ P[k] \in [0..m -> Seq(Words)] /\ Runs(PartsOf(config, k), P[k])
                      /\ FlattenSeq(PartsOf(config, k)) = P[k][m]
  <2> SUFFICES ASSUME NEW k \in Keys
               PROVE  /\ P[k] \in [0..m -> Seq(Words)] /\ Runs(PartsOf(config, k), P[k])
                      /\ FlattenSeq(PartsOf(config, k)) = P[k][m]
    OBVIOUS
  <2>1. \E F \in [0..m -> Seq(Words)] :
           Runs(PartsOf(config, k), F) /\ FlattenSeq(PartsOf(config, k)) = F[m]
    <3>1. PICK x : x = PartsOf(config, k)
      OBVIOUS
    <3>2. x \in Seq(Seq(Words)) /\ Len(x) = m
      BY <1>1, <3>1, PartsTyped
    <3>3. \E F \in [0..Len(x) -> Seq(Words)] : Runs(x, F) /\ FlattenSeq(x) = F[Len(x)]
      BY ONLY <3>2, FlattenSteps
    <3>4. QED
      BY <3>1, <3>2, <3>3
  <2>2. QED
    BY <1>5, <2>1
<1> DEFINE A(i) == [k \in Keys |-> P[k][i]]
<1>7. \A i \in 0..m : A(i) \in [Keys -> Seq(Words)]
  BY <1>6
<1>8. ASSUME NEW i \in 1..m
      PROVE  A(i) = Grown(A(i - 1), config[i].key, config[i].entries)
  <2>1. i - 1 \in 0..m /\ i \in 1..Len(config)
    BY <1>1, <1>2
  <2>2. ASSUME NEW k \in Keys
        PROVE  P[k][i] = IF k = config[i].key THEN P[k][i - 1] \o config[i].entries
                         ELSE P[k][i - 1]
    <3>1. P[k][i - 1] \in Seq(Words)
      BY <1>6, <2>1
    <3>2. P[k][i] = P[k][i - 1] \o PartsOf(config, k)[i]
      <4>1. Len(PartsOf(config, k)) = m
        BY <1>1, PartsTyped
      <4>2. QED
        BY <1>6, <4>1 DEF Runs
    <3>3. PartsOf(config, k)[i] = IF config[i].key = k THEN config[i].entries ELSE <<>>
      BY <1>2 DEF PartsOf
    <3>4. P[k][i - 1] \o <<>> = P[k][i - 1]
      BY <3>1, JoinJoined
    <3>5. QED
      BY <3>2, <3>3, <3>4
  <2>3. QED
    BY <2>2 DEF Grown
<1>9. Capped(A(0)) = Nothing
  <2>1. ASSUME NEW k \in Keys PROVE Cap(A(0)[k]) = <<>>
    <3>1. A(0)[k] = <<>>
      BY <1>6 DEF Runs
    <3>2. Cap(<<>>) = <<>>
      <4>1. Len(<<>>) = 0 /\ (IF 0 < MaxEntries THEN 0 ELSE MaxEntries) = 0
        BY Limit
      <4>2. QED
        BY <4>1 DEF Cap
    <3>3. QED
      BY <3>1, <3>2
  <2>2. QED
    BY <2>1 DEF Capped, Nothing
<1>11. PICK F \in [0..m -> Seq(Symbols)] : Runs(s, F) /\ FlattenSeq(s) = F[m]
  <2>1. s \in Seq(Seq(Symbols))
    BY <1>1, BlocksTyped
  <2>2. Len(s) = m
    BY <1>1, <1>2, <2>1
  <2>3. QED
    BY <2>1, <2>2, FlattenSteps
<1>12. ASSUME NEW i \in 1..m
       PROVE  F[i] = F[i - 1] \o BlockOf(config[i], gap)
  <2>1. DOMAIN s = 1..m /\ s[i] = BlockOf(config[i], gap)
    BY <1>1, <1>2
  <2>2. Len(s) = m
    <3>1. s \in Seq(Seq(Symbols))
      BY <1>1, BlocksTyped
    <3>2. QED
      BY <1>2, <2>1, <3>1
  <2>3. QED
    BY <1>11, <2>1, <2>2 DEF Runs
<1> HIDE DEF A
<1> DEFINE G == {i \in 0..m : t[i] <= MaxTokens =>
                               Reads(F[i], t[i], Where(NoKey, FALSE, Capped(A(i))))}
<1>13. 0 \in G
  <2>1. F[0] = <<>> /\ t[0] = 0
    BY <1>3, <1>11 DEF Runs, Counts
  <2>2. Reads(F[0], t[0], Where(NoKey, FALSE, Capped(A(0))))
    BY <1>9, <2>1, ReadsNothing, Zenon
  <2>3. 0 \in 0..m
    BY <1>2
  <2>4. QED
    BY ONLY <2>2, <2>3, Zenon DEF G
<1>14. ASSUME NEW i \in 1..m, i - 1 \in G
       PROVE  i \in G
  <2>1. i \in 0..m /\ i - 1 \in 0..m /\ i \in 1..Len(config) /\ config[i] \in Blocks
    BY <1>1, <1>2
  <2> SUFFICES ASSUME t[i] <= MaxTokens
               PROVE  Reads(F[i], t[i], Where(NoKey, FALSE, Capped(A(i))))
    BY <2>1, Zenon DEF G
  <2>2. t[i - 1] \in Nat /\ t[i] \in Nat /\ t[i - 1] <= t[i]
    BY <1>1, <1>3, <2>1, CountsUp
  <2>3. PICK f, n, B, b : f = F[i - 1] /\ n = t[i - 1] /\ B = A(i - 1) /\ b = config[i]
    OBVIOUS
  <2>4. t[i] = n + 4 + Len(b.entries)
    BY <1>3, <2>1, <2>3 DEF Counts
  <2>5. Reads(f, n, Where(NoKey, FALSE, Capped(B)))
    <3>1. t[i - 1] <= MaxTokens
      BY <1>4, <2>2
    <3>2. QED
      BY <1>14, <2>3, <3>1
  <2>6. n \in Nat /\ B \in [Keys -> Seq(Words)] /\ b \in Blocks /\ n + 4 + Len(b.entries) <= MaxTokens
    BY <1>7, <2>1, <2>2, <2>3, <2>4
  <2>7. Reads(f \o BlockOf(b, gap), n + 4 + Len(b.entries),
              Where(NoKey, FALSE, Capped(Grown(B, b.key, b.entries))))
    BY ONLY gap \in Layouts, <2>5, <2>6, ReadsBlock, Zenon
  <2>8. F[i] = f \o BlockOf(b, gap) /\ A(i) = Grown(B, b.key, b.entries)
    BY <1>8, <1>12, <2>3
  <2>9. QED
    BY <2>4, <2>7, <2>8
<1>15. m \in G
  <2> HIDE DEF G
  <2>1. \A i \in 0..m : i \in G
    BY <1>2, <1>13, <1>14, Upward
  <2>2. QED
    BY <1>2, <2>1
<1>16. Reads(F[m], t[m], Where(NoKey, FALSE, Capped(A(m))))
  BY <1>4, <1>15
<1>17. Capped(A(m)) = [k \in Keys |-> Cap(FlattenSeq(PartsOf(config, k)))]
  BY <1>6 DEF Capped, A
<1>18. Written(config, gap) = F[m]
  BY <1>1, <1>11, WrittenBlocks
<1>19. QED
  BY <1>16, <1>17, <1>18

(* A list takes the first entries.                                         *)
LEMMA LeastOfTwo ==
    ASSUME NEW a \in Nat, NEW b \in Nat
    PROVE  Min({a, b}) = IF a < b THEN a ELSE b
<1>1. PICK x : x = IF a < b THEN a ELSE b
  OBVIOUS
<1>2. x \in {a, b} /\ \A y \in {a, b} : x <= y
  BY <1>1
<1>3. \A z \in {a, b} : (\A y \in {a, b} : z <= y) => z = x
  BY <1>1
<1>4. Min({a, b}) = x
  BY <1>2, <1>3 DEF Min
<1>5. QED
  BY <1>1, <1>4

(* EntriesOf are the words a list has room for.                            *)
LEMMA EntriesCapped ==
    ASSUME NEW config \in Seq(Blocks), NEW k
    PROVE  Cap(FlattenSeq(PartsOf(config, k)))
           = [i \in DOMAIN EntriesOf(config, k) |-> <<EntriesOf(config, k)[i]>>]
<1>1. PICK all, n, m : /\ all = FlattenSeq(PartsOf(config, k)) /\ n = Len(all)
                       /\ m = IF n < MaxEntries THEN n ELSE MaxEntries
  OBVIOUS
<1>2. all \in Seq(Words) /\ n \in Nat /\ m \in 0..n
  <2>1. all \in Seq(Words)
    BY <1>1, PartsTyped
  <2>2. QED
    BY <1>1, <2>1, Limit
<1>3. EntriesOf(config, k) = SubSeq(all, 1, m)
  <2>1. Min({n, MaxEntries}) = m
    BY <1>1, <1>2, Limit, LeastOfTwo
  <2>2. QED
    BY <1>1, <2>1 DEF EntriesOf, PartsOf
<1>4. PICK e : e = EntriesOf(config, k)
  OBVIOUS
<1>5. DOMAIN e = 1..m /\ \A i \in 1..m : e[i] = all[i]
  BY <1>1, <1>2, <1>3, <1>4
<1>6. Cap(all) = [i \in 1..m |-> <<all[i]>>]
  BY <1>1 DEF Cap
<1>7. Cap(all) = [i \in DOMAIN e |-> <<e[i]>>]
  BY <1>5, <1>6
<1>8. QED
  BY <1>1, <1>4, <1>7

(* What a cmon makes of a file in the layout of README.md.                 *)
LEMMA ParsedAsWritten ==
    ASSUME NEW config \in Seq(Blocks), NEW gap \in Layouts, Fits(config),
           NEW cut, cut = Tokenize(Written(config, gap)),
           NEW parsed, parsed = Parse(cut.tokens)
    PROVE  /\ ~cut.overrun /\ ~parsed.wild
           /\ \A k \in Keys :
                 parsed.lists[k] = [i \in DOMAIN EntriesOf(config, k) |-> <<EntriesOf(config, k)[i]>>]
<1>1. PICK ls : ls = [k \in Keys |-> Cap(FlattenSeq(PartsOf(config, k)))]
  OBVIOUS
<1>2. PICK n : Reads(Written(config, gap), n, Where(NoKey, FALSE, ls))
  BY <1>1, ReadsWritten
<1>3. PICK ts : cut = Clean(ts) /\ Parse(ts) = Where(NoKey, FALSE, ls)
  BY <1>2 DEF Reads
<1>4. cut.tokens = ts /\ ~cut.overrun
  BY <1>3 DEF Clean
<1>5. parsed = Where(NoKey, FALSE, ls)
  BY <1>3, <1>4
<1>6. ~parsed.wild /\ parsed.lists = ls
  BY <1>5 DEF Where
<1>7. QED
  BY <1>1, <1>4, <1>6, EntriesCapped

(* The layouts of the files there may be, ...                              *)
LaidOut == UserGaps \union {DefaultGaps}

(* They are layouts.                                                       *)
LEMMA LayoutsTyped == UserConfigs \union {Default} \subseteq Seq(Blocks) /\ LaidOut \subseteq Layouts
BY ConfigAssumption, DefaultLaidOut DEF LaidOut

(* ... and the lists that a cmon has which has read one of them.           *)
ReadRight(c) ==
    \A config \in UserConfigs \union {Default}, gap \in LaidOut :
        got[c] = Written(config, gap) /\ Fits(config) =>
            /\ pc[c] = "done"
            /\ \A k \in Keys :
                  lists[c][k] = [i \in DOMAIN EntriesOf(config, k) |->
                                    <<EntriesOf(config, k)[i]>>]

(* AsWritten is that, before a step and after it.                          *)
LEMMA AsWrittenIs ==
    /\ AsWritten <=>
          \A c \in Cmons : pc[c] \in {"done", "undefined"} /\ fd[c] # NoFile => ReadRight(c)
    /\ AsWritten' <=>
          \A c \in Cmons : pc'[c] \in {"done", "undefined"} /\ fd'[c] # NoFile => ReadRight(c)'
BY Zenon DEF AsWritten, ReadRight, LaidOut

(* A file in the layout of README.md is read as it is written: each list   *)
(* has, in order, what the file lists for it, as much as it takes, and no  *)
(* more.  (config.c 299-363 over tokenizer.c 196-261.)                     *)
THEOREM FilesAreReadAsWritten == Spec => []AsWritten
<1>1. Init => AsWritten
  BY DEF Init, AsWritten
<1>2. IInv /\ AsWritten /\ [Next]_vars => AsWritten'
  <2> SUFFICES ASSUME IInv, AsWritten, [Next]_vars
               PROVE  AsWritten'
    OBVIOUS
  <2> DEFINE Finished(c) == pc[c] \in {"done", "undefined"} /\ fd[c] # NoFile
  <2>1. ASSUME NEW c \in Cmons, Read(c)
        PROVE  AsWritten'
    <3>1. PICK file, cut, parsed :
             /\ file = (IF made[c] THEN SubSeq(disk[fd[c]], Len(DefaultFile) + 1, Len(disk[fd[c]]))
                        ELSE disk[fd[c]])
             /\ cut = Tokenize(file) /\ parsed = Parse(cut.tokens)
      OBVIOUS
    <3>2. /\ pc' = [pc EXCEPT ![c] = IF cut.overrun \/ parsed.wild THEN "undefined" ELSE "done"]
          /\ got' = [got EXCEPT ![c] = file] /\ lists' = [lists EXCEPT ![c] = parsed.lists]
          /\ UNCHANGED fd
      BY <2>1, <3>1 DEF Read, At
    <3>3. DOMAIN pc = Cmons /\ DOMAIN got = Cmons /\ DOMAIN lists = Cmons
      BY DEF IInv, TypeOK
    <3>4. ASSUME NEW b \in Cmons, Finished(b)',
                 NEW config \in UserConfigs \union {Default}, NEW gap \in LaidOut,
                 got'[b] = Written(config, gap), Fits(config)
          PROVE  /\ pc'[b] = "done"
                 /\ \A k \in Keys :
                       lists'[b][k] = [i \in DOMAIN EntriesOf(config, k) |->
                                          <<EntriesOf(config, k)[i]>>]
      <4>1. CASE b = c
        <5>1. config \in Seq(Blocks) /\ gap \in Layouts
          BY LayoutsTyped
        <5>2. file = Written(config, gap)
          BY <3>2, <3>3, <3>4, <4>1
        <5>3. /\ ~cut.overrun /\ ~parsed.wild
              /\ \A k \in Keys : parsed.lists[k] = [i \in DOMAIN EntriesOf(config, k) |->
                                                       <<EntriesOf(config, k)[i]>>]
          <6>1. Fits(config) /\ cut = Tokenize(Written(config, gap)) /\ parsed = Parse(cut.tokens)
            BY <3>1, <3>4, <5>2
          <6>2. QED
            BY ONLY <5>1, <6>1, ParsedAsWritten
        <5>4. pc'[b] = "done" /\ lists'[b] = parsed.lists
          BY <3>2, <3>3, <4>1, <5>3
        <5>5. QED
          BY <5>3, <5>4
      <4>2. CASE b # c
        <5>1. pc'[b] = pc[b] /\ fd'[b] = fd[b] /\ got'[b] = got[b] /\ lists'[b] = lists[b]
          BY <3>2, <3>3, <4>2
        <5>2. Finished(b) /\ got[b] = Written(config, gap)
          BY <3>4, <5>1
        <5>3. ReadRight(b)
          BY <5>2, AsWrittenIs
        <5>4. QED
          BY <3>4, <5>1, <5>2, <5>3 DEF ReadRight
      <4>3. QED
        BY <4>1, <4>2
    <3>5. QED
      BY <3>4, AsWrittenIs DEF ReadRight
  <2>2. ASSUME UNCHANGED <<got, lists>>,
               \A c \in Cmons : Finished(c)' => Finished(c) /\ pc'[c] = pc[c]
        PROVE  AsWritten'
    BY <2>2, AsWrittenIs DEF ReadRight
  <2>3. ASSUME NEW c \in Cmons,
               Access(c) \/ Denied(c) \/ Create(c) \/ CreateDenied(c) \/ Write(c) \/ Open(c) \/ Kill(c)
        PROVE  AsWritten'
    <3>1. /\ UNCHANGED <<got, lists>> /\ DOMAIN pc = Cmons /\ DOMAIN fd = Cmons
          /\ \A b \in Cmons : b # c => pc'[b] = pc[b] /\ fd'[b] = fd[b]
      BY <2>3 DEF Access, Denied, Create, CreateDenied, Write, Open, Kill, At, IInv, TypeOK
    <3>2. ~(Finished(c)')
      BY <2>3, <3>1 DEF Access, Denied, Create, CreateDenied, Write, Open, Kill, At, IInv, Opened
    <3>3. QED
      BY <2>2, <3>1, <3>2
  <2>4. CASE UNCHANGED <<pc, fd, got, lists>>
    BY <2>2, <2>4
  <2>5. QED
    BY <2>1, <2>3, <2>4 DEF Next, Cmon, Save, Unlink, vars
<1>3. QED
  BY <1>1, <1>2, Invariance, PTL DEF Spec

=============================================================================
