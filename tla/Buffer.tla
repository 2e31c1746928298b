------------------------------- MODULE Buffer -------------------------------
(***************************************************************************)
(* One CmonBuffer under any sequence of the calls of c_utils_buffer.h: its *)
(* cells are all the memory it has, the first len of them its text.  avl   *)
(* is written by some of the calls and read by none; it is left out.       *)
(***************************************************************************)
EXTENDS Sequences, Naturals

CONSTANTS
    Byte,     \* the values a caller may write
    Nul,      \* one of them: '\0'
    Unset,    \* a cell that was never written
    Sources,  \* the strings handed to the calls
    Extra,    \* C_U_BUFFER_INITIAL_EXTRA_SPACE: 20
    MaxLen    \* bound on the text

ASSUME BufferAssumption ==
    /\ Nul \in Byte /\ Unset \notin Byte
    /\ Sources \subseteq Seq(Byte)
    /\ Extra \in Nat /\ MaxLen \in Nat

Cell == Byte \union {Unset}

VARIABLES
    pc,    \* "ok", or "undefined": memory was freed twice
    buf,   \* the cells
    cap,
    len

vars == <<pc, buf, cap, len>>

Text == SubSeq(buf, 1, len)

Cells(n, v) == [i \in 1..n |-> v]

(* c_u_buffer_empty().                                                     *)
Empty(n) == pc = "ok" /\ buf = Cells(n, Unset) /\ cap = n /\ len = 0

(* strncpy(): what comes after a '\0' is not copied, but filled with '\0'. *)
UpToNul(s) ==
    [i \in DOMAIN s |-> IF \E j \in 1..i : s[j] = Nul THEN Nul ELSE s[i]]

(* c_u_buffer_new().                                                       *)
New(s) ==
    /\ pc = "ok"
    /\ buf = UpToNul(s) \o Cells(Extra, Unset)
    /\ cap = Len(s) + Extra
    /\ len = Len(s)

Init == (\E n \in 0..MaxLen : Empty(n)) \/ (\E s \in Sources : New(s))

Spliced(s, i) == SubSeq(buf, 1, i) \o s \o SubSeq(buf, i + 1, len)

\* Mutant of InsertAt: the first byte after the place is not moved.
InsertAtShort(s, i) ==
    /\ pc = "ok" /\ i <= len
    /\ len' = len + Len(s)
    /\ IF len + Len(s) > cap
       THEN /\ cap' = len + Len(s) + Extra
            /\ buf' = Spliced(s, i) \o Cells(Extra, Unset)
       ELSE /\ buf' = [j \in 1..cap |->
                          CASE j \in (i + 1)..(i + Len(s)) -> s[j - i]
                            [] j \in (i + Len(s) + 2)..(len + Len(s)) -> buf[j - Len(s)]
                            [] OTHER -> buf[j]]
            /\ UNCHANGED cap
    /\ UNCHANGED pc

(* c_u_buffer_insert_at(), and c_u_buffer_append() with i = len: into new  *)
(* memory when the text outgrows the old one, else in place, where the     *)
(* bytes after i are moved from the last to the first.                     *)
InsertAt(s, i) ==
    /\ pc = "ok" /\ i <= len
    /\ len' = len + Len(s)
    /\ IF len + Len(s) > cap
       THEN /\ cap' = len + Len(s) + Extra
            /\ buf' = Spliced(s, i) \o Cells(Extra, Unset)
       ELSE /\ buf' = [j \in 1..cap |->
                          CASE j \in (i + 1)..(i + Len(s)) -> s[j - i]
                            [] j \in (i + Len(s) + 1)..(len + Len(s)) -> buf[j - Len(s)]
                            [] OTHER -> buf[j]]
            /\ UNCHANGED cap
    /\ UNCHANGED pc

\* Mutant of ShiftFrom: the second part is copied to where it was.
ShiftFromStill(i, n) ==
    /\ pc = "ok" /\ i < len
    /\ len' = len + n
    /\ IF cap - len < n
       THEN /\ cap' = len + n + Extra
            /\ buf' = SubSeq(buf, 1, len) \o Cells(n + Extra, Nul)
       ELSE /\ buf' = [j \in 1..cap |->
                          IF j \in (i + n + 1)..(len + n) THEN buf[j - n] ELSE buf[j]]
            /\ UNCHANGED cap
    /\ UNCHANGED pc

(* c_u_buffer_shift_from(): room for n bytes.  In new memory it is filled  *)
(* with '\0'; in place it keeps what was there, be it never written.       *)
ShiftFrom(i, n) ==
    /\ pc = "ok" /\ i < len
    /\ len' = len + n
    /\ IF cap - len < n
       THEN /\ cap' = len + n + Extra
            /\ buf' = Spliced(Cells(n, Nul), i) \o Cells(Extra, Nul)
       ELSE /\ buf' = [j \in 1..cap |->
                          IF j \in (i + n + 1)..(len + n) THEN buf[j - n] ELSE buf[j]]
            /\ UNCHANGED cap
    /\ UNCHANGED pc

\* Mutant of SetLen: the capacity is not looked at.
SetLenAny(n) ==
    /\ pc = "ok"
    /\ len' = n
    /\ UNCHANGED <<pc, buf, cap>>

(* c_u_buffer_set_len().                                                   *)
SetLen(n) ==
    /\ pc = "ok" /\ n <= cap
    /\ len' = n
    /\ UNCHANGED <<pc, buf, cap>>

(* c_u_buffer_set_capacity(): it frees the block that realloc() has freed  *)
(* already, or that it has just grown in place.                            *)
SetCapacity(n) ==
    /\ pc = "ok" /\ n > cap
    /\ pc' = "undefined"
    /\ UNCHANGED <<buf, cap, len>>

(* c_http_c_buf_recv_header() fills an empty buffer with a header: recv()  *)
(* writes into its memory, and the length is set after it.                 *)
Receive(s) ==
    /\ pc = "ok" /\ len = 0 /\ cap # 0 /\ Len(s) <= cap
    /\ buf' = s \o SubSeq(buf, Len(s) + 1, cap)
    /\ len' = Len(s)
    /\ UNCHANGED <<pc, cap>>

(* The lengths a caller may ask for.                                       *)
Lengths == 0..(MaxLen + 1)

Next ==
    \/ \E s \in Sources, i \in Lengths : len + Len(s) <= MaxLen /\ InsertAt(s, i)
    \/ \E i, n \in Lengths : len + n <= MaxLen /\ ShiftFrom(i, n)
    \/ \E n \in Lengths : SetLen(n)
    \/ \E n \in Lengths : SetCapacity(n)
    \/ \E s \in Sources : Receive(s)

Spec == Init /\ [][Next]_vars

-----------------------------------------------------------------------------
(* The buffer knows how much memory it has, and its text lies in it, after *)
(* every sequence of calls.  It is a claim about lengths and capacities: a *)
(* byte that is written outside while a call runs has no place in buf.     *)
(* (The two branches of c_utils_buffer.c 182-221 and 263-307 and the       *)
(* capacities they compute, and set_len at 343.)                           *)
IInv ==
    /\ pc \in {"ok", "undefined"}
    /\ buf \in Seq(Cell)
    /\ cap \in Nat /\ len \in Nat
    /\ Len(buf) = cap /\ len <= cap

(* An insertion puts its string in at its place and keeps every other byte *)
(* in order, whether or not the memory is replaced.  The comment at        *)
(* c_utils_buffer.c 229-231 says otherwise, that an insertion beyond the   *)
(* capacity gives 1 and that the caller must grow the buffer and retry:    *)
(* lines 263-292 grow it, insert, and give 0.  A caller that retried would *)
(* insert twice.  (c_utils_buffer.c 239-309: two ways to the same text.)   *)
InsertInserts ==
    [][\A s \in Sources, i \in Lengths :
          InsertAt(s, i) =>
            Text' = SubSeq(Text, 1, i) \o s \o SubSeq(Text, i + 1, Len(Text))]_vars

(* A shift keeps the bytes before its place where they were, and the       *)
(* others n places further.  A place at the end of the text is refused.    *)
(* (c_utils_buffer.c 164-223.)                                             *)
ShiftShifts ==
    [][\A i, n \in Lengths :
          ShiftFrom(i, n) =>
            /\ SubSeq(Text', 1, i) = SubSeq(Text, 1, i)
            /\ SubSeq(Text', i + n + 1, Len(Text')) = SubSeq(Text, i + 1, Len(Text))]_vars

=============================================================================
