----------------------------- MODULE MCHttpRelay -----------------------------
(***************************************************************************)
(* Small instances of HttpRelay.  What is declared of a body is read from  *)
(* its header, whose names and numbers are short here.                     *)
(***************************************************************************)
EXTENDS HttpRelay

(* Bodies of no, one and several chunks.                                   *)
Bodies  == [req |-> <<0, 3>>, res |-> <<4, 1>>]
Longer  == [req |-> <<0, 3, 5>>, res |-> <<6, 0, 1>>]

NoTag   == [req |-> <<0, 0>>, res |-> <<0, 0>>]
NoTags  == [req |-> <<0, 0, 0>>, res |-> <<0, 0, 0>>]
PageTag == [req |-> <<0, 0>>, res |-> <<2, 0>>]

Numerals == <<"0", "1", "2", "3", "4", "5", "6">>
Decimal  == [c \in Range(Numerals) |-> CHOOSE n \in 0..6 : Numerals[n + 1] = c]

Length == <<"l", "n">>

HeaderOf(n) == <<"G">> \o Crlf \o Length \o <<":", Numerals[n + 1]>> \o Crlf \o Crlf

DeclaredIn(bodies) ==
    [d \in Directions |-> [k \in 1..Messages |->
        ContentLength(HeaderOf(bodies[d][k]), Length)]]

DeclaredBodies == DeclaredIn(Bodies)
DeclaredLonger == DeclaredIn(Longer)

(* Headers with one field and a line before or after it: every value of up *)
(* to four characters, in the field itself, in one with a longer name, and *)
(* in one that comes after another with the name in its value.             *)
Lines  == {<<>>, <<"G">> \o Crlf, <<"x", "l", "n", ":">> \o Crlf, <<"x", ":", "l", "n">> \o Crlf}
Values == SeqOf({" ", "0", "2", "x"}, 4)

AllTexts ==
    {before \o name \o <<":">> \o v \o Crlf \o after \o Crlf :
        before \in Lines, name \in {Length, <<"x">>}, v \in Values, after \in Lines}

AllNames == {Length, <<"x">>, <<"a", "b", "c", "d", "e", "f", "g", "h">>}

=============================================================================
