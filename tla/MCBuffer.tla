----------------------------- MODULE MCBuffer -----------------------------
(* Strings of no, one and three bytes, with a '\0' in one of them.         *)
EXTENDS Buffer

CONSTANTS a, b, z

Strings == {<<>>, <<a>>, <<z, b>>, <<a, b, b>>}

=============================================================================
