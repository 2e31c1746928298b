----------------------------- MODULE MCConfig -----------------------------
(***************************************************************************)
(* Every configuration of one or two blocks with at most two entries, one  *)
(* key that cmon does not know among them, and some of three blocks, in    *)
(* three layouts; files that are not in that form; two processes.          *)
(***************************************************************************)
EXTENDS Config

CONSTANTS c1, c2

Both == Permutations({c1, c2})

Ext == "WATCH_FILE_EXT_NAMES"
Dir == "IGNORE_DIRS"
Fil == "IGNORE_FILES"

MCKeys  == {Ext, Dir, Fil}
MCWords == MCKeys \union {"FOO", "html", "git", "7"}

BlocksOf(keys, words) ==
    [key : keys, entries : UNION {[1..n -> words] : n \in 0..2}]

MCConfigs ==
    {<<b>> : b \in BlocksOf({Ext, "FOO"}, {"html", "7"})}
      \union {<<b, d>> : b, d \in BlocksOf({Ext, "FOO"}, {"html"})}
      \union {<<b, b, [key |-> Dir, entries |-> <<"git", "html">>]>> :
                 b \in BlocksOf({Ext, Fil}, {"html"})}

MCDefault ==
    << [key |-> Ext, entries |-> <<"html">>],
       [key |-> Fil, entries |-> <<"git">>],
       [key |-> Dir, entries |-> <<"git">>] >>

Gap(a, b, c, d) == [key |-> a, open |-> b, entry |-> c, close |-> d]

Gaps == {Gap(<<>>, <<>>, <<>>, <<>>), Gap(<<>>, <<",", " ">>, <<" ">>, <<" ">>),
         Gap(<<",", " ">>, <<" ">>, <<>>, <<",">>)}

Q == "quote"

(* No colon; a hyphen or a space in a name; no closing bracket; an empty   *)
(* string; a text at the end; a word that is too long; a key in a block.   *)
MCOddFiles ==
    { <<Ext, " ", "{", Q, "html", Q, "}">>,
      <<Dir, ":", "{", Q, "git", ",", "html", Q, Q, "7", Q, "}">>,
      <<Dir, ":", "{", Q, "git", " ", "html", Q, "}">>,
      <<Dir, ":", "{", Q, "git", Q, Fil, ":", "{", Q, "html", Q, "}", Q, "7", Q>>,
      <<Dir, ":", "{", Q, Q, Q, "git", Q, "}">>,
      <<Dir, ":", "{", Q, "git", Q, "}", "html", " ">>,
      <<Dir, ":", "{", Q, "git", "html", "git", Q, "}">>,
      <<Dir, ":", "{", "git", Q, "html", Q, Fil, ":", Q, "7", Q, "}">> }

MCSaved == {<<Ext, ":", "{", Q, "7", Q, "}">>}

=============================================================================
