------------------------------ MODULE PathText ------------------------------
(***************************************************************************)
(* The strings of cmon, as far as the walk and the configuration make them *)
(* into paths and compare these.  A text is a sequence of characters; a    *)
(* CmonString has a text and the size that was counted for it, which is    *)
(* the room of its block as well.                                          *)
(***************************************************************************)
EXTENDS Sequences, Functions, Naturals

CONSTANTS
    MaxChars,   \* the longest text that is counted: 257
    Cwds,       \* the working directories
    EntryNames, \* the names of directories
    Chains,     \* those on the way to a directory, from the cwd
    Values      \* the entries of ignoreDirs, relative to the cwd

(* Names are at most 255 characters long, values at most MAX_LEXEM_LEN.    *)
ASSUME TextAssumption ==
    /\ MaxChars \in Nat
    /\ \A t \in Cwds \union EntryNames \union Values : t \in Seq(Range(t))
    /\ \A t \in EntryNames \union Values : Len(t) <= MaxChars
    /\ Chains \subseteq Seq(EntryNames)

Slash == <<"/">>
Dot   == <<".">>

\* Mutant of CharArrLen: it gives up one character too early.
CharArrLenShort(t) == IF Len(t) >= MaxChars THEN 0 ELSE Len(t)

(* _char_arr_len(): a longer text has no characters.                       *)
CharArrLen(t) == IF Len(t) > MaxChars THEN 0 ELSE Len(t)

(* cmon_str_new_from_char_arrs(): the block is as large as the counts say, *)
(* the texts are copied whole.  (Its callers give it one or two.)          *)
StrNew(first, second) ==
    [text |-> first \o second, size |-> CharArrLen(first) + CharArrLen(second)]

(* No more was written to the block than it has room for.                  *)
Sound(s) == Len(s.text) <= s.size

(* cmon_str_cmp().                                                         *)
StrCmp(a, b) == a.size = b.size /\ SubSeq(a.text, 1, a.size) = SubSeq(b.text, 1, a.size)

(* _get_cwd(), and the copy that main() hands to the walk.                 *)
Cwd(c)  == StrNew(c, Slash)
Copy(s) == StrNew(s.text, <<>>)

(* An entry of ignoreDirs, as config_parser() makes it.                    *)
IgnoreEntry(c, v) == StrNew(Cwd(c).text, v)

(* One entry in ino_recursive_dir_add(), and the path it is entered with.  *)
EntryPath(path, name) == StrNew(path.text, name)
NewPath(path, name)   == StrNew(EntryPath(path, name).text, Slash)

(* The paths of the calls on the way that a chain of names leads.          *)
WalkTo(c, chain) ==
    LET path[n \in 0..Len(chain)] ==
            IF n = 0 THEN Copy(Cwd(c)) ELSE NewPath(path[n - 1], chain[n])
    IN path

(* What they make on this way; each makes the strings of "." too.          *)
WaySound(c, chain) ==
    LET path == WalkTo(c, chain)
        EntrySound(n, name) == Sound(EntryPath(path[n], name)) /\ Sound(NewPath(path[n], name))
    IN /\ Sound(Cwd(c)) /\ Sound(path[0])
       /\ \A n \in 0..Len(chain) : EntrySound(n, Dot)
       /\ \A n \in 1..Len(chain) : EntrySound(n - 1, chain[n])

-----------------------------------------------------------------------------
(* The path that a chain of names spells, and whether there is room below  *)
(* it for a name of one character.                                         *)
Joined(chain) ==
    LET joined[n \in 0..Len(chain)] ==
            CASE n = 0 -> <<>>
              [] n = 1 -> chain[1]
              [] OTHER -> joined[n - 1] \o Slash \o chain[n]
    IN joined[Len(chain)]

RoomBelow(c, chain) == Len(c) + 1 + Len(Joined(chain)) + 1 < MaxChars

(* A name below the chain is found in ignoreDirs exactly if it is there.   *)
Compares(c, chain, name, v) ==
    LET entry == EntryPath(WalkTo(c, chain)[Len(chain)], name)
    IN /\ WaySound(c, chain) /\ Sound(entry) /\ Sound(IgnoreEntry(c, v))
       /\ StrCmp(entry, IgnoreEntry(c, v)) <=> v = Joined(Append(chain, name))

=============================================================================
