------------------------------- MODULE Config -------------------------------
(***************************************************************************)
(* How cmon comes to its configuration: config_init() looks for the file   *)
(* .config.cmon, opens it or makes it with the default content, cuts it    *)
(* into tokens and parses these into three lists.  Several cmon processes  *)
(* may start in one directory, each may be killed, and the user may save   *)
(* or remove the file at any time.                                         *)
(*                                                                         *)
(* A file is a sequence of pieces: a word is a run of the characters that  *)
(* the tokenizer puts into a lexeme, "quote" is either quotation mark, and *)
(* "," is every character it passes over (a line feed, a hyphen, ...).     *)
(***************************************************************************)
EXTENDS SequencesExt, FiniteSets, Naturals

CONSTANTS
    Cmons,       \* the processes that start in this directory
    Words,       \* the words of files
    Numerals,    \* those of them without a letter
    Keys,        \* WATCH_FILE_EXT_NAMES, IGNORE_FILES, IGNORE_DIRS
    NoKey,       \* config_target == NULL
    Default,     \* the configuration DEFAULT_CONFIG spells
    UserConfigs, \* those the user may have written ...
    UserGaps,    \* ... in these layouts
    OddFiles,    \* files in another form
    Saved,       \* those the user may save while cmon starts
    MaxTokens,   \* tokens in the token array: 100
    MaxEntries,  \* INITIAL_ARRAY_SIZE, entries of one list: 50
    MaxLexeme,   \* words joined to one lexeme that overrun MAX_LEXEM_LEN; one does not
    MaxFiles,    \* bound on the files made under this name
    Faults       \* "permission": the directory may not be written or read

(* The pieces of a file.                                                   *)
Symbols == Words \union {"{", "}", "quote", " ", ":", ","}

(* A configuration is what README.md writes: a sequence of blocks.         *)
Blocks == [key : Words, entries : Seq(Words)]

(* A layout: what is left after a key with its colon, a bracket, an entry. *)
Spaces  == {" ", ","}
Layouts == [key : Seq(Spaces), open : Seq(Spaces), entry : Seq(Spaces), close : Seq(Spaces)]

ASSUME ConfigAssumption ==
    /\ Keys \subseteq Words \ Numerals /\ Numerals \subseteq Words
    /\ NoKey \notin Words
    /\ Words \intersect {"{", "}", "quote", " ", ":", ","} = {}
    /\ UserConfigs \union {Default} \subseteq Seq(Blocks)
    /\ UserGaps \subseteq Layouts
    /\ OddFiles \union Saved \subseteq Seq(Symbols)
    /\ MaxTokens \in Nat /\ MaxEntries \in Nat /\ MaxFiles \in Nat \ {0}
    /\ MaxLexeme \in Nat \ {0, 1}

-----------------------------------------------------------------------------
(* config_tokenizer(): tokens so far, the lexeme being collected, are we   *)
(* between quotation marks, has the lexeme run over its array?             *)
Token(type, value) == [type |-> type, value |-> value]

(* The array takes no more than its hundred tokens.                        *)
Put(s, t) ==
    IF Len(s.tokens) >= MaxTokens THEN s ELSE [s EXCEPT !.tokens = Append(@, t)]

Collect(s, word) ==
    [s EXCEPT !.lexem = Append(@, word), !.overrun = @ \/ Len(s.lexem) + 1 >= MaxLexeme]

(* A space or a colon ends a lexeme.                                       *)
Flush(s, type) ==
    IF s.lexem = <<>> THEN s
    ELSE [Put(s, Token(type, s.lexem)) EXCEPT !.lexem = <<>>]

\* Mutant of Quote: the lexeme is not emptied.
QuoteKept(s) ==
    [(IF s.quoted THEN Put(s, Token("STRING", s.lexem)) ELSE s) EXCEPT !.quoted = ~@]

(* A second quotation mark ends it as well, even an empty one: its token   *)
(* has no value.                                                           *)
Quote(s) ==
    [(IF s.quoted THEN [Put(s, Token("STRING", s.lexem)) EXCEPT !.lexem = <<>>] ELSE s)
        EXCEPT !.quoted = ~@]

TextType(lexem) == IF Range(lexem) \subseteq Numerals THEN "NUMBER" ELSE "TEXT"

(* One character: one turn of the loop.                                    *)
Scan(s, c) ==
    CASE c \in Words      -> Collect(s, c)
      [] c \in {"{", "}"} -> Put(s, Token(c, <<>>))
      [] c = "quote"      -> Quote(s)
      [] c = " "          -> Flush(s, TextType(s.lexem))
      [] c = ":"          -> Put(Flush(s, TextType(s.lexem)), Token(":", <<>>))
      [] OTHER            -> s

Tokenize(file) ==
    LET after[n \in 0..Len(file)] ==
            IF n = 0 THEN [tokens |-> <<>>, lexem |-> <<>>, quoted |-> FALSE, overrun |-> FALSE]
            ELSE Scan(after[n - 1], file[n])
    IN after[Len(file)]

(* config_parser(): the list the strings go to, are we in a block, the     *)
(* lists; and has it followed NULL, because a text is the last token, or   *)
(* a value that was never set?                                             *)
Nothing == [k \in Keys |-> <<>>]

\* Mutant of AddTo: a list takes one entry too many.
AddToOver(lists, k, value) ==
    IF Len(lists[k]) > MaxEntries THEN lists
    ELSE [lists EXCEPT ![k] = Append(@, value)]

(* A full list takes no more.                                              *)
AddTo(lists, k, value) ==
    IF Len(lists[k]) >= MaxEntries THEN lists
    ELSE [lists EXCEPT ![k] = Append(@, value)]

\* Mutant of Close: the list stays the target.
CloseOpen(s) == [s EXCEPT !.block = FALSE]

Close(s) == [s EXCEPT !.block = FALSE, !.target = NoKey]

(* A text that a colon follows may name a list, ...                        *)
Text(tokens, s, i) ==
    IF i = Len(tokens) THEN [s EXCEPT !.wild = TRUE]
    ELSE IF tokens[i + 1].type = ":" /\ tokens[i].value \in {<<k>> : k \in Keys}
    THEN [s EXCEPT !.target = Head(tokens[i].value)]
    ELSE s

(* ... and a string in a block goes to the list that was named last.       *)
String(s, value) ==
    IF value = <<>> THEN [s EXCEPT !.wild = TRUE]
    ELSE IF s.block /\ s.target # NoKey
    THEN [s EXCEPT !.lists = AddTo(@, s.target, value)]
    ELSE s

Follow(tokens, s, i) ==
    CASE tokens[i].type = "TEXT"   -> Text(tokens, s, i)
      [] tokens[i].type = "STRING" -> String(s, tokens[i].value)
      [] tokens[i].type = "{"      -> [s EXCEPT !.block = TRUE]
      [] tokens[i].type = "}"      -> Close(s)
      [] OTHER                     -> s

Parse(tokens) ==
    LET after[n \in 0..Len(tokens)] ==
            IF n = 0 THEN [target |-> NoKey, block |-> FALSE, lists |-> Nothing, wild |-> FALSE]
            ELSE Follow(tokens, after[n - 1], n)
    IN after[Len(tokens)]

-----------------------------------------------------------------------------
(* A configuration in the form of README.md, in this layout.               *)
Written(config, gap) ==
    LET Entry(w) == <<"quote", w, "quote">> \o gap.entry
        Block(b) == <<b.key, ":">> \o gap.key \o <<"{">> \o gap.open
                      \o FlattenSeq([i \in DOMAIN b.entries |-> Entry(b.entries[i])])
                      \o <<"}">> \o gap.close
    IN FlattenSeq([i \in DOMAIN config |-> Block(config[i])])

(* DEFAULT_CONFIG: "KEY: {", and each entry on a line, after two spaces.   *)
DefaultGaps ==
    [key |-> <<" ">>, open |-> <<",", " ">>, entry |-> <<",", " ">>, close |-> <<",">>]

DefaultFile == Written(Default, DefaultGaps)

UserFiles == {Written(c, g) : c \in UserConfigs, g \in UserGaps} \union OddFiles

NoFile == 0

VARIABLES
    disk,   \* the contents of the files there have been
    name,   \* the one that is .config.cmon, or NoFile
    pc,     \* [cmon -> where it is in config_init()]
    fd,     \* [cmon -> the file it has open]
    made,   \* [cmon -> has it made that file?]
    lists,  \* [cmon -> the lists of its CmonConfig]
    got     \* [cmon -> the pieces it has read]

vars == <<disk, name, pc, fd, made, lists, got>>

Init ==
    /\ \/ disk = <<>> /\ name = NoFile
       \/ \E f \in UserFiles : disk = <<f>> /\ name = 1
    /\ pc = [c \in Cmons |-> "access"]
    /\ fd = [c \in Cmons |-> NoFile]
    /\ made = [c \in Cmons |-> FALSE]
    /\ lists = [c \in Cmons |-> Nothing]
    /\ got = [c \in Cmons |-> <<>>]

At(c, from, to) == pc[c] = from /\ pc' = [pc EXCEPT ![c] = to]

(* access(path, R_OK).                                                     *)
Access(c) ==
    /\ At(c, "access", IF name = NoFile THEN "create" ELSE "open")
    /\ UNCHANGED <<disk, name, fd, made, lists, got>>

(* access() or fopen() fails for another reason: exit(1).                  *)
Denied(c) ==
    /\ "permission" \in Faults
    /\ At(c, "access", "exited") \/ At(c, "open", "exited")
    /\ UNCHANGED <<disk, name, fd, made, lists, got>>

(* fopen(path, "w+") fails: NULL is handed to fprintf().                   *)
CreateDenied(c) ==
    /\ "permission" \in Faults
    /\ At(c, "create", "undefined")
    /\ UNCHANGED <<disk, name, fd, made, lists, got>>

(* fopen(path, "w+") makes the file, or empties the one that has come.     *)
Create(c) ==
    /\ At(c, "create", "write")
    /\ IF name = NoFile
       THEN /\ Len(disk) < MaxFiles
            /\ disk' = Append(disk, <<>>)
            /\ name' = Len(disk) + 1
       ELSE /\ disk' = [disk EXCEPT ![name] = <<>>]
            /\ UNCHANGED name
    /\ fd' = [fd EXCEPT ![c] = name']
    /\ made' = [made EXCEPT ![c] = TRUE]
    /\ UNCHANGED <<lists, got>>

\* Mutant of Write: the default content is not flushed.
WriteUnflushed(c) ==
    /\ At(c, "write", "read")
    /\ UNCHANGED <<disk, name, fd, made, lists, got>>

(* fprintf() and fflush(), at the start of the file.                       *)
Write(c) ==
    /\ At(c, "write", "read")
    /\ disk' = [disk EXCEPT ![fd[c]] = DefaultFile]
    /\ UNCHANGED <<name, fd, made, lists, got>>

\* Mutant of Open: it is opened with "w+".
OpenEmpties(c) ==
    /\ IF name = NoFile THEN At(c, "open", "exited") ELSE At(c, "open", "read")
    /\ fd' = [fd EXCEPT ![c] = name]
    /\ disk' = [i \in DOMAIN disk |-> IF i = name THEN <<>> ELSE disk[i]]
    /\ UNCHANGED <<name, made, lists, got>>

(* fopen(path, "r"); the file may be gone.                                 *)
Open(c) ==
    /\ IF name = NoFile THEN At(c, "open", "exited") ELSE At(c, "open", "read")
    /\ fd' = [fd EXCEPT ![c] = name]
    /\ UNCHANGED <<disk, name, made, lists, got>>

(* The rest of config_init(): read, tokenize, parse, free the tokens.  A   *)
(* file that was just written is read on from its end.                     *)
Read(c) ==
    LET file  == IF made[c] THEN SubSeq(disk[fd[c]], Len(DefaultFile) + 1, Len(disk[fd[c]]))
                 ELSE disk[fd[c]]
        cut    == Tokenize(file)
        parsed == Parse(cut.tokens)
    IN /\ At(c, "read", IF cut.overrun \/ parsed.wild THEN "undefined" ELSE "done")
       /\ got' = [got EXCEPT ![c] = file]
       /\ lists' = [lists EXCEPT ![c] = parsed.lists]
       /\ UNCHANGED <<disk, name, fd, made>>

(* Ctrl-C.                                                                 *)
Kill(c) ==
    /\ pc[c] \in {"access", "create", "write", "open", "read"}
    /\ pc' = [pc EXCEPT ![c] = "killed"]
    /\ UNCHANGED <<disk, name, fd, made, lists, got>>

(* The user saves the file, under a new one's name as editors do, ...      *)
Save(f) ==
    /\ Len(disk) < MaxFiles
    /\ disk' = Append(disk, f)
    /\ name' = Len(disk) + 1
    /\ UNCHANGED <<pc, fd, made, lists, got>>

(* ... or removes it.                                                      *)
Unlink ==
    /\ name # NoFile
    /\ name' = NoFile
    /\ UNCHANGED <<disk, pc, fd, made, lists, got>>

Cmon(c) ==
    \/ Access(c) \/ Denied(c)
    \/ Create(c) \/ CreateDenied(c) \/ Write(c)
    \/ Open(c) \/ Read(c)

Next ==
    \/ \E c \in Cmons : Cmon(c) \/ Kill(c)
    \/ \E f \in Saved : Save(f)
    \/ Unlink

Spec == Init /\ [][Next]_vars
-----------------------------------------------------------------------------
TypeOK ==
    /\ disk \in Seq(Seq(Symbols)) /\ Len(disk) <= MaxFiles
    /\ name \in 0..Len(disk)
    /\ pc \in [Cmons -> {"access", "create", "write", "open", "read", "done",
                         "exited", "killed", "undefined"}]
    /\ fd \in [Cmons -> 0..Len(disk)]
    /\ made \in [Cmons -> BOOLEAN]
    /\ DOMAIN lists = Cmons
    /\ \A c \in Cmons : lists[c] \in [Keys -> Seq(Seq(Words))]
                         /\ \A k \in Keys : Len(lists[c][k]) <= MaxEntries
    /\ got \in [Cmons -> Seq(Symbols)]

(* What a configuration means: the entries of the blocks of a key, in      *)
(* order, as many as a list takes; blocks of other words mean nothing.     *)
EntriesOf(config, k) ==
    LET all == FlattenSeq([i \in DOMAIN config |->
                   IF config[i].key = k THEN config[i].entries ELSE <<>>])
    IN SubSeq(all, 1, Min({Len(all), MaxEntries}))

(* The tokens of a block are its key, a colon, two brackets, its entries.  *)
Fits(config) ==
    LET tokens[n \in 0..Len(config)] ==
            IF n = 0 THEN 0 ELSE tokens[n - 1] + 4 + Len(config[n].entries)
    IN tokens[Len(config)] <= MaxTokens

(* A file in the layout of README.md is never misread, whatever is between *)
(* its symbols: each list has what the file lists for it, in order, and no *)
(* more.  (config.c 299-363 over tokenizer.c 196-261.)                     *)
AsWritten ==
    \A c \in {c \in Cmons : pc[c] \in {"done", "undefined"} /\ fd[c] # NoFile} :
        \A config \in UserConfigs \union {Default}, gap \in UserGaps \union {DefaultGaps} :
            got[c] = Written(config, gap) /\ Fits(config) =>
                /\ pc[c] = "done"
                /\ \A k \in Keys :
                      lists[c][k] = [i \in DOMAIN EntriesOf(config, k) |->
                                        <<EntriesOf(config, k)[i]>>]

(* Where a word is in a sequence of words, in a sequence of those, and in  *)
(* the lists of a configuration.                                           *)
Places(s, w) == {i \in DOMAIN s : s[i] = w}
Within(ss, w) == UNION {{i} \X Places(ss[i], w) : i \in DOMAIN ss}
Listed(ls, w) == UNION {{k} \X Within(ls[k], w) : k \in Keys}

(* In any file: what is written once is listed at most once, in one list.  *)
(* (The lexeme is static and joins what no symbol divides; the lists share *)
(* their target pointer: tokenizer.c 201-254, config.c 346-355.)           *)
ListedOnce ==
    \A c \in Cmons, w \in Words :
        Cardinality(Listed(lists[c], w)) <= Cardinality(Places(got[c], w))

(* .config.cmon is empty only between its making and its writing: no cmon  *)
(* that starts meanwhile finds it so for longer, unless the one that made  *)
(* it was killed there.  (The fflush() of config.c 158.)                   *)
EmptyIsTransient ==
    name # NoFile /\ disk[name] = <<>> /\ <<>> \notin UserFiles \union Saved =>
        \E c \in Cmons : made[c] /\ fd[c] = name /\ pc[c] \in {"write", "killed"}

(* A cmon runs without its lists only if it, or another one that started   *)
(* with it, made the file: a file that stays as it is is never read empty. *)
(* (config.c 147-171: access() and fopen() are two steps.)                 *)
EmptyIsNew ==
    \A c \in Cmons :
        pc[c] = "done" /\ got[c] = <<>> /\ <<>> \notin UserFiles \union Saved =>
            \E b \in Cmons : made[b] /\ fd[b] = fd[c]

(* What the last two rest on: who has a file open, and who has made the    *)
(* one that is empty, though it may have another name or none by now.      *)
Opened ==
    \A c \in Cmons :
        /\ pc[c] \in {"access", "create", "open"} => fd[c] = NoFile
        /\ pc[c] \in {"write", "read"} => fd[c] # NoFile
        /\ pc[c] = "write" => made[c]
        /\ made[c] => fd[c] # NoFile /\ pc[c] \notin {"access", "create", "open"}

EmptyWasMade ==
    \A i \in DOMAIN disk :
        disk[i] = <<>> /\ <<>> \notin UserFiles \union Saved =>
            \E b \in Cmons : /\ made[b] /\ fd[b] = i
                             /\ DefaultFile # <<>> => pc[b] \in {"write", "killed"}

IInv == TypeOK /\ Opened /\ EmptyWasMade /\ EmptyIsNew

=============================================================================
