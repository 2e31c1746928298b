---------------------------- MODULE EventFilter ----------------------------
(***************************************************************************)
(* Which file events make cmon restart its command: the two list searches  *)
(* of ino_procees_events and the path value they search for.               *)
(*                                                                         *)
(* A character string is the sequence of its dot-separated parts, so       *)
(* "a.css" is <<"a", "css">>, ".css" is <<"", "css">>, "go" is <<"go">>    *)
(* and the empty string is <<"">>.  A path is a sequence of names, written *)
(* from the working directory: "sub/a.css" is <<<<"sub">>, <<"a", "css">>>>.*)
(***************************************************************************)
EXTENDS SequencesExt

CONSTANTS
    IgnoreFiles,    \* the paths config.c stores for IGNORE_FILES
    WatchExtNames,  \* the strings of WATCH_FILE_EXT_NAMES, as written
    CwdTerminated,  \* does a NUL happen to follow the cached copy of the cwd?
    ShiftedExt      \* [name -> the extension found when stray bytes shift it]

NoExt == <<"">>

(* The last dot of the name and what follows it, unless that dot is the    *)
(* first character.                                                        *)
Ext(name) ==
    IF Len(name) > 2 \/ (Len(name) = 2 /\ name[1] # "")
    THEN <<"", Last(name)>>
    ELSE NoExt

(* inotify reports the name of the entry in its directory, and the code    *)
(* joins it to the working directory whichever directory was watched.      *)
FullPath(name) == <<name>>

(* Is the event of a file with this name passed over?  The cached cwd is   *)
(* copied without its terminator: when the byte after it is not NUL the    *)
(* path is cwd, stray bytes, "/", and the name, cut to the computed        *)
(* length, so no stored path can equal it and the extension is read from   *)
(* the cut name ("a.css" loses its last letters).                          *)
Dropped(name) ==
    IF CwdTerminated
    THEN FullPath(name) \in IgnoreFiles \/ Ext(name) \in WatchExtNames
    ELSE ShiftedExt[name] \in WatchExtNames

=============================================================================
