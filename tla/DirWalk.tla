------------------------------ MODULE DirWalk ------------------------------
(***************************************************************************)
(* ino_recursive_dir_add(): the walk that sets a watch on the working      *)
(* directory and all below it, with the frames of its recursion, the heap  *)
(* arrays that record the watch descriptors, and a user who makes and      *)
(* removes directories meanwhile.  A watch descriptor is written as its    *)
(* directory: the kernel gives the same one for "sub" and "sub/.".         *)
(***************************************************************************)
EXTENDS PathText, SequencesExt, Naturals, FiniteSets

CONSTANTS
    Dirs,           \* every directory there may ever be
    Root,           \* the working directory
    Parent,         \* [directory -> the one it is in]
    InitialDirs,    \* those there when the walk begins
    Removable,      \* those the user may remove
    IgnoreDirs,     \* the ones IGNORE_DIRS lists
    Failed,         \* -1 for a descriptor
    MaxRefusals,    \* bound on the watches the kernel refuses
    MaxOpen,        \* file descriptors cmon has left for directories
    InitialSizes,   \* size of the array main() allocates: 100
    Increment,      \* MEMORY_INCREMENT: 15
    MaxArraySize    \* MAX_INT_ARRAY_SIZE: 5000

ASSUME DirAssumption ==
    /\ Root \in InitialDirs /\ InitialDirs \subseteq Dirs
    /\ Parent \in [Dirs \ {Root} -> Dirs]
    /\ IgnoreDirs \subseteq Dirs \ {Root} /\ Removable \subseteq Dirs \ {Root}
    /\ Failed \notin Dirs /\ "." \notin Dirs
    /\ IsFiniteSet(Dirs)

(* A file system is a tree: what is there is in a directory that is there, *)
(* and every directory is found from the working directory.                *)
ASSUME TreeAssumption ==
    /\ \A d \in InitialDirs \ {Root} : Parent[d] \in InitialDirs
    /\ \A S \in SUBSET Dirs :
          Root \in S /\ (\A d \in Dirs \ {Root} : Parent[d] \in S => d \in S) => S = Dirs

ASSUME SizeAssumption ==
    /\ MaxRefusals \in Nat /\ MaxOpen \in Nat
    /\ InitialSizes \subseteq Nat \ {0} /\ Increment \in Nat \ {0}
    /\ MaxArraySize \in Nat

VARIABLES
    pc,        \* "walk", "done" or "crashed"
    exists,    \* the directories there are
    watched,   \* the directories inotify reports on
    refused,   \* those it was asked to, but refused a watch
    opened,    \* directories opened so far; none is ever closed
    stack,     \* the active calls, the innermost last
    heap,      \* the arrays allocated so far
    misused    \* has a freed array been used?

vars == <<pc, exists, watched, refused, opened, stack, heap, misused>>

SubDirs(d) == {c \in exists \ {Root} : Parent[c] = d}

(* Ignored directories and everything below them: the least such set.      *)
Skipped ==
    LET Closed(S) == /\ IgnoreDirs \subseteq S
                     /\ \A c \in Dirs \ {Root} : Parent[c] \in S => c \in S
    IN {d \in Dirs : \A S \in SUBSET Dirs : Closed(S) => d \in S}

NULL == 0   \* the other pointers index the heap

(* A call: its directory, is the directory open, the entries readdir() has *)
(* to return, those it has returned, and its own copy of wdArr.            *)
Call(d, arr) ==
    [dir |-> d, open |-> FALSE, must |-> {}, seen |-> {}, arr |-> arr]

Top == Last(stack)

Running == pc = "walk" /\ stack # <<>>

Init ==
    /\ pc = "walk"
    /\ exists = InitialDirs
    /\ watched = {} /\ refused = {}
    /\ opened = 0
    /\ \E n \in InitialSizes : heap = <<[size |-> n, wds |-> <<>>, freed |-> FALSE]>>
    /\ stack = <<Call(Root, 1)>>
    /\ misused = FALSE

(* opendir(); a directory that is gone, or one too many, gives NULL, which *)
(* readdir() follows.                                                      *)
Open ==
    /\ Running /\ ~Top.open
    /\ IF Top.dir \in exists /\ opened < MaxOpen
       THEN /\ stack' = Append(Front(stack),
                               [Top EXCEPT !.open = TRUE, !.must = SubDirs(Top.dir)])
            /\ opened' = opened + 1
            /\ UNCHANGED pc
       ELSE pc' = "crashed" /\ UNCHANGED <<opened, stack>>
    /\ UNCHANGED <<exists, watched, refused, heap, misused>>

(* inotify_add_watch() gives the descriptor, or Failed when the directory  *)
(* is gone or the programs of the user have taken all the watches.         *)
Watch(d, wd) ==
    \/ /\ d \in exists /\ wd = d
       /\ watched' = watched \union {d} /\ refused' = refused \ {d}
    \/ /\ d \notin exists /\ wd = Failed
       /\ UNCHANGED <<watched, refused>>
    \/ /\ d \in exists \ watched /\ wd = Failed
       /\ d \in refused \/ Cardinality(refused) < MaxRefusals
       /\ refused' = refused \union {d} /\ UNCHANGED watched

\* Mutant of Added: the array grows one descriptor too early.
AddedEarly(a, wd) ==
    LET len == Len(heap[a].wds)
        new == Append(heap[a].wds, wd)
    IN IF a = NULL \/ len + 1 > MaxArraySize THEN [arr |-> NULL, heap |-> heap]
       ELSE IF heap[a].size <= len + 1
       THEN [arr  |-> Len(heap) + 1,
             heap |-> Append([heap EXCEPT ![a].freed = TRUE],
                             [size |-> heap[a].size + Increment, wds |-> new,
                              freed |-> FALSE])]
       ELSE [arr |-> a, heap |-> [heap EXCEPT ![a].wds = new]]

(* cmon_int_arr_add(): the pointer it returns and the heap it leaves.      *)
Added(a, wd) ==
    LET len == Len(heap[a].wds)
        new == Append(heap[a].wds, wd)
    IN IF a = NULL \/ len + 1 > MaxArraySize THEN [arr |-> NULL, heap |-> heap]
       ELSE IF heap[a].size < len + 1
       THEN [arr  |-> Len(heap) + 1,
             heap |-> Append([heap EXCEPT ![a].freed = TRUE],
                             [size |-> heap[a].size + Increment, wds |-> new,
                              freed |-> FALSE])]
       ELSE [arr |-> a, heap |-> [heap EXCEPT ![a].wds = new]]

(* What the calls of one entry have in common: the watch, its record, and  *)
(* the callers' frames left as they are, wdArr included.                   *)
Record(d, wd, entry) ==
    LET added == Added(Top.arr, wd)
        frame == [Top EXCEPT !.seen = @ \union {entry}, !.arr = added.arr]
    IN /\ Watch(d, wd)
       /\ heap' = added.heap
       /\ misused' = (misused \/ (Top.arr # NULL /\ heap[Top.arr].freed))
       /\ stack' = IF entry = "." THEN Append(Front(stack), frame)
                   ELSE Front(stack) \o <<frame, Call(d, added.arr)>>

\* Mutant of Entry: an ignored directory is not watched, but walked.
EntryEntersIgnored(d) ==
    /\ Running /\ Top.open
    /\ d \in (SubDirs(Top.dir) \union Top.must) \ Top.seen
    /\ IF d \in IgnoreDirs
       THEN /\ stack' = Front(stack) \o
                  <<[Top EXCEPT !.seen = @ \union {d}],
                    [Call(d, Top.arr) EXCEPT !.seen = {"."}]>>
            /\ UNCHANGED <<watched, refused, heap, misused>>
       ELSE \E wd \in {d, Failed} : Record(d, wd, d)
    /\ UNCHANGED <<pc, exists, opened>>

(* readdir() returns an entry that is there, or one it had buffered.       *)
Entry(d) ==
    /\ Running /\ Top.open
    /\ d \in (SubDirs(Top.dir) \union Top.must) \ (Top.seen \union IgnoreDirs)
    /\ \E wd \in {d, Failed} : Record(d, wd, d)
    /\ UNCHANGED <<pc, exists, opened>>

\* Mutant of Self: "." is passed over like "..".
SelfPassedOver ==
    /\ Running /\ Top.open
    /\ "." \notin Top.seen
    /\ stack' = Append(Front(stack), [Top EXCEPT !.seen = @ \union {"."}])
    /\ UNCHANGED <<pc, exists, watched, refused, opened, heap, misused>>

\* Mutant of Self: the directory is walked again by way of ".".
SelfReenters ==
    /\ Running /\ Top.open
    /\ "." \notin Top.seen
    /\ stack' = Front(stack) \o <<[Top EXCEPT !.seen = @ \union {"."}], Call(Top.dir, Top.arr)>>
    /\ UNCHANGED <<pc, exists, watched, refused, opened, heap, misused>>

\* Mutant of Self: the directory is read from the beginning again.
SelfRewinds ==
    /\ Running /\ Top.open
    /\ "." \notin Top.seen
    /\ stack' = Append(Front(stack), [Top EXCEPT !.seen = {}])
    /\ watched' = watched \union {Top.dir}
    /\ UNCHANGED <<pc, exists, refused, opened, heap, misused>>

(* It returns "." as well: the directory is watched once more, or, for the *)
(* working directory, for the first time.                                  *)
Self ==
    /\ Running /\ Top.open
    /\ "." \notin Top.seen
    /\ \E wd \in {Top.dir, Failed} : Record(Top.dir, wd, ".")
    /\ UNCHANGED <<pc, exists, opened>>

(* The freed memory has been given to someone else.                        *)
Corrupted ==
    /\ Running /\ misused
    /\ pc' = "crashed"
    /\ UNCHANGED <<exists, watched, refused, opened, stack, heap, misused>>

\* Mutant of Return: the loop may end with the first entry.
ReturnEarly ==
    /\ Running /\ Top.open
    /\ "." \in Top.seen
    /\ stack' = Front(stack)
    /\ UNCHANGED <<pc, exists, watched, refused, opened, heap, misused>>

(* readdir() has returned everything that is still there, "." too unless   *)
(* the directory itself is gone.                                           *)
Return ==
    /\ Running /\ Top.open
    /\ Top.dir \in exists => "." \in Top.seen
    /\ (Top.must \intersect exists) \ IgnoreDirs \subseteq Top.seen
    /\ stack' = Front(stack)
    /\ UNCHANGED <<pc, exists, watched, refused, opened, heap, misused>>

(* The call of main() is over.                                             *)
Done ==
    /\ pc = "walk" /\ stack = <<>>
    /\ pc' = "done"
    /\ UNCHANGED <<exists, watched, refused, opened, stack, heap, misused>>

MakeDir(d) ==
    /\ d \in Dirs \ exists
    /\ Parent[d] \in exists
    /\ exists' = exists \union {d}
    /\ UNCHANGED <<pc, watched, refused, opened, stack, heap, misused>>

(* The watch goes with the directory.                                      *)
RemoveDir(d) ==
    /\ d \in Removable \intersect exists
    /\ SubDirs(d) = {}
    /\ exists' = exists \ {d}
    /\ watched' = watched \ {d}
    /\ UNCHANGED <<pc, refused, opened, stack, heap, misused>>

Walk == Open \/ (\E d \in Dirs : Entry(d)) \/ Self \/ Return \/ Corrupted \/ Done

Next == Walk \/ (\E d \in Dirs : MakeDir(d)) \/ (\E d \in Dirs : RemoveDir(d))

Spec == Init /\ [][Next]_vars

FairSpec == Spec /\ WF_vars(Walk)

-----------------------------------------------------------------------------
TypeOK ==
    /\ pc \in {"walk", "done", "crashed"}
    /\ exists \subseteq Dirs
    /\ watched \subseteq Dirs /\ refused \subseteq Dirs
    /\ opened \in Nat
    /\ stack \in Seq([dir : Dirs, open : BOOLEAN, must : SUBSET Dirs,
                      seen : SUBSET (Dirs \union {"."}), arr : Nat])
    /\ heap \in Seq([size : Nat, wds : Seq(Dirs \union {Failed}), freed : BOOLEAN])
    /\ misused \in BOOLEAN

(* An ignored directory is not watched, and nothing below one is, whatever *)
(* is made or removed during the walk.  (inotify.c 115-123: not entering   *)
(* it is what keeps its contents out.)                                     *)
NothingSkippedWatched == watched \intersect Skipped = {}

(* The walk leaves out nothing that was there all along, unless the kernel *)
(* refused the watch.  (The loop of inotify.c 107-126 and its recursion,   *)
(* against readdir() and the user.)                                        *)
ToWatch == InitialDirs \ (Removable \union Skipped)

AllWatched == pc = "done" => ToWatch \subseteq watched \union refused

(* The array is large enough for two descriptors of each directory that is *)
(* walked, less the one that the working directory does without.           *)
Roomy ==
    /\ 2 * Cardinality(Dirs \ Skipped) - 1 <= heap[1].size
    /\ heap[1].size <= MaxArraySize

(* Such an array is never replaced: no call is left with a pointer to a    *)
(* freed one, and main()'s own array has every descriptor.  (inotify.c 118 *)
(* assigns the result to its own parameter.)                               *)
SmallWalkIsSafe == Roomy => ~misused /\ watched \subseteq Range(heap[1].wds)

(* With it the walk crashes only at a directory that is removed while it   *)
(* is walked, if the directories that are not skipped, which are never     *)
(* closed, do not exhaust the descriptors: none is opened twice.           *)
(* (inotify.c 104, 120-122.)                                               *)
SmallWalkSurvives ==
    pc = "crashed" /\ Roomy /\ Cardinality(Dirs \ Skipped) <= MaxOpen =>
        Top.dir \in Removable

(* A directory, however deep, is passed over exactly if ignoreDirs has its *)
(* path from the working directory, as long as the path of the directory   *)
(* that holds it has room for one character more: the pieces that the walk *)
(* and the configuration put together differ, their sizes and texts do     *)
(* not.  (c_utils_string.c 9-19, 42-82, 132-147; inotify.c 109-121.)  No   *)
(* path depends on the state: it is looked at as the walk begins.          *)
PathsCompare ==
    opened = 0 /\ exists = InitialDirs =>
        \A c \in Cwds, chain \in Chains, name \in EntryNames, v \in Values :
            RoomBelow(c, chain) => Compares(c, chain, name, v)

-----------------------------------------------------------------------------
(* What these rest on.  An active call is one for a directory that is not  *)
(* skipped, its entries are those of its directory, and its pointer is     *)
(* NULL or an array.                                                       *)
Calls ==
    {c \in [dir : Dirs \ Skipped, open : BOOLEAN, must : SUBSET (Dirs \ {Root}),
            seen : SUBSET (Dirs \union {"."}), arr : 0..Len(heap)] :
        \A e \in c.must : Parent[e] = c.dir}

CallsInv == TypeOK /\ stack \in Seq(Calls) /\ heap # <<>> /\ NothingSkippedWatched

(* The directories to watch, and those they are in, stay.                  *)
Lasting ==
    LET Closed(S) == /\ ToWatch \subseteq S
                     /\ \A c \in S \ {Root} : Parent[c] \in S
    IN {d \in Dirs : \A S \in SUBSET Dirs : Closed(S) => d \in S}

Entries(d) == {c \in Lasting \ {Root} : Parent[c] = d}

Rooted == /\ {Root} \union ToWatch \subseteq exists
          /\ \A d \in exists \ {Root} : Parent[d] \in exists

Reached == watched \union refused

Active(d) == \E i \in DOMAIN stack : stack[i].dir = d

(* A call has only just begun or has all lasting entries to return; those  *)
(* it has returned are reached.                                            *)
Listed ==
    \A i \in DOMAIN stack :
        /\ IF stack[i].open THEN Entries(stack[i].dir) \subseteq stack[i].must
                            ELSE stack[i].seen = {}
        /\ stack[i].seen \intersect Lasting \subseteq Reached
        /\ "." \in stack[i].seen /\ stack[i].dir \in Lasting => stack[i].dir \in Reached

(* A call that is over leaves nothing out.                                 *)
Finished ==
    /\ pc = "done" => stack = <<>>
    /\ Active(Root) \/ Root \in Reached
    /\ \A d \in Lasting \intersect Reached : Active(d) \/ Entries(d) \subseteq Reached

(* A directory that a call knows of is there or has been removed.          *)
Known ==
    \A i \in DOMAIN stack : {stack[i].dir} \union stack[i].must \subseteq exists \union Removable

(* No directory is called for twice, recorded twice as an entry or twice   *)
(* as ".", or opened twice: the records and the open directories are no    *)
(* more than such sets of directories.                                     *)
Once(called, recorded, open) ==
    /\ Root \in called /\ \A d \in called \ {Root} : Parent[d] \in called
    /\ recorded \union open \subseteq called
    /\ Len(heap[1].wds) + 1 <= Cardinality(called) + Cardinality(recorded)
    /\ opened <= Cardinality(open)
    /\ \A i \in DOMAIN stack :
          /\ stack[i].dir \in called
          /\ \A d \in called \ {Root} : Parent[d] = stack[i].dir => d \in stack[i].seen
          /\ "." \in stack[i].seen \/ stack[i].dir \notin recorded
          /\ stack[i].open \/ stack[i].dir \notin open
    /\ \A i, j \in DOMAIN stack : stack[i].dir = stack[j].dir => i = j

OnceEach ==
    \E called, recorded, open \in SUBSET (Dirs \ Skipped) : Once(called, recorded, open)

(* An array that is large enough is the only one.                          *)
OneArray ==
    Roomy => /\ Len(heap) = 1 /\ ~heap[1].freed
             /\ \A i \in DOMAIN stack : stack[i].arr = 1

IInv == /\ CallsInv
        /\ Rooted /\ Listed /\ Finished
        /\ Known /\ OnceEach /\ OneArray /\ SmallWalkIsSafe /\ SmallWalkSurvives

(* The walk ends.                                                          *)
WalkEnds == <>(pc \in {"done", "crashed"})

(* The walk is the walk of Watcher: it comes to one more directory at a    *)
(* time, is given or refused a watch for it, crashes, or is over when it   *)
(* has come to all those that were there at the start and are not skipped. *)
(* (inotify.c 96-128, whatever the user makes and removes meanwhile.)      *)
Watcher == INSTANCE Watcher WITH
    Files <- {}, DirOf <- <<>>, NameOf <- <<>>, SkippedDirs <- Skipped,
    Overflow <- Failed, MaxQueuedEvents <- 1, BufferEvents <- 1, MaxEdits <- 0,
    Faults <- {"walk"}, IgnoreFiles <- {}, WatchExtNames <- {},
    CwdTerminated <- TRUE, ShiftedExt <- <<>>,
    pc <- IF pc = "done" THEN "start" ELSE pc,
    dirs <- exists,
    version <- <<>>, base <- <<>>, queue <- <<>>, batch <- <<>>,
    child <- "none", sigterm <- FALSE, lost <- {}, starts <- 0

WalkOfWatcher == Watcher!Spec

(* c_int_array.c:33-34 "If the new number does not fit in the array size,  *)
(* a new CmonIntArray is returnd and the old one is free": the old one is  *)
(* not used again.  (The callers of a nested call keep it.)                *)
NoFreedArrayUsed == ~misused

=============================================================================
