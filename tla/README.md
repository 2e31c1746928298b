# A verification of cmon

cmon runs a command and restarts it when files change. These modules model the
parts of it where order, concurrency and failure matter, check them with TLC,
and prove the central properties with TLAPS. Line numbers refer to the files of
the repository at the commit the models were written from.

## 1. Inventory

| component | state | operations | interacts with |
|---|---|---|---|
| main loop, `main.c`, `inotify.c` 52-94 | `sub_pid`, the buffer of events, the inotify queue (kernel) | configure, walk, start, then poll / read / handle each event | all of the below |
| event filter, `cmon_path.c`, `cmon_string_array.c` | the cached cwd, the lists of the configuration | full path and extension of an event name, two list searches | event loop, configuration |
| directory walk, `inotify.c` 97-132, `c_int_array.c` | recursion frames, descriptor array, kernel watches | open, read an entry, watch, record, descend | main, file system |
| restart, `ps_tree.c`, `process.c` | pid array, `child_pid`, the process table (kernel) | list the tree with pstree, SIGTERM each pid, waitpid, fork and exec | event loop, application, other programs |
| HTTP relay, `cmon_proxy.c` 43-215, `cmon_http.c` | two sockets, one message at a time | read header, forward header, forward body by chunks, inject a script | client, server |
| accept loop and communication manager, `cmon_proxy.c` 217-305, `cmon_sockets.c`, `cmon_http.c` 131-175 | the variable `rc`, a thread per client, descriptors, buffers | accept, create a thread, connect, peek and take a header | clients, server |
| header fields, `cmon_http.c` 41-60, 214-264, 330-468 | - | find a field, give its value, read the length of a body | relay, manager |
| configuration and tokenizer, `config.c`, `tokenizer.c` | token array of 100, three lists of 50 entries, the file `.config.cmon` | open or create the file, tokenize, parse | main, filter, walk |
| buffers, `c_utils_buffer.c`, `c_utils_str.c` | bytes, length, capacity | insert, shift, grow, search, copy | relay |
| strings, `c_utils_string.c` | text and size | join, copy, compare | walk, configuration, filter |
| logger, `logger.c` | one stream, a static level | write a line | every thread |
| printing, SSE, tests | - | - | - |

main() calls the walk and the first start, and hands every batch to the event
loop; the loop asks the filter about each event and calls the restart. The
configuration is read once, before all of that, and never changes. The proxy is
compiled in, but main() does not start it and `c_proxy_handle_client()` has no
caller at this commit: it is modelled as the code stands, for a client that is
handed to it.

**What is hard.** cmon is one thread, but nothing around it waits: the user
edits in the middle of a restart, the kernel queue fills up, the application
forks, exits and ignores its parent between the listing, the signals and the
wait, pids are reused, directories come and go under the walk, network reads
divide a message anywhere and peers close at any byte. The list of these hazards,
each at its line and with the properties that cover it, is in `PROJECT.json`.

**What makes each part correct.**

* *main loop*: no edit of a relevant file is forgotten; the application that
  runs has every edit once cmon sleeps; cmon restarts only for edits; there is
  one instance at a time; every edit is answered in the end.
* *walk*: every directory that is not ignored is watched, no ignored one is; it
  ends; the arrays it allocates are not used after they are freed.
* *restart*: child_pid never names someone else; waitpid() never waits without a
  cause; each listed process is told to end, children first; one child at a time.
* *relay*: nothing is lost, repeated or reordered; the sides never wait for each
  other; every request is answered.
* *accept loop*: a thread serves no client that came before its own; a header is
  taken whole or not at all; a waiting client is accepted and a whole header is
  handled, as long as there are descriptors and memory.
* *header fields*: what is read of a field is what the header says.
* *strings*: two paths compare equal exactly if they are spelled alike.
* *configuration*: what the file lists is what the lists hold; a file that is
  there is never read empty or emptied.
* *buffers*: an operation keeps the bytes it does not replace, whether it works
  in place or in new memory, and the text stays inside its memory.

## 2. Plan

**Done.** `LiveReload` (the promise), `Watcher` (main and event loop) with
`EventFilter`; `ProcTree` (the restart in detail); `CmonSystem`, which composes the
two; `DirWalk` (the walk in detail) with `PathText` (its paths); `HttpRelay` with
its promise `Conversation` and with `HttpHeader` for what a header declares;
`ProxyAccept` (the accept loop and its threads); `Config`; `Buffer`; proofs about
every module that has states, and of every safety property the passing runs check.

**Left**: liveness is only model-checked (end of section 6). Of the code, what
section 8 lists; next would be the event filter's texts at the level of characters,
as `PathText` has those of the walk, and a pstree that is not installed, which needs
two cmons in `CmonSystem`.

Each module is meant to be proved about as well as checked: constants with named
assumptions, one action per operation, invariants made of named parts, recursive
functions and folds where there is recursion over data.

## 3. Modules

| module | models | implements |
|---|---|---|
| `LiveReload` | what cmon promises: dirty files, one application | |
| `EventFilter` | `ino_procees_events` 61-78, `cmon_path_new_full_path` | |
| `Watcher` | `main`, `ino_procees_events`, the kernel queue | `LiveReload` |
| `ProcTree` | `ps_tree.c`, `process.c`, the process table | `LiveReload` without edits |
| `CmonSystem` | the event loop over the process table | `Watcher`, by instances of it and of `ProcTree` |
| `DirWalk` | `ino_recursive_dir_add`, `c_int_array.c` | the walk of `Watcher` |
| `PathText` | `c_utils_string.c`, as the walk and the configuration use it | |
| `Conversation` | a client and a server with nothing between them | |
| `HttpRelay` | `c_proxy_handle_client` and what it calls | `Conversation` |
| `HttpHeader` | the fields of a header and Content-Length, `cmon_http.c` | |
| `ProxyAccept` | `c_proxy_start`, `c_proxy_communication_manager`, `c_http_c_buf_recv_header`, `cmon_sockets.c` | |
| `Config` | `config_init`, `config_open_file`, `config_parser`, `config_tokenizer`, the lists | |
| `Buffer` | `c_utils_buffer.c` | |
| `WatcherProofs`, `ProcTreeProofs`, `CmonSystemProofs`, `DirWalkProofs`, `HttpRelayProofs`, `ProxyAcceptProofs`, `ConfigProofs`, `BufferProofs` | theorems | |
| `MC...` | values of the constants for TLC | |

Operators whose comment begins with "Mutant of" are changed forms of the
operator after them; no specification uses them. They show that a plausible bug
at that place would break a property.

### EventFilter

A name is the sequence of its dot-separated parts. `Ext` is the backward scan of
cmon_path.c 141-147, which leaves out the first character; `FullPath` shows that
the directory of the event plays no part; `CwdTerminated = FALSE` is a process
in which the byte after the cached cwd (allocated without room for its
terminator) is not NUL, and `ShiftedExt` gives the extension that is then cut.

### Watcher

`pc` follows the thread: `walk`, `start`, `poll`, `dispatch` (in the event loop),
then `snapshot`, `signal`, `wait`, `start` for a restart; `crashed` for a walk that
follows the NULL of opendir(), `hung` for the read of a pipe that never ends, and
`unheard` for a wait for an application that nobody told to end, because the
list was too long for an array. A watch that the kernel refuses is logged and passed
over (`RefuseWatch`): the directory is `refused`, its edits are `Unseen`, and cmon
starts the application all the same. `queue` and `batch` hold events by their file;
`Queued` is the kernel: an event equal to the last queued one is merged, a full
queue holds one overflow event and drops the rest (`lost` remembers the files).
`version` and `base` count edits and what the running instance started with.
`sleep(1)` after the first start only delays, and is left out. That sleep, the walk and the restart are all interruptible by `Edit`, `MakeDir`,
`RemoveDir` and `ChildExit`. A watch is that of an inode: it goes with its
directory, and one made in its place has none. (The kernel would send IN_IGNORED,
but cmon keeps every directory open that it has read, and so alive.) `Relevant`
are the files in directories that are there from the start, stay, and are not
ignored, whose events the filter lets through.

### ProcTree

The process table is `status`, `parent` and `kin` (this instance, an old one,
others); a thread is an entry of status `thread` whose parent is its process, since
its number comes from the same table. `Snapshot` reads every number that
`pstree -n -p` prints. Lines end at column 132, so a part of the tree that holds the
ancestors of all it holds is printed (`Printed`), each process before its children
and its threads, with the numbers that names and cut lines spell (`Strays`, at most
`MaxSpelled` of them) anywhere between (`Outputs`). More numbers than `MaxPids`,
which stands for the 5000 of `MAX_INT_ARRAY_SIZE`, leave no array at all (`overlong`);
a number of ten digits overruns its buffer (`SnapshotOverruns`, after which nothing
more is said). `SignalLast` is one turn of the loop in process.c 45-49, so the
application may fork, exit, be collected, and its pids be reused, between any two
signals; a signal to a thread is one to its process (`Target`). A failed fork sets
`root` to -1; waitpid(-1) then has no child to wait for.

### CmonSystem

The variables are those of `Watcher` and of `ProcTree`, with one `pc`; the child
and its signal are read off the process table. A restart belongs to `Replace` and
`Fork`, whose steps are the actions of the instance `P` of `ProcTree`; all else cmon
does belongs to `Reach` and `Events`, whose steps are those of the instance `W` of `Watcher`.
The user takes the steps of `W`, the application and other programs those of `P`.
`Fork` alone changes both sides: the process table, and the batch that goes on with
what the new application started from. `W` counts the signals as sent when that to
the child has been sent, since it has only one (`Signalled`); a list without an array
is a wait that is `unheard`. The actions
`Snapshot`, `Signal`, `Wait`, `Start` and `ChildExit` of `W` are not used: that the
process table does just that is `WatcherOfCmon`.

### DirWalk

`stack` holds the frames of the recursion, each with its own copy of the pointer
`wdArr`; `heap` holds the arrays. readdir() must return the entries that were
there at opendir() and still are, and may return ones made or removed since.
"." is a directory entry like any other and gives a second descriptor, equal to
the first. Directory entries are looked up in IGNORE_DIRS by their full path, so
a directory stands for its path; `PathText` says when that is so. `opened` counts
the directories that are never closed, `refused` those without a watch: one that is
refused may be tried again as the "." of its own directory. What follows the use of a freed array is
undefined: `Corrupted` may end the process at any later step.

### PathText

A text is a sequence of characters. A CmonString is a text and the size that was
counted for it, which is also the size of its block, and in which a part of more
than `MaxChars` characters counts for none; it is `Sound` if no more was written than
that. `WalkTo` gives the paths that ino_recursive_dir_add() is called with on the way
that a chain of names leads, each made of the one before, a name and a slash, the
first the copy of the working directory; `WaySound` says that every string made on
the way is sound. `IgnoreEntry` is made in one step, of the working directory and the
text of the configuration. `DirWalk` extends the module, since its walk is the one
whose paths these are; no path depends on its state.

### HttpRelay

`dir` is the direction being forwarded; `pc` is where in it: reading a header,
writing it, reading a chunk, writing it. Bytes are counted in units that no read
divides, and a read takes any part of what has arrived, so every way in which
TCP may cut the stream is covered. `remaining` is an integer that may become
negative where the size_t of the code wraps; the code only compares it with 0.
`undefined` stands for everything that may follow an access outside the buffers,
`crashed` for the NULL dereference and SIGPIPE; a write() that gives an error or is
cut short ends the relay (`WriteFails`). The garbage an injection leaves
is one value, `Garbage`. `Faults` names what disturbs a talk: "close" (a peer
closes), "pipeline" (the client runs ahead), "short" (a unit may be shorter than the
pattern that is searched in it), "overrun" (the bytes that cmon_proxy.c 105 and 135
write next to `buff` and to a full chunk are somebody's) and "residue" (the fresh
bytes of `buff`, and those that 133 reads from before a chunk of fewer than eight,
make up a tag). With "overrun" every chunk that is searched may end in `undefined`.

### HttpHeader

A header is a sequence of characters, CR and LF being one each; the functions give
the value of a field or one of two codes, `None` (0, -1, -3 or, for a buffer too small
for the value, -4 in the code) and `Wild`, which says that memory beyond the text or the nine digits is
touched. `Said` is the reference: the lines between the CRLFs, the first that
begins with the name and a colon. `DigitsTo` and `Value` are the two loops over the
digits, as functions of how far they have come; `Writes` is the reference for the
second, a number that is divided by ten until nothing is left. The loop over the line
ends at a lone CR or LF as well, where the value does not: `LengthsAsSaid` has
nothing to say of digits behind one. `HttpRelay` extends the module, and `MCHttpRelay`
has the relay read the lengths of its bodies with `ContentLength`.

### ProxyAccept

A descriptor is the client it belongs to, as none is closed; a thread is named
after the client it was made for, and `fd` is the client it serves. Between
`Accept`, which assigns `rc` and makes the thread, and `ReadFd`, which follows the
pointer to `rc`, the accept loop may go on. accept() sets a descriptor aside before
it waits (`Used`), so that a loop that is out of them spins in `EnterAccept`. A turn
of the header state begins with a buffer (`NewBuffer`), before it looks at the socket,
and goes on with `TurnFails`, with `Peek` followed by `Recv`, or with `Misuse`, where the
code frees twice or searches beyond a short text; no buffer is
given back but by the end of the process. malloc() that gives no more leaves the
thread where it is. `client_addr_len` is never set: `measured` is whether it
happens to be usable, and stays as it is, for a failed accept() does not write it.
The header is counted in units; `Capacity` is that of a new buffer and `PeekSpace`
what a peek may see.

### Config

A file is a sequence of pieces: words, the symbols the tokenizer tells apart, and
`","` for every character it passes over. `Tokenize` and `Parse` are the two loops,
functions of how far they have come, whose turns are `Scan` and `Follow`; `overrun` is the lexeme of more than 100 characters, `wild` a NULL that
is followed (the token after the last, the value of an empty string): both end in
`undefined`. A file keeps its content in `disk` when another takes its `name`,
as editors save; `fd` is the one a process has open, and `made` says that it was
opened with "w+" and written, so that reading goes on behind the default. Words
stand for the characters in them, and `MaxLexeme` counts words. `Written` gives the file
of a configuration in a layout: what is left after a key with its colon, after each
bracket and after an entry. The default content is written with `DefaultGaps`.

### Buffer

`buf` is all the memory of a buffer, `Text` its first `len` cells; a cell that was
never written holds `Unset`. The two branches of an insertion and of a shift are
kept apart as in the code, so that the properties can say that they agree. `avl`
is set by some calls and read by none, and is left out. `SetCapacity` frees memory
twice; after it `pc` is `undefined` and nothing more happens. A byte that a call
writes outside its memory has no place in `buf`: the properties say that lengths
and capacities leave room for what is written.

## 4. Runs

Passing runs:

| run | question | bounds |
|---|---|---|
| `watcher` | does the watcher keep LiveReload's promise, whatever interleaves, and is every edit answered | 3 files in 3 of 4 directories, one ignored, one that may be removed and made again; one file that is listed; 2 edits, kernel queue of 3, read buffer of 2, one watch refused, the walk may crash, the list may be too long, both forks may fail |
| `proctree` | is the restart right over the whole process table, and does it end | 3 pids for processes and threads; one number that a name or a cut line spells, a pid or 0; an array of 3 numbers, so that a list of 4 has none; a number of ten digits; both forks may fail |
| `cmon` | do the process table and the event loop together do what each says of the other | 2 files, an unterminated cwd and a list of extensions, 2 edits, queue and buffer of 2, 2 pids, the second of which a name may spell, or 0; an array of 2 numbers; one watch refused, a walk that crashes, a number of ten digits; both forks may fail |
| `dirwalk` | what the walk watches, whether it ends, when it is safe; whether paths compare as spelled | 6 directories, 3 levels, one ignored, one made and two removed meanwhile, one watch refused, 4 open directories; arrays of 2, growing by 2, and of 7 = 2*4-1 for the 4 directories that are walked. Paths: 2 working directories, 6 names of up to 2 letters, 3 levels, every entry of up to 5 characters, 8 characters counted |
| `config` | is a configuration read as written, when is it read empty | 2 processes, 1 file and 1 successor; every configuration of 1 or 2 blocks with up to 2 entries and some of 3, in 3 layouts; 8 files in other forms; 16 tokens, 3 entries, 3 words to a lexeme |
| `buffer` | do text and memory stay consistent | text up to 5 bytes, strings of 0, 1, 2 and 3, extra space of 2, three byte values with '\0' |
| `http_relay` | is the stream kept, are the fields read as the header says | 2 exchanges, bodies of 0, 1, 3 and 4 units, chunks of 2 units, headers of 2 units in a buffer of 4; a tag in the first page; peers may close, units may be short, overruns may do harm, fresh bytes may make up a tag. Headers: a line before and after a field of two names, with every value of up to 4 of 4 characters; 3 names looked for, 2 digits, 3 other characters |
| `http_relay_direct` | is the relay transparent, is everything answered | 3 exchanges with bodies up to 6 units (3 chunks), peers that keep to HTTP; nobody closes, no read is shorter than its pattern, no overrun does harm, no tag and no fresh bytes that make one up |
| `proxy` | whom a thread serves, when clients are accepted and headers handled | 2 clients, headers of 2 units and of 3 or 4, of 4 that are sent; a buffer of 2 and a peek of 3 units, 3 descriptors, 2 buffers; the port taken, a negative length, a thread that is not made, short units |

Why the bounds are enough: a batch that holds more than one event, an event
merged, a full queue, an edit in each state of a restart and a second restart all
occur in `watcher`, and again in `cmon`, where a restart finds two processes, one,
or none, and the second edit may fall on each of its steps; a pid reused between listing and signal, an orphan, a zombie,
a grandchild, a thread beside a child and a stray occur with 3 pids, and a list that
is one number too long with an array of 3; an array that is reallocated in a
nested call occurs with two directories; a body that comes with its header wholly,
partly or not at all, and chunks that are full or not, occur with buffers of 4 and
2; a list and a token array that are full and a lexeme that overruns occur with
the limits of `config`, which are constants in place of 50, 100 and 100; both
branches of every buffer operation occur with an extra space of 2. In `proxy` two
clients suffice for one to take the place of the other behind the pointer, three
descriptors for the second client to meet a proxy that has none left, two buffers
for a thread to fail once and go on; a header of 3 units does not fit a new buffer
and one of 4 cannot be peeked at. In `dirwalk` a path of 8 characters is reached
with two levels of names. `PathsCompare`, `FieldsAsSaid` and `LengthsAsSaid` are
about functions and not about states: they range over all texts that the constants
give, and are looked at where the walk, or the relay, begins. The runs give them small
sets of texts; the theorems (section 6) are about any.

Three runs must be found violated: there a comment says one thing and the code
does another. Each is quoted in `PROJECT.json` under "findings".

| run | the comment | what the run shows |
|---|---|---|
| `proctree_stray` | the array holds the pids of the child's tree (ps_tree.h 14-15) | digits in a name are listed as the pid of a process outside the tree |
| `dirwalk_freed` | the array is replaced by the one that is returned (c_int_array.c 33-34) | a nested call frees the array its callers go on using |
| `http_relay_null` | a peer that closes early gives a message without header (cmon_http.c 516-517) | it gives NULL, which is followed at cmon_proxy.c 194 |

`CHECK_DEADLOCK FALSE` is used where the system may really stop: edits are
bounded, a walk is over when it is done, `hung`, `killed`, `closed`,
`crashed` and `undefined` are ends, and a client may have no more requests.

## 5. Fairness

* `Watcher`: weak fairness of cmon's own steps (one thread that the scheduler
  runs; a walk may crash instead of going on), and of the exit of an application that was sent SIGTERM, whose default
  disposition ends it. Nothing is assumed of the user, and nothing of an
  application that was not signalled.
  The walk comes to each directory it has to watch, or crashes, which is `WalkEnds` of
  `DirWalk`; that the kernel gives a watch is not assumed. `EditsAnswered` names what
  may leave an edit without an answer (`Unanswerable`): a lost event, a refused
  watch, a walk that crashed, a pstree that could not be forked, a list too long for
  its array while the application goes on, and a failed fork of the application.
* `CmonSystem`: the same, with the exit of each process that was sent SIGTERM.
* `ProcTree`: a restart that has begun is carried on; each process that was sent
  SIGTERM ends. `RestartCompletes` lets a restart end in `hung` when pstree cannot
  be forked, in `killed` when a name spells 0 and cmon signals its own group, in
  `overrun` when one spells ten digits, and in a wait that nothing ends when the list
  was too long (`Unheard`). An application that catches SIGTERM and goes on makes cmon
  wait for ever, which is what the code does.
* `DirWalk`: the walk takes its steps. The user makes and removes finitely many
  directories in a finite tree.
* `HttpRelay`: the thread runs, and the server answers a request that it has
  whole. The client need not ask.
* `ProxyAccept`: the accept loop and each thread run. No client need come or send,
  and the server need not stay up: `HeaderHandled` is about a server that does,
  since connect() is tried again without end. `Admitted` has one excuse, accept()
  called while every descriptor is in use.

## 6. Proofs

All eight proof modules are checked to the last leaf. They rest on the named
assumptions of the constants, which TLC evaluates in every run of their modules,
and which say

* that sets of files, directories and pids are finite, that bounds and sizes are
  numbers, and that special values are none of the ordinary ones
  (`FilesAssumption`, `BoundsAssumption`, `PidAssumption`, `SystemAssumption`,
  `DirAssumption`, `SizeAssumption`, `BufferAssumption`, `RelayAssumption`,
  `ProxyAssumption`, `ConfigAssumption`);
* that a file system is a tree (`TreeAssumption` of `DirWalk`);
* that texts are sequences of characters, and that a name or an entry of ignoreDirs
  is not longer than what is counted (`TextAssumption`: a file name has at most 255
  characters, an entry at most 100, 257 are counted);
* that a digit is none of the colon, the space, CR and LF (`HeaderAssumption`).

Three groups of theorems have a hypothesis, which their statements name:

* those of `HttpRelay` are about peers that keep to HTTP (`Orderly`: a body is as
  long as its header says, and the client does not run ahead);
* `RelayIsTransparent` moreover about an undisturbed talk (`Undisturbed`): nobody
  closes; every read has at least the bytes of the pattern that is searched in it
  (seven for a body: c_utils_str.c 54); the bytes that cmon_proxy.c 105 and 135 write
  past `buff` and past a full chunk are nobody's; the fresh bytes of `buff` and those
  before a short chunk (104-119, 133) make up no tag; a header fits; no body has a tag;
* `EmptinessPasses` about a default configuration that is not empty, as that of
  config.c is not.

Other theorems name their exceptions in the property. `WaitIsJustified` and
`AllListedTermed` are about lists that fit the array; `ChildrenAreFirst` about processes
without threads whose pid no name and no cut line spells, for pstree prints threads
among the children, and a signal to one of them ends its process before them.
`NoEditForgotten` and `QuiescentFresh` leave out directories whose watch was refused.

**WatcherProofs.** `NoEditForgotten` is not inductive: `Start` may clear the
debts only because it takes every version (`base' = version`), an edit pays its
event only if its directory is watched, `Wait` must know that nothing runs.
`IInv` adds `Covered` (after the walk everything to watch is watched or was refused),
`DownAtStart`, `BatchInHand` and `BaseBehind`. `Invariance` has one step per
action. `QuiescentIsFresh` follows from it: with an empty queue, an empty batch
and cmon in poll() none of the excuses of `NoEditForgotten` is left but a lost
event, a refused watch or a missing child. `Refinement` shows that each action is a step of
`LiveReload` or none; `Start` needs `DownAtStart`.
`RestartsAreJustified` counts: starts, restarts under way and triggering events in
the queue and the batch on one side, edits on the other. The lemmas `Triggering...`
say what each operation on the two sequences does to the number of triggering
events in it; a read moves them, a restart turns one into a start, a start turns
that into an instance, and only an edit adds, to both sides.

**ProcTreeProofs.** `OneRoot` carries itself: it says that the children of cmon
are exactly child_pid's process or none, through forks, exits, reuse and failed
forks. `ListInv` carries the list: a listed pid that still runs is signalled or
still to come, unless there is no array (`overlong`), and the child is listed. `WaitJustified` and `ListedAreTermed`
follow from both when the list is empty. `InOrder` says that a listed process that
is not told yet comes behind its parent in what is left of the list; it needs no
induction over the tree, since forks add nothing to what is listed and a listed
process changes its parent for init only. `ChildrenAreFirst` is then about the last pid of
the list. `Refinement` uses `OneRoot` at `Start`.

**CmonSystemProofs.** The modules of the two parts' proofs are instances here, under
the substitutions by which `CmonSystem` refers to the parts. `NextTable`: each step
of the whole is one of `ProcTree` or none, whence `TableInvariance`. With `OneRoot`
of that invariant each step of the whole is one of `Watcher` or none, with a lemma
for each place: signals to other processes are no steps, that to the child is
`Signal`, its exit is `ChildExit`, a pid that is reused is never the child's. That is
`WatchesAsSpecified`; through it the theorems about `Watcher`, with their one
application, become theorems about the whole, with its tree of processes
(`WholeAnswersEdits`, `WholeIsLiveReload`).

**DirWalkProofs.** `NothingSkippedWatched` needs to know of every frame that it is
for a directory outside the skipped set and that what it still has to return are
children of that directory (`Calls`); then the test in `Entry` keeps the next one
outside, because the skipped set is the least one closed downwards.
`AllAreWatched` is an argument about what lasts: the directories to watch, and those
they are in (`Lasting`), are there all the time (`Rooted`); what a frame has
returned of them is reached and what it has not is still to come (`Listed`), so a
frame that is over leaves none of its entries out (`Finished`). When no frame is left
the reached ones are closed downwards, and by `TreeAssumption` they are all.
`RoomyWalkIsSafe` and `RoomyWalkSurvives` bound two numbers, the descriptors in the
array and the open directories, by those of three sets of directories: called for,
recorded, opened. `Once` is inductive for some such sets, which grow as the walk
does; that nothing is called for twice rests on a directory having one parent, and
on readdir() not returning twice what it has returned. `OneArray` then says that no
array is replaced. `WalksLikeWatcher` uses all of it at `Done`.
`PathsAreCompared` has a text in closed form, `Below`, for the path of each call on
the way: the working directory, the names joined by slashes, a slash. That `WalkTo`
gives it goes upward over the chain, with what keeps the counted sizes exact:
if there is room for one character below the last directory, every text that is made
before is shorter still (`BelowFits`), so each string is `Exact`. Exact strings
compare equal if and only if their texts are equal (`StrCmpExact`), and the common
working directory cancels (`Cancel`), which leaves the entry and the joined names.

**HttpRelayProofs.** `IInv` says of every state of the relay whose turn it is and
what has been given (`TurnInv`), that the other direction is at rest and this one is
written, held and on its way (`LengthInv`), what each unit of the three is
(`UnitsInv`), and that the lengths are those of the message at hand (`MessageInv`).
`StreamFacts` says where the units of a message are in its stream; the fold that
makes the stream has a value at every number of messages by `LeastNumber`, which
every set of numbers has. `Receives` is the lemma for a read into the chunk,
`Injected` for the tag, `Writing` and `PassOn` for a write that does not, or does,
end the message. `StreamsAreConserved`, `AccountsAgree` and `SidesStayInStep` follow.
`RelayIsTransparent` shows that an undisturbed relay does not stop
(`NothingStops`: no chunk is searched beyond its end, overruns do no harm, nothing is
taken for a tag), that each write delivers a part of what was sent (`Delivers`) and
that each side sends when it would have without a relay (`Gives`).
`FieldsAreRead` is an argument about places. In a header that is complete and
unambiguous the name is found at the start of a line that is not the last two
(`ValueFacts`, from the colon being none of the characters at the end); what is behind
a place has its lines end where the header has (`EndsAfter`), so the first CRLF
behind the colon is the one that ends the line (`ValueEnds`), which is what `Said`
looks for among the starts of lines. `LengthsAreRead` follows the two loops over the
digits. Behind so many spaces the digits seen are those of the value so far
(`Trail`, `Spaced`), and neither bound stops the loop before the end of the line
(`SeenWhole`). The number made of them, divided by ten, leaves the one made of all
but the last, and that one as remainder (`DigitsWritten`), so that the reference and
the code meet at every digit.

**ProxyAcceptProofs.** `ServesInOrder`: behind the pointer there is
the client a thread was made for or a later one. `OrderInv` makes it inductive by saying
what `rc` is: nothing, or the last client accepted (so that a thread that reads it
finds one that is at least as late as its own), that every thread has an accepted
client, and that no client is both waiting and accepted, so that the one that is
accepted next is new. `LastIsLatest` is the lemma at `ReadFd`, `AppendRange` that at
`Accept`; `OnlyWhatIsSent` carries the counts. It holds for any number of clients,
descriptors and buffers. `HeadersTakenWhole` needs `HeadInv`: a thread that receives
has seen the whole header, and of a client with one thread, or with none, nothing is
taken before that thread is done.

**ConfigProofs.** `Tokenize` and `Parse` are recursive functions. `Recursion` and
`Upward` show once that such a function has values, and that what its first value
has and each step keeps all of them have; both come from the least number of which
it would not be so. `Scan` keeps the tokens typed and the lexeme no longer than what was
scanned, `Follow` the lists no longer than their arrays; both keep the number of
times a word is held (in tokens, lexeme and lists) at or below the number of times
it was read, from which `NothingIsListedTwice` follows for every file, well formed or
not. `EmptyIsNew` is not inductive: `Opened` says who has a file open, and
`EmptyWasMade` that an empty one, whatever its name is by now, is open in the process
that made it, and there not yet written.
`FilesAreReadAsWritten` says what both loops make of a file that a configuration is
written to. `Reads` holds of a file, the number of its tokens and the state the parser
is in behind them; there is a lemma for each thing that can stand next in such a file
(a space or a comma, a bracket, a key and its colon, an entry between quotation marks),
which adds its tokens to the first and takes the parser's steps in the second. Entries
are put together upward into blocks, and blocks into the file (`Upward`). A word of
one symbol never overruns the lexeme, since `MaxLexeme` is more than 1, and `Fits`
keeps the tokens and entries within their arrays.

**BufferProofs.** `IInv` is inductive as it stands. `SplicedFacts` says what each
byte of a spliced text is, `GrownFacts` that fresh cells behind it change nothing;
`InsertAtFacts` and `ShiftFromFacts` then show that both branches of an operation
leave the same bytes, from which `InsertionInserts` and `ShiftingShifts` follow by
equality of sequences. The bound `MaxLen` is any number.

**Only model-checked.**

* Liveness, which is out of the prover's reach: `EditsAnswered`, `EditsReach`,
  `RestartCompletes`, `WalkEnds`, `Admitted`, `HeaderHandled`, and of `Answered` the
  fairness of `Conversation` (its safety is `RelayIsTransparent`).
* The three runs that find a comment violated.

## 7. What the models show the code to do

These are behaviours the models have because the code has them, and that a reader
of its documentation would not expect. The first three are the violated runs
above; of the others no property is claimed to the contrary, and the properties
are worded so as to leave them room.

* The README says both that WATCH_FILE_EXT_NAMES lists the extensions to watch
  (README.md 71) and to ignore (76); the code ignores them (inotify.c 72-78), and
  its extensions carry their dot (".html"), so that "html" matches none.
* The cached cwd has no terminator (cmon_path.c 113): with other bytes after it a
  listed file is not ignored and extensions lose their last characters.
* An event is joined to the working directory and not to the directory of its
  watch (inotify.c 62): an entry of IGNORE_FILES is ignored in every directory.
* Directories that are made while cmon runs get no watch; a directory for which
  the watch limit leaves none is passed over without a word; a directory that is
  gone when it is opened ends the process, as opendir() returns NULL.
* A directory that is removed and made again has no watch, and a tree of more
  directories than there are descriptors ends the process in the walk.
* The overflow event of the kernel is passed over, and with it the edits that
  were dropped.
* A process that the application forks between the listing and the signals, or
  that has become an orphan, goes on beside the next instance.
* pstree prints threads as well, and lists them among the children of their process:
  a signal to one ends the process, before children that are listed above it. Lines
  are cut at column 132, and a number that is cut is another pid. Ten digits overrun
  `pid_buff`.
* A tree of more than 5000 processes and threads leaves no array of pids: nobody is
  signalled, and cmon waits for the application all the same.
* A lone 0 in a name makes cmon signal its own group; a fork() of pstree that fails
  makes it read its own pipe for ever.
* The first run, which makes the configuration, has empty lists, since the file is
  read on from where it was written (config.c 152-159). A file saved between
  access() and fopen("w+") is emptied.
* The tokenizer drops hyphens and divides names at spaces, also between quotation
  marks; an empty string, or a word at the very end of a file, makes the parser
  follow a pointer that was never set.
* A message without Content-Length has no body for the relay; what a client sends
  ahead of the response is dropped; a peer that closes in the middle of a body ends
  the relay; an injection overwrites part of the page; a text shorter than the tag
  is searched beyond its end. Each chunk without a tag writes a byte past `buff`
  (cmon_proxy.c 105), a full one a byte past itself (135), and one of fewer than eight
  bytes is read from before its start (133).
* A name is found inside a longer name and in a value, whichever comes first; a
  Content-Length of ten digits writes behind its buffer before it is refused.
* A thread of the proxy may serve a client that came later than its own, so that
  two threads share one and nobody serves the other. The first header that is
  received ends the process. A thread whose client has closed, or has sent a
  part of its header, turns without end and takes a buffer each time.
* A path of more than 257 characters is written to a block that is too small.
* `c_u_buffer_insert_at()` says of an insertion beyond the capacity that it gives 1 and
  that the caller must grow the buffer and retry (c_utils_buffer.c 229-231); it grows
  the buffer itself, inserts and gives 0 (263-308). `InsertInserts` states what it does;
  a caller written after the comment would insert twice.
* `c_u_buffer_new()` stops at a NUL and keeps the full length; a shift in place
  leaves bytes that were never written; `c_u_buffer_set_capacity()` frees twice.

## 8. Not modelled

* The logger: log_init() runs before there is a second thread, and nothing reads
  what is written. `priority_str`, which the threads of the proxy share, and the
  three writes of a line can only mix up the text of the log.
* What is not yet written: `_c_proxy_handle_proecessing_header()`,
  `c_http_set_headder()` and `_c_http_get_key_value_range()` do nothing, and
  `_c_proxy_might_inject()` has no caller.
* `cmon_parse_config`, `cmon_parse_argv`, `config_parse_argv`, `cmon_tokenizer`,
  `cmon_path_new`: no caller in the program.
* A pstree that is not installed: the forked copy of cmon returns from
  ps_tree_exec() and goes on as a second cmon, whose output is the list the first
  one reads. `CmonSystem` has one cmon.
* Failures of malloc() and of pipe(), signals that interrupt read() or poll(): the
  program sets no signal handler.
* Headers that end in two bare line feeds, for which the code counts four bytes.
* Views of buffers and `c_u_buffer_copy()`, which is empty;
  `cmon_str_copy_to_char_arr()` and `cmon_str_new_from_str()`, which have no caller.
* Files that are saved by renaming another over them: no IN_MODIFY tells cmon.
* Printing, and the server-sent events, which are empty.
