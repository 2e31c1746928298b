------------------------------ MODULE Watcher ------------------------------
(***************************************************************************)
(* The cmon process: main() and ino_procees_events().  It sets a watch on  *)
(* every directory, starts the application, and then handles batches of    *)
(* file events one event at a time; an event that the filter lets through  *)
(* takes it through snapshot (pstree), signal (SIGTERM), wait (waitpid)    *)
(* and start (fork), each of which the user, the kernel queue and the      *)
(* application can interleave with.                                        *)
(*                                                                         *)
(* The directory walk is detailed in DirWalk and the restart in ProcTree.  *)
(***************************************************************************)
EXTENDS EventFilter, Naturals, FiniteSets

CONSTANTS
    Files,            \* the files the user edits
    Dirs,             \* all directories, those created later included
    DirOf, NameOf,    \* [file -> its directory], [file -> its name]
    InitialDirs,      \* the directories there when cmon starts
    SkippedDirs,      \* the ignored directories and everything below them
    Removable,        \* the directories the user may remove
    Overflow,         \* the kernel's IN_Q_OVERFLOW event
    MaxQueuedEvents,  \* fs.inotify.max_queued_events
    BufferEvents,     \* events that fit in the 4096 bytes of main's buffer
    MaxEdits,         \* bound on the edits of one file
    MaxRefusals,      \* bound on the directories the kernel refuses a watch
    Faults            \* what may go wrong: "walk" (a directory that cannot be
                      \* opened), "list" (more pids than the array takes),
                      \* "snapshot", "start" (a fork that fails)

ASSUME FilesAssumption ==
    /\ DirOf \in [Files -> Dirs]
    /\ InitialDirs \subseteq Dirs
    /\ Overflow \notin Files /\ IsFiniteSet(Files)

ASSUME BoundsAssumption ==
    /\ MaxQueuedEvents \in Nat \ {0}
    /\ BufferEvents \in Nat \ {0}
    /\ MaxEdits \in Nat /\ MaxRefusals \in Nat

VARIABLES
    pc,        \* where cmon is
    dirs,      \* the directories that exist
    watched,   \* the directories inotify reports on
    refused,   \* those it was asked to, but refused a watch
    version,   \* [file -> number of edits so far]
    base,      \* [file -> version the application last started with]
    queue,     \* events in the inotify queue
    batch,     \* events read and not yet handled
    child,     \* the application: "none", "running" or "dead" (not yet reaped)
    sigterm,   \* has the running application been sent SIGTERM?
    lost,      \* files whose event a full queue dropped since the last start
    starts     \* number of starts so far

userVars  == <<dirs, version>>
queueVars == <<queue, lost>>
watchVars == <<watched, refused>>
vars == <<pc, dirs, watched, refused, version, base, queue, batch, child,
          sigterm, lost, starts>>

ToWatch == InitialDirs \ (SkippedDirs \union Removable)

Events == Files \union {Overflow}

(* Does handling this event restart the application?  Only IN_MODIFY is    *)
(* looked at, so the overflow event is passed over like any other.         *)
Triggers(e) == e # Overflow /\ ~Dropped(NameOf[e])

(* The files whose edits the application must be restarted for.            *)
Relevant == {f \in Files : DirOf[f] \in ToWatch /\ Triggers(f)}

-----------------------------------------------------------------------------
Init ==
    /\ pc = "walk"
    /\ dirs = InitialDirs
    /\ watched = {} /\ refused = {}
    /\ version = [f \in Files |-> 0]
    /\ base = [f \in Files |-> 0]
    /\ queue = <<>>
    /\ batch = <<>>
    /\ child = "none"
    /\ sigterm = FALSE
    /\ lost = {}
    /\ starts = 0

(* ino_recursive_dir_add() comes to one more directory.  A directory made  *)
(* while it runs may or may not be found.                                  *)
AddWatch(d) ==
    /\ pc = "walk"
    /\ d \in dirs \ SkippedDirs
    /\ watched' = watched \union {d}
    /\ refused' = refused \ {d}
    /\ UNCHANGED <<pc, userVars, base, queueVars, batch, child, sigterm, starts>>

(* The kernel has no watch left for it (max_user_watches): _ino_watch_dir()*)
(* logs that and returns -1, and the walk goes on.                         *)
RefuseWatch(d) ==
    /\ pc = "walk"
    /\ d \in dirs \ (SkippedDirs \union watched)
    /\ Cardinality(refused) < MaxRefusals
    /\ refused' = refused \union {d}
    /\ UNCHANGED <<pc, userVars, watched, base, queueVars, batch, child, sigterm, starts>>

(* The walk has come to every directory.                                   *)
WalkDone ==
    /\ pc = "walk"
    /\ ToWatch \subseteq watched \union refused
    /\ pc' = "start"
    /\ UNCHANGED <<userVars, watchVars, base, queueVars, batch, child, sigterm, starts>>

(* A directory is gone when it is opened, or one too many is open:         *)
(* readdir() follows the NULL of opendir().  Or the freed array that       *)
(* DirWalk shows belongs to someone else by now.                           *)
WalkCrashes ==
    /\ "walk" \in Faults
    /\ pc = "walk"
    /\ pc' = "crashed"
    /\ UNCHANGED <<userVars, watchVars, base, queueVars, batch, child, sigterm, starts>>

(* The event loop goes on to the rest of the batch, or back to poll().     *)
Continue(rest) ==
    /\ batch' = rest
    /\ pc' = IF rest = <<>> THEN "poll" ELSE "dispatch"

(* process_start_child(): fork and exec.  When fork fails, child_pid is -1 *)
(* and cmon goes on without an application.                                *)
Start ==
    /\ pc = "start"
    /\ child' = "running"
    /\ base' = version
    /\ lost' = {}
    /\ starts' = starts + 1
    /\ Continue(batch)
    /\ UNCHANGED <<userVars, watchVars, queue, sigterm>>

StartFails ==
    /\ "start" \in Faults
    /\ pc = "start"
    /\ Continue(batch)
    /\ UNCHANGED <<userVars, watchVars, base, queueVars, child, sigterm, starts>>

(* poll() and read(): as many of the queued events as the buffer takes.    *)
Read ==
    /\ pc = "poll"
    /\ queue # <<>>
    /\ LET n == IF Len(queue) < BufferEvents THEN Len(queue) ELSE BufferEvents
       IN /\ Continue(SubSeq(queue, 1, n))
          /\ queue' = SubSeq(queue, n + 1, Len(queue))
    /\ UNCHANGED <<userVars, watchVars, base, child, sigterm, lost, starts>>

\* Mutant of Skip: it leaves the event loop ("break" for "continue").
SkipRest ==
    /\ pc = "dispatch"
    /\ ~Triggers(Head(batch))
    /\ Continue(<<>>)
    /\ UNCHANGED <<userVars, watchVars, base, queueVars, child, sigterm, starts>>

(* One turn of the event loop that passes the event over ...               *)
Skip ==
    /\ pc = "dispatch"
    /\ ~Triggers(Head(batch))
    /\ Continue(Tail(batch))
    /\ UNCHANGED <<userVars, watchVars, base, queueVars, child, sigterm, starts>>

\* Mutant of Restart: the loop does not move on from the event.
RestartAgain ==
    /\ pc = "dispatch"
    /\ Triggers(Head(batch))
    /\ pc' = "snapshot"
    /\ UNCHANGED <<userVars, watchVars, base, queueVars, batch, child, sigterm, starts>>

(* ... and one that restarts the application: it reaches pstree, ...       *)
Restart ==
    /\ pc = "dispatch"
    /\ Triggers(Head(batch))
    /\ batch' = Tail(batch)
    /\ pc' = "snapshot"
    /\ UNCHANGED <<userVars, watchVars, base, queueVars, child, sigterm, starts>>

(* ... which lists the process tree of the child, ...                      *)
Snapshot ==
    /\ pc = "snapshot"
    /\ pc' = "signal"
    /\ UNCHANGED <<userVars, watchVars, base, queueVars, batch, child, sigterm, starts>>

(* ... or cannot be forked: cmon then reads a pipe it is itself the writer *)
(* of, forever.                                                            *)
SnapshotFails ==
    /\ "snapshot" \in Faults
    /\ pc = "snapshot"
    /\ pc' = "hung"
    /\ UNCHANGED <<userVars, watchVars, base, queueVars, batch, child, sigterm, starts>>

\* Mutant of Signal: the child is not among the pids.
SignalOthers ==
    /\ pc = "signal"
    /\ sigterm' = FALSE
    /\ pc' = "wait"
    /\ UNCHANGED <<userVars, watchVars, base, queueVars, batch, child, starts>>

(* process_kill_subtree(): the child is the first of the pids.  A signal   *)
(* to a child that has ended does nothing.                                 *)
Signal ==
    /\ pc = "signal"
    /\ sigterm' = (child = "running")
    /\ pc' = "wait"
    /\ UNCHANGED <<userVars, watchVars, base, queueVars, batch, child, starts>>

\* Mutant of Wait: cmon does not wait (WNOHANG).
WaitNot ==
    /\ pc = "wait"
    /\ child' = IF child = "running" THEN child ELSE "none"
    /\ sigterm' = FALSE
    /\ pc' = "start"
    /\ UNCHANGED <<userVars, watchVars, base, queueVars, batch, starts>>

(* With more pids than the array takes there is no array, and nobody is    *)
(* signalled; cmon waits all the same.                                     *)
SignalNobody ==
    /\ "list" \in Faults
    /\ pc = "signal"
    /\ pc' = "unheard"
    /\ UNCHANGED <<userVars, watchVars, base, queueVars, batch, child, sigterm, starts>>

(* waitpid(child_pid) returns once the child has ended, and at once when   *)
(* there is none (ECHILD).                                                 *)
Wait ==
    /\ pc \in {"wait", "unheard"}
    /\ child # "running"
    /\ child' = "none"
    /\ sigterm' = FALSE
    /\ pc' = "start"
    /\ UNCHANGED <<userVars, watchVars, base, queueVars, batch, starts>>

-----------------------------------------------------------------------------
(* The kernel queues an event.  A full queue drops it and holds one        *)
(* overflow event instead; an event equal to the last one is merged.       *)
Full == Len(queue) >= MaxQueuedEvents

Queued(f) ==
    CASE Full /\ Overflow \in Range(queue) -> queue
      [] Full /\ Overflow \notin Range(queue) -> Append(queue, Overflow)
      [] ~Full /\ queue # <<>> /\ Last(queue) = f -> queue
      [] OTHER -> Append(queue, f)

(* The user, an editor or a build saves a file.                            *)
Edit(f) ==
    /\ version[f] < MaxEdits
    /\ DirOf[f] \in dirs
    /\ version' = [version EXCEPT ![f] = @ + 1]
    /\ IF DirOf[f] \in watched
       THEN /\ queue' = Queued(f)
            /\ lost' = IF Full THEN lost \union {f} ELSE lost
       ELSE UNCHANGED queueVars
    /\ UNCHANGED <<pc, dirs, watchVars, base, batch, child, sigterm, starts>>

MakeDir(d) ==
    /\ d \notin dirs
    /\ dirs' = dirs \union {d}
    /\ UNCHANGED <<pc, watchVars, version, base, queueVars, batch, child, sigterm, starts>>

(* Nothing more is reported of the directory, nor of one that is made in   *)
(* its place: the watch is that of the inode.  No IN_IGNORED event comes,  *)
(* for cmon never closes the directories it has read.                      *)
RemoveDir(d) ==
    /\ d \in Removable \intersect dirs
    /\ dirs' = dirs \ {d}
    /\ watched' = watched \ {d}
    /\ UNCHANGED <<pc, refused, version, base, queueVars, batch, child, sigterm, starts>>

(* The application ends, by itself or because of SIGTERM.                  *)
ChildExit ==
    /\ child = "running"
    /\ child' = "dead"
    /\ sigterm' = FALSE
    /\ UNCHANGED <<pc, userVars, watchVars, base, queueVars, batch, starts>>

-----------------------------------------------------------------------------
Loop ==
    \/ WalkDone \/ WalkCrashes
    \/ Start \/ StartFails
    \/ Read \/ Skip \/ Restart
    \/ Snapshot \/ SnapshotFails
    \/ Signal \/ SignalNobody \/ Wait

Reach(d) == AddWatch(d) \/ RefuseWatch(d)

Cmon == (\E d \in Dirs : Reach(d)) \/ Loop

Environment ==
    \/ \E f \in Files : Edit(f)
    \/ \E d \in Dirs : MakeDir(d)
    \/ \E d \in Dirs : RemoveDir(d)
    \/ ChildExit

Next == Cmon \/ Environment

Spec == Init /\ [][Next]_vars

(* cmon is one thread that the scheduler keeps running, its walk comes to  *)
(* every directory or crashes, whatever the user makes and removes         *)
(* meanwhile (WalkEnds of DirWalk), and an application that was sent       *)
(* SIGTERM ends: the default disposition.  Nothing makes the user edit, or *)
(* the application exit on its own.                                        *)
Fairness ==
    /\ WF_vars(Loop)
    /\ WF_vars(\E d \in ToWatch \ refused : Reach(d))
    /\ WF_vars(sigterm /\ ChildExit)

FairSpec == Spec /\ Fairness

-----------------------------------------------------------------------------
TypeOK ==
    /\ pc \in {"walk", "crashed", "start", "poll", "dispatch", "snapshot",
               "signal", "wait", "unheard", "hung"}
    /\ dirs \subseteq Dirs
    /\ watched \subseteq Dirs /\ refused \subseteq Dirs
    /\ version \in [Files -> Nat]
    /\ base \in [Files -> Nat]
    /\ queue \in Seq(Events)
    /\ batch \in Seq(Events)
    /\ child \in {"none", "running", "dead"}
    /\ sigterm \in BOOLEAN
    /\ lost \subseteq Files
    /\ starts \in Nat

Holds(s, f) == \E i \in DOMAIN s : s[i] = f

(* cmon is past an event that triggers and has not started the application *)
(* again.                                                                  *)
Restarting == pc \in {"snapshot", "signal", "wait", "unheard", "start", "hung"}

Stale(f) == version[f] # base[f]

(* Its directory has no watch: the kernel refused it, and cmon went on.    *)
Unseen(f) == DirOf[f] \in refused

(* An edit that the running application does not have is on its way: its   *)
(* event is queued or read, or cmon is about to start the application.     *)
(* The exceptions are a directory whose watch was refused, an event the    *)
(* kernel dropped, a failed fork, and a walk that never came to a start.   *)
(* (inotify.c 52-94: an edit may fall between any two steps of a restart.) *)
NoEditForgotten ==
    \A f \in Relevant :
        Stale(f) /\ ~Unseen(f) =>
            \/ pc = "walk" \/ Restarting
            \/ Holds(queue, f) \/ Holds(batch, f)
            \/ f \in lost \/ child = "none"

(* What the user can see: when cmon sleeps in poll() with nothing queued,  *)
(* the application that runs (or ran) has every relevant edit, but for     *)
(* events the kernel dropped and directories whose watch it refused.       *)
(* (main.c 53-62, inotify.c 36-49 and 52-94.)                              *)
QuiescentFresh ==
    pc = "poll" /\ queue = <<>> /\ child # "none" =>
        \A f \in Relevant \ lost : Unseen(f) \/ ~Stale(f)

(* cmon never restarts on its own account: each start after the first      *)
(* answers an edit of a file that triggers, and none is answered twice.    *)
(* (The kernel merges events, the loop handles each one once.)             *)
Triggering(s) == Cardinality({i \in DOMAIN s : Triggers(s[i])})

EditsMade == {e \in Files \X (1..MaxEdits) : Triggers(e[1]) /\ e[2] <= version[e[1]]}

RestartsJustified ==
    starts + Triggering(queue) + Triggering(batch)
           + (IF Restarting \/ pc = "walk" THEN 1 ELSE 0)
        <= 1 + Cardinality(EditsMade)

(* What the two rest on: once the walk is over every directory to watch is *)
(* watched or was refused, cmon starts an application only with none there,*)
(* it sleeps only with an empty batch, and no application has an edit of   *)
(* the future.                                                             *)
Covered     == pc \notin {"walk", "crashed"} => ToWatch \subseteq watched \union refused
DownAtStart == pc \in {"walk", "crashed", "start"} => child = "none"
BatchInHand == /\ pc \in {"walk", "crashed", "poll"} => batch = <<>>
               /\ pc = "dispatch" => batch # <<>>
BaseBehind  == \A f \in Files : base[f] <= version[f]

IInv == /\ TypeOK
        /\ Covered
        /\ DownAtStart
        /\ BatchInHand
        /\ BaseBehind
        /\ NoEditForgotten

(* The promise of LiveReload, of the files in Relevant.                    *)
Live == INSTANCE LiveReload WITH
    Files <- Relevant,
    dirty <- {f \in Relevant : Stale(f)},
    app   <- CASE child = "running" -> "up"
               [] child = "dead"    -> "exited"
               [] child = "none"    -> "stopped"

(* Every step of cmon, of the user and of the application is a step of     *)
(* LiveReload or none: cmon starts an application only when it is certain  *)
(* that the last one is gone, and with every edit so far.  (The order kill,*)
(* waitpid, fork in inotify.c 80-89.)                                      *)
OneFreshInstance == Live!Spec

(* An edit is answered in the end: every file whose edit the application   *)
(* lacks is started with.  The exceptions: the kernel dropped its event or *)
(* refused its directory a watch; the walk crashed; pstree could not be    *)
(* forked; it listed more pids than the array takes, so that cmon waits    *)
(* for an application nobody told to end; or the fork of the application   *)
(* failed and nothing is edited after that.  (main.c 53-65, inotify.c      *)
(* 36-49, 52-94 and 104-107.)                                              *)
Unanswerable(f) ==
    \/ f \in lost
    \/ pc # "walk" /\ Unseen(f)
    \/ pc \in {"crashed", "hung"}
    \/ pc = "unheard" /\ child = "running"
    \/ pc = "poll" /\ child = "none"

EditsAnswered == \A f \in Relevant : Stale(f) ~> ~Stale(f) \/ Unanswerable(f)

=============================================================================
