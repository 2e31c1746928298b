---------------------------- MODULE ProxyAccept ----------------------------
(***************************************************************************)
(* The proxy as it is started: c_proxy_start() accepts clients and makes a *)
(* thread for each, c_proxy_communication_manager(), which connects to the *)
(* server and waits for the header of its client; the first header that is *)
(* received ends the process (the next state calls exit()).                *)
(*                                                                         *)
(* No accepted connection is ever closed, so a descriptor is written as    *)
(* the client it belongs to, and a thread as the client it was made for.   *)
(* What a client sends is counted in units: the first are its header, with *)
(* the blank line in the last of them.                                     *)
(***************************************************************************)
EXTENDS SequencesExt, Naturals, FiniteSets

CONSTANTS
    Clients,    \* the connections that are made to the proxy
    NoFd,       \* -1
    Heads,      \* the [client -> units of its header] there may be
    SendLen,    \* units that a client sends in all
    Capacity,   \* units in the 500 bytes of a new buffer
    PeekSpace,  \* HTTP_MAX_HEADDER_SIZE
    MaxFds,     \* descriptors there are for connections
    MaxBuffers, \* buffers malloc() can give
    Faults      \* "bind" (the port is taken), "length" (the stack holds a
                \* negative client_addr_len), "thread" (pthread_create fails),
                \* "short" (a unit may have fewer bytes than the blank line)

ASSUME ProxyAssumption ==
    /\ NoFd \notin Clients
    /\ Heads \subseteq [Clients -> Nat \ {0}]
    /\ {SendLen, Capacity, PeekSpace, MaxFds, MaxBuffers} \subseteq Nat

VARIABLES
    pc,         \* main: "start", "loop", "accept" (waits in the call), "failed";
                \* the process: "exited", "undefined"
    rc,         \* of c_proxy_start(), which every thread has a pointer to
    measured,   \* is client_addr_len not negative?
    backlog,    \* connections not yet accepted
    accepted,   \* those accepted, in order
    thread,     \* [client -> where the thread made for it is]
    fd,         \* [client -> client_fd of that thread]
    connected,  \* the threads with a connection to the server
    up,         \* does the server listen?
    head,       \* [client -> units of its header]
    sent,       \* [client -> units it has sent]
    taken,      \* [client -> units recv() has taken from its connection]
    from,       \* [thread -> how many were taken before the header it has]
    ended,      \* clients that have closed
    buffers     \* buffers malloc() can still give

mainVars == <<pc, rc, measured, backlog, accepted>>
netVars  == <<up, head, sent, ended>>
vars == <<mainVars, thread, fd, connected, netVars, taken, from, buffers>>

Alive == pc \in {"loop", "accept"}

(* Descriptors in use: every client, the sockets of the threads, and the   *)
(* one that a waiting accept() has set aside.                              *)
Used == Len(accepted) + Cardinality(connected)
          + Cardinality({t \in Clients : thread[t] = "connect"})
          + (IF pc = "accept" THEN 1 ELSE 0)

Init ==
    /\ pc = "start"
    /\ rc = NoFd
    /\ measured \in (IF "length" \in Faults THEN BOOLEAN ELSE {TRUE})
    /\ backlog = <<>> /\ accepted = <<>>
    /\ thread = [c \in Clients |-> "none"]
    /\ fd = [c \in Clients |-> NoFd]
    /\ connected = {} /\ up = FALSE /\ ended = {}
    /\ head \in Heads
    /\ sent = [c \in Clients |-> 0] /\ taken = [c \in Clients |-> 0]
    /\ from = [c \in Clients |-> 0]
    /\ buffers = MaxBuffers

-----------------------------------------------------------------------------
(* c_sockets_get_listening_socket(): socket, bind, listen.                 *)
Listen ==
    /\ pc = "start"
    /\ \/ pc' = "loop"
       \/ "bind" \in Faults /\ pc' = "failed"
    /\ UNCHANGED <<rc, measured, backlog, accepted, thread, fd, connected,
                   netVars, taken, from, buffers>>

\* Mutant of EnterAccept: main waits for the thread it has made (pthread_join).
EnterAcceptJoins ==
    /\ pc = "loop"
    /\ \A t \in Clients : thread[t] = "none"
    /\ IF Used < MaxFds THEN pc' = "accept" /\ UNCHANGED rc
       ELSE rc' = NoFd /\ UNCHANGED pc
    /\ UNCHANGED <<measured, backlog, accepted, thread, fd, connected,
                   netVars, taken, from, buffers>>

(* accept() takes a descriptor before it waits, or fails at once.          *)
EnterAccept ==
    /\ pc = "loop"
    /\ IF Used < MaxFds THEN pc' = "accept" /\ UNCHANGED rc
       ELSE rc' = NoFd /\ UNCHANGED pc
    /\ UNCHANGED <<measured, backlog, accepted, thread, fd, connected,
                   netVars, taken, from, buffers>>

\* Mutant of Accept: the thread is made before rc is assigned.
AcceptLate ==
    LET c == Head(backlog)
    IN /\ pc = "accept" /\ backlog # <<>>
       /\ pc' = "loop"
       /\ backlog' = Tail(backlog)
       /\ rc' = IF accepted = <<>> THEN NoFd ELSE Last(accepted)
       /\ accepted' = Append(accepted, c)
       /\ thread' = [thread EXCEPT ![c] = "new"]
       /\ UNCHANGED <<measured, fd, connected, netVars, taken, from, buffers>>

(* accept() returns and rc is assigned.  With a negative client_addr_len   *)
(* the connection is dropped, and the length stays what it is.             *)
Accept ==
    LET c == Head(backlog)
    IN /\ pc = "accept" /\ backlog # <<>>
       /\ pc' = "loop"
       /\ backlog' = Tail(backlog)
       /\ IF measured
          THEN /\ rc' = c
               /\ accepted' = Append(accepted, c)
               /\ \/ thread' = [thread EXCEPT ![c] = "new"]
                  \/ "thread" \in Faults /\ UNCHANGED thread
          ELSE rc' = NoFd /\ UNCHANGED <<accepted, thread>>
       /\ UNCHANGED <<measured, fd, connected, netVars, taken, from, buffers>>

-----------------------------------------------------------------------------
(* A thread goes from one place to another.                                *)
Go(t, a, b) ==
    /\ Alive
    /\ thread[t] = a
    /\ thread' = [thread EXCEPT ![t] = b]

(* client_fd = *(int * )fd: whatever rc is by now.                         *)
ReadFd(t) ==
    /\ Go(t, "new", "socket")
    /\ fd' = [fd EXCEPT ![t] = rc]
    /\ UNCHANGED <<mainVars, connected, netVars, taken, from, buffers>>

(* _try_connect(): a socket, or the thread goes on without a server.       *)
Socket(t) ==
    /\ Go(t, "socket", IF Used < MaxFds THEN "connect" ELSE "peek")
    /\ UNCHANGED <<mainVars, fd, connected, netVars, taken, from, buffers>>

(* connect(), or close() and try again.                                    *)
Connect(t) ==
    /\ up
    /\ Go(t, "connect", "peek")
    /\ connected' = connected \union {t}
    /\ UNCHANGED <<mainVars, fd, netVars, taken, from, buffers>>

Refused(t) ==
    /\ ~up
    /\ Go(t, "connect", "socket")
    /\ UNCHANGED <<mainVars, fd, connected, netVars, taken, from, buffers>>

-----------------------------------------------------------------------------
(* A turn of the state WAITING_HEADER begins with a new buffer.  A turn    *)
(* that fails loses it and is followed by the next; once malloc() gives no *)
(* more, every turn fails.                                                 *)
NewBuffer(t) ==
    /\ buffers > 0 /\ buffers' = buffers - 1
    /\ Go(t, "peek", "look")
    /\ UNCHANGED <<mainVars, fd, connected, netVars, taken, from>>

Unread(c) == sent[c] - taken[c]

Readable(c) == Unread(c) > 0 \/ c \in ended

(* The blank line is in what recv() can peek at.                           *)
Found(c) == taken[c] < head[c] /\ head[c] <= sent[c]
              /\ head[c] - taken[c] <= PeekSpace

\* Mutant of TurnFails: what is peeked at is taken (no MSG_PEEK).
TurnFailsTaking(t) ==
    /\ Go(t, "look", "peek")
    /\ fd[t] # NoFd => Readable(fd[t]) /\ ~Found(fd[t])
    /\ taken' = IF fd[t] = NoFd THEN taken ELSE [taken EXCEPT ![fd[t]] = sent[fd[t]]]
    /\ UNCHANGED <<mainVars, fd, connected, netVars, from, buffers>>

(* It waits until there is something to look at.  No descriptor, a closed  *)
(* connection, or no blank line in what is there.                          *)
TurnFails(t) ==
    /\ Go(t, "look", "peek")
    /\ fd[t] # NoFd => Readable(fd[t]) /\ ~Found(fd[t])
    /\ UNCHANGED <<mainVars, fd, connected, netVars, taken, from, buffers>>

(* The blank line is found and the buffer is large enough.                 *)
Peek(t) ==
    /\ fd[t] # NoFd /\ Found(fd[t])
    /\ head[fd[t]] - taken[fd[t]] <= Capacity
    /\ Go(t, "look", "recv")
    /\ UNCHANGED <<mainVars, fd, connected, netVars, taken, from, buffers>>

(* Undefined: c_u_buffer_set_capacity() frees twice, or the search runs    *)
(* beyond a text that is shorter than its pattern.                         *)
Misuse(t) ==
    /\ Alive /\ thread[t] = "look" /\ fd[t] # NoFd
    /\ \/ Found(fd[t]) /\ head[fd[t]] - taken[fd[t]] > Capacity
       \/ "short" \in Faults /\ Unread(fd[t]) = 1
    /\ pc' = "undefined"
    /\ UNCHANGED <<rc, measured, backlog, accepted, thread, fd, connected,
                   netVars, taken, from, buffers>>

\* Mutant of Recv: the state stays WAITING_HEADER.
RecvStays(t) ==
    LET c == fd[t]
        n == IF head[c] <= Unread(c) THEN head[c] ELSE Unread(c)
    IN /\ thread[t] = "recv" /\ Readable(c)
       /\ Go(t, "recv", "peek")
       /\ taken' = [taken EXCEPT ![c] = @ + n]
       /\ from' = [from EXCEPT ![t] = taken[c]]
       /\ UNCHANGED <<mainVars, fd, connected, netVars, buffers>>

(* recv() takes as many units as the header had, or what is left when      *)
(* another thread on the same connection was there first.                  *)
Recv(t) ==
    LET c == fd[t]
        n == IF head[c] <= Unread(c) THEN head[c] ELSE Unread(c)
    IN /\ thread[t] = "recv" /\ Readable(c)
       /\ Go(t, "recv", IF n = head[c] THEN "done" ELSE "peek")
       /\ taken' = [taken EXCEPT ![c] = @ + n]
       /\ from' = [from EXCEPT ![t] = taken[c]]
       /\ UNCHANGED <<mainVars, fd, connected, netVars, buffers>>

(* PROCESING_HEADER: exit(0).                                              *)
ExitProcess(t) ==
    /\ Alive /\ thread[t] = "done"
    /\ pc' = "exited"
    /\ UNCHANGED <<rc, measured, backlog, accepted, thread, fd, connected,
                   netVars, taken, from, buffers>>

-----------------------------------------------------------------------------
(* listen(fd, 0) leaves room for one connection.                           *)
Arrive(c) ==
    /\ Alive
    /\ c \notin Range(backlog) \union Range(accepted)
    /\ sent[c] = 0 /\ backlog = <<>>
    /\ backlog' = <<c>>
    /\ UNCHANGED <<pc, rc, measured, accepted, thread, fd, connected, netVars,
                   taken, from, buffers>>

Send(c) ==
    /\ Alive
    /\ c \in Range(backlog) \union Range(accepted) /\ c \notin ended
    /\ sent[c] < SendLen
    /\ sent' = [sent EXCEPT ![c] = @ + 1]
    /\ UNCHANGED <<mainVars, thread, fd, connected, up, head, ended, taken, from, buffers>>

End(c) ==
    /\ Alive
    /\ c \in Range(backlog) \union Range(accepted) /\ c \notin ended
    /\ ended' = ended \union {c}
    /\ UNCHANGED <<mainVars, thread, fd, connected, up, head, sent, taken, from, buffers>>

(* cmon starts the server again with each edit.                            *)
ServerSwitches ==
    /\ Alive
    /\ up' = ~up
    /\ UNCHANGED <<mainVars, thread, fd, connected, head, sent, ended, taken, from, buffers>>

Main == Listen \/ EnterAccept \/ Accept

Manager(t) ==
    \/ ReadFd(t) \/ Socket(t) \/ Connect(t) \/ Refused(t)
    \/ NewBuffer(t) \/ TurnFails(t) \/ Peek(t) \/ Misuse(t) \/ Recv(t) \/ ExitProcess(t)

Next ==
    \/ Main
    \/ \E t \in Clients : Manager(t)
    \/ \E c \in Clients : Arrive(c) \/ Send(c) \/ End(c)
    \/ ServerSwitches

Spec == Init /\ [][Next]_vars

(* The scheduler runs every thread.  Nothing makes a client come or send.  *)
FairSpec == Spec /\ WF_vars(Main) /\ \A t \in Clients : WF_vars(Manager(t))

-----------------------------------------------------------------------------
TypeOK ==
    /\ pc \in {"start", "loop", "accept", "failed", "exited", "undefined"}
    /\ rc \in Clients \union {NoFd} /\ measured \in BOOLEAN /\ up \in BOOLEAN
    /\ backlog \in Seq(Clients) /\ accepted \in Seq(Clients)
    /\ thread \in [Clients -> {"none", "new", "socket", "connect", "peek", "look",
                             "recv", "done"}]
    /\ fd \in [Clients -> Clients \union {NoFd}]
    /\ connected \subseteq Clients /\ ended \subseteq Clients
    /\ head \in Heads
    /\ sent \in [Clients -> Nat] /\ taken \in [Clients -> Nat] /\ from \in [Clients -> Nat]
    /\ buffers \in Nat

(* The client c was accepted when the thread t was made, or later.         *)
NotBefore(t, c) ==
    \E j \in DOMAIN accepted : /\ accepted[j] = c
                               /\ \E i \in 1..j : accepted[i] = t

Started(t) == thread[t] \notin {"none", "new"}

(* What a thread may find behind its pointer: not the client it was made   *)
(* for, but never one that was accepted before; and its own as long as     *)
(* that one is the last.  (cmon_proxy.c 298-302 against 264.)              *)
ServesInOrder ==
    \A t \in Clients : Started(t) =>
        /\ fd[t] # NoFd => NotBefore(t, fd[t])
        /\ rc = t => fd[t] = t

(* A header is received from a connection, and nothing that was not sent.  *)
OnlyWhatIsSent ==
    /\ \A t \in Clients : thread[t] \in {"recv", "done"} => fd[t] # NoFd
    /\ \A c \in Clients : taken[c] <= sent[c]

(* Looking at a header takes nothing of it, whatever has arrived, and a    *)
(* thread that no other shares its client with takes all of it at once:    *)
(* what it has is the header.  (cmon_http.c 148-166: peek, then receive.)  *)
Sharing(c) == {t \in Clients : Started(t) /\ fd[t] = c}

TakesWholeHeaders ==
    \A c \in Clients :
        /\ taken[c] = 0 \/ taken[c] >= head[c]
        /\ \A t \in Sharing(c) : thread[t] = "done" /\ Sharing(c) = {t} =>
              from[t] = 0 /\ taken[c] = head[c]

(* A thread that is yet to read finds none that was accepted before it.    *)
OrderInv ==
    /\ TypeOK
    /\ Len(backlog) <= 1 /\ Range(backlog) \intersect Range(accepted) = {}
    /\ rc # NoFd => accepted # <<>> /\ rc = Last(accepted)
    /\ \A t \in Clients : thread[t] # "none" => t \in Range(accepted)
    /\ OnlyWhatIsSent
    /\ ServesInOrder

(* The header that a thread has seen is still all there when it receives   *)
(* it, and a connection that no thread, or one not done, has was not taken *)
(* from.                                                                   *)
HeadInv ==
    /\ \A t \in Clients : thread[t] = "recv" => head[fd[t]] <= sent[fd[t]]
    /\ \A c \in Clients : Sharing(c) = {} => taken[c] = 0
    /\ \A c, t \in Clients : Sharing(c) = {t} /\ thread[t] # "done" => taken[c] = 0

IInv == OrderInv /\ TakesWholeHeaders /\ HeadInv

(* A client that waits is accepted or dropped, unless there is a time when *)
(* accept() is called and all descriptors are in use: none is given back.  *)
(* (cmon_proxy.c 297-304.)                                                 *)
Admitted == backlog # <<>> ~> backlog = <<>> \/ ~Alive \/ (pc = "loop" /\ Used >= MaxFds)

(* A whole header that a thread waits for is taken, and ends the process,  *)
(* once the server stays up: unless the turns until then have used all the *)
(* memory, or it is longer than what can be peeked at.  (Of a header that  *)
(* the new buffer has no room for nothing more is promised than that it is *)
(* come to.  cmon_proxy.c 270-279, cmon_sockets.c 71-87.)                  *)
NoneReceives ==
    \A t \in Clients : /\ thread[t] \notin {"recv", "done"}
                       /\ thread[t] = "look" /\ fd[t] # NoFd => ~Found(fd[t])

HeaderHandled ==
    <>[]up => ((\E c \in Range(fd) \ {NoFd} : sent[c] >= head[c] /\ head[c] <= PeekSpace)
                  ~> ~Alive \/ (buffers = 0 /\ NoneReceives))

=============================================================================
