------------------------- MODULE ProxyAcceptProofs -------------------------
(***************************************************************************)
(* For any number of clients, descriptors and buffers: a thread of the     *)
(* proxy serves its own client or one that was accepted later, and one     *)
(* that shares its connection with no other takes its headers whole.       *)
(***************************************************************************)
EXTENDS ProxyAccept, TLAPS

(* What accept() adds to the accepted clients, and what it keeps.          *)
LEMMA AppendRange ==
    ASSUME NEW s \in Seq(Clients), NEW c \in Clients
    PROVE  /\ Append(s, c) \in Seq(Clients) /\ Append(s, c) # <<>>
           /\ Last(Append(s, c)) = c
           /\ Range(Append(s, c)) = Range(s) \union {c}
           /\ \A i \in DOMAIN s : i \in DOMAIN Append(s, c) /\ Append(s, c)[i] = s[i]
<1>1. /\ Append(s, c) \in Seq(Clients) /\ Len(Append(s, c)) = Len(s) + 1
      /\ Append(s, c)[Len(s) + 1] = c
      /\ \A i \in 1..Len(s) : Append(s, c)[i] = s[i]
  OBVIOUS
<1>2. Last(Append(s, c)) = c
  BY <1>1 DEF Last
<1>3. Range(Append(s, c)) = Range(s) \union {c}
  <2>1. DOMAIN Append(s, c) = DOMAIN s \union {Len(s) + 1}
    BY <1>1
  <2>2. QED
    BY <1>1, <2>1 DEF Range
<1>4. QED
  BY <1>1, <1>2, <1>3

(* The connection at the head of the backlog is the only one there.        *)
LEMMA OneWaits ==
    ASSUME NEW s \in Seq(Clients), Len(s) <= 1, s # <<>>
    PROVE  /\ Head(s) \in Clients /\ Range(s) = {Head(s)}
           /\ Tail(s) = <<>> /\ Range(Tail(s)) = {}
BY DEF Range

(* The last accepted client was not accepted before any other.             *)
LEMMA LastIsLatest ==
    ASSUME accepted \in Seq(Clients), accepted # <<>>, NEW t \in Range(accepted)
    PROVE  NotBefore(t, Last(accepted))
<1>1. PICK i \in 1..Len(accepted) : accepted[i] = t
  BY DEF Range
<1>2. Len(accepted) \in DOMAIN accepted /\ i \in 1..Len(accepted)
  BY <1>1
<1>3. QED
  BY <1>1, <1>2 DEF NotBefore, Last

(* Nothing waits and nothing is accepted before main() listens.            *)
LEMMA InitOrder == Init => OrderInv
<1> SUFFICES ASSUME Init PROVE OrderInv
  OBVIOUS
<1>1. TypeOK
  <2>1. MaxBuffers \in Nat /\ <<>> \in Seq(Clients)
    BY ProxyAssumption
  <2>2. measured \in BOOLEAN
    BY DEF Init
  <2>3. QED
    BY <2>1, <2>2 DEF Init, TypeOK
<1>2. Range(backlog) = {} /\ Len(backlog) = 0
  BY DEF Init, Range
<1>3. QED
  BY <1>1, <1>2 DEF Init, OrderInv, ServesInOrder, Started, OnlyWhatIsSent

(* A step that changes nothing of the accept loop and of what the threads  *)
(* have read keeps the invariant.                                          *)
LEMMA Elsewhere ==
    ASSUME OrderInv, TypeOK', UNCHANGED <<rc, backlog, accepted, fd>>,
           OnlyWhatIsSent',
           \A t \in Clients : /\ thread'[t] # "none" => thread[t] # "none"
                              /\ Started(t)' => Started(t)
    PROVE  OrderInv'
BY DEF OrderInv, ServesInOrder, NotBefore

(* A thread that goes on from a place beyond its first.                    *)
LEMMA GoKeeps ==
    ASSUME OrderInv, NEW t \in Clients,
           NEW a \in {"socket", "connect", "peek", "look", "recv", "done"},
           NEW b \in {"socket", "connect", "peek", "look", "recv", "done"},
           Go(t, a, b)
    PROVE  /\ thread' \in [Clients -> {"none", "new", "socket", "connect", "peek", "look",
                                       "recv", "done"}]
           /\ \A u \in Clients : /\ thread'[u] # "none" => thread[u] # "none"
                                 /\ Started(u)' => Started(u)
BY DEF Go, OrderInv, TypeOK, Started

(* Recv takes at most what was sent and is unread, and needs a descriptor, *)
(* which Peek has seen.                                                    *)
LEMMA RecvTakes ==
    ASSUME OrderInv, NEW t \in Clients, Recv(t)
    PROVE  /\ taken' \in [Clients -> Nat] /\ from' \in [Clients -> Nat]
           /\ \A c \in Clients : taken'[c] <= sent'[c]
           /\ fd[t] # NoFd
<1> DEFINE c == fd[t]
           n == IF head[c] <= Unread(c) THEN head[c] ELSE Unread(c)
<1>1. TypeOK /\ c \in Clients /\ c # NoFd
  BY DEF Recv, Go, OrderInv, TypeOK, OnlyWhatIsSent
<1>2. n \in Nat /\ n <= sent[c] - taken[c]
  <2>1. head[c] \in Nat /\ sent[c] \in Nat /\ taken[c] \in Nat
    BY <1>1, ProxyAssumption DEF TypeOK
  <2>2. taken[c] <= sent[c]
    BY <1>1 DEF OrderInv, OnlyWhatIsSent
  <2>3. QED
    BY <2>1, <2>2 DEF Unread
<1>3. taken' = [taken EXCEPT ![c] = @ + n] /\ from' = [from EXCEPT ![t] = taken[c]]
      /\ sent' = sent
  BY DEF Recv, netVars
<1>4. taken \in [Clients -> Nat] /\ from \in [Clients -> Nat] /\ sent \in [Clients -> Nat]
  BY <1>1 DEF TypeOK
<1>5. \A d \in Clients : taken[d] <= sent[d]
  BY DEF OrderInv, OnlyWhatIsSent
<1>6. fd[t] # NoFd
  BY <1>1
<1> HIDE DEF c, n
<1>7. taken' \in [Clients -> Nat] /\ from' \in [Clients -> Nat]
  BY <1>1, <1>2, <1>3, <1>4
<1>8. ASSUME NEW d \in Clients PROVE taken'[d] <= sent'[d]
  <2>1. taken[d] \in Nat /\ sent[d] \in Nat /\ taken[c] \in Nat /\ sent[c] \in Nat
    BY <1>1, <1>4
  <2>2. taken[d] <= sent[d]
    BY <1>5
  <2>3. taken'[d] = (IF d = c THEN taken[c] + n ELSE taken[d]) /\ sent'[d] = sent[d]
    BY <1>1, <1>3, <1>4
  <2>4. QED
    BY <1>2, <2>1, <2>2, <2>3
<1>9. QED
  BY <1>6, <1>7, <1>8

(* Only Peek lets a thread receive, only Recv takes, and Send sends more.  *)
LEMMA SentNext == OrderInv /\ [Next]_vars => OnlyWhatIsSent'
<1> SUFFICES ASSUME OrderInv, [Next]_vars PROVE OnlyWhatIsSent'
  OBVIOUS
<1>0. TypeOK /\ OnlyWhatIsSent
  BY DEF OrderInv
<1> USE DEF mainVars, netVars
<1>1. CASE \/ Listen \/ EnterAccept \/ ServerSwitches \/ UNCHANGED vars
           \/ \E t \in Clients : Misuse(t) \/ ExitProcess(t)
           \/ \E c \in Clients : Arrive(c) \/ End(c)
  <2>1. UNCHANGED <<thread, fd, taken, sent>>
    BY <1>1 DEF Listen, EnterAccept, ServerSwitches, vars, Misuse,
                ExitProcess, Arrive, End
  <2>2. QED
    BY <1>0, <2>1 DEF OnlyWhatIsSent
<1>2. CASE Accept
  <2>1. /\ \A t \in Clients : thread'[t] \in {thread[t], "new"}
        /\ UNCHANGED <<fd, taken, sent>>
    BY <1>0, <1>2 DEF Accept, TypeOK
  <2>2. QED
    BY <1>0, <2>1 DEF OnlyWhatIsSent
<1>3. ASSUME NEW t \in Clients,
             ReadFd(t) \/ Socket(t) \/ Connect(t) \/ Refused(t)
                             \/ NewBuffer(t) \/ TurnFails(t) \/ Peek(t)
      PROVE  OnlyWhatIsSent'
  <2>1. /\ thread'[t] \in {"recv", "done"} => fd'[t] # NoFd
        /\ \A u \in Clients \ {t} : thread'[u] = thread[u] /\ fd'[u] = fd[u]
        /\ UNCHANGED <<taken, sent>>
    BY <1>0, <1>3 DEF ReadFd, Socket, Connect, Refused, NewBuffer, TurnFails, Peek, Go, TypeOK
  <2>2. QED
    BY <1>0, <2>1 DEF OnlyWhatIsSent
<1>4. ASSUME NEW t \in Clients, Recv(t)
      PROVE  OnlyWhatIsSent'
  <2>1. /\ \A u \in Clients \ {t} : thread'[u] = thread[u]
        /\ UNCHANGED fd
    BY <1>0, <1>4 DEF Recv, Go, TypeOK
  <2>2. QED
    BY <1>0, <1>4, <2>1, RecvTakes DEF OnlyWhatIsSent
<1>5. ASSUME NEW c \in Clients, Send(c)
      PROVE  OnlyWhatIsSent'
  <2>1. /\ \A d \in Clients : sent'[d] \in Nat /\ sent'[d] >= sent[d]
        /\ UNCHANGED <<thread, fd, taken>>
    BY <1>0, <1>5 DEF Send, TypeOK
  <2>2. QED
    BY <1>0, <2>1 DEF OnlyWhatIsSent, TypeOK
<1>6. QED
  BY <1>1, <1>2, <1>3, <1>4, <1>5 DEF Next, Main, Manager

(* Every step of main, of a thread and of a client keeps the invariant.    *)
LEMMA NextOrder == OrderInv /\ [Next]_vars => OrderInv'
<1> SUFFICES ASSUME OrderInv, [Next]_vars PROVE OrderInv'
  OBVIOUS
<1>0. TypeOK /\ OnlyWhatIsSent'
  BY SentNext DEF OrderInv
<1> USE DEF mainVars, netVars
<1>1. CASE Listen
  <2>1. TypeOK'
    BY <1>0, <1>1 DEF Listen, TypeOK
  <2>2. UNCHANGED <<rc, backlog, accepted, fd, thread>>
    BY <1>1 DEF Listen
  <2>3. QED
    BY <1>0, <2>1, <2>2, Elsewhere DEF Started
<1>2. CASE EnterAccept
  <2>1. TypeOK'
    BY <1>0, <1>2 DEF EnterAccept, TypeOK
  <2>2. rc' \in {rc, NoFd} /\ UNCHANGED <<backlog, accepted, fd, thread>>
    BY <1>2 DEF EnterAccept
  <2>3. QED
    BY <1>0, <2>1, <2>2, ProxyAssumption DEF OrderInv, ServesInOrder, NotBefore, Started
<1>3. CASE Accept
  <2> DEFINE c == Head(backlog)
  <2>1. /\ c \in Clients /\ Range(backlog) = {c}
        /\ backlog' = <<>> /\ Range(backlog') = {}
    BY <1>0, <1>3, OneWaits DEF Accept, OrderInv, TypeOK
  <2>2. c \notin Range(accepted) /\ thread[c] = "none"
    BY <2>1 DEF OrderInv, TypeOK
  <2> HIDE DEF c
  <2>3. CASE measured
    <3>1. /\ rc' = c /\ accepted' = Append(accepted, c)
          /\ thread' = [thread EXCEPT ![c] = "new"] \/ thread' = thread
          /\ UNCHANGED fd
      BY <1>3, <2>3 DEF Accept, c
    <3>2. /\ accepted' \in Seq(Clients) /\ accepted' # <<>> /\ Last(accepted') = c
          /\ Range(accepted') = Range(accepted) \union {c}
          /\ \A i \in DOMAIN accepted : i \in DOMAIN accepted' /\ accepted'[i] = accepted[i]
      BY <1>0, <2>1, <3>1, AppendRange DEF TypeOK
    <3>3. TypeOK'
      <4>1. pc' = "loop" /\ UNCHANGED <<measured, connected, netVars, taken, from, buffers>>
        BY <1>3 DEF Accept
      <4>2. thread' \in [Clients -> {"none", "new", "socket", "connect", "peek", "look",
                                     "recv", "done"}]
        BY <1>0, <3>1 DEF TypeOK
      <4>3. backlog' \in Seq(Clients)
        BY <2>1
      <4>4. QED
        BY <1>0, <2>1, <3>1, <3>2, <4>1, <4>2, <4>3 DEF TypeOK
    <3>4. \A t \in Clients : thread'[t] # "none" => t \in Range(accepted')
      BY <1>0, <3>1, <3>2 DEF OrderInv, TypeOK
    <3>5. ASSUME NEW t \in Clients, Started(t)'
          PROVE  (/\ fd[t] # NoFd => NotBefore(t, fd[t])
                  /\ rc = t => fd[t] = t)'
      <4>1. Started(t) /\ t # c
        BY <1>0, <2>1, <2>2, <3>1, <3>5 DEF Started, TypeOK
      <4>2. /\ fd[t] # NoFd => NotBefore(t, fd[t])
            /\ rc' # t /\ fd' = fd
        BY <3>1, <4>1 DEF OrderInv, ServesInOrder
      <4>3. ASSUME NEW j \in DOMAIN accepted, NEW i \in 1..j
            PROVE  /\ j \in DOMAIN accepted' /\ accepted'[j] = accepted[j]
                   /\ accepted'[i] = accepted[i]
        <5>1. accepted \in Seq(Clients)
          BY <1>0 DEF TypeOK
        <5>2. i \in DOMAIN accepted
          BY <5>1
        <5>3. QED
          BY <3>2, <5>2
      <4>4. ASSUME fd[t] # NoFd
            PROVE  NotBefore(t, fd[t])'
        <5>1. PICK j \in DOMAIN accepted :
                 accepted[j] = fd[t] /\ \E i \in 1..j : accepted[i] = t
          BY <4>2, <4>4 DEF NotBefore
        <5>2. PICK i \in 1..j : accepted[i] = t
          BY <5>1
        <5>3. j \in DOMAIN accepted' /\ accepted'[j] = fd'[t] /\ accepted'[i] = t
          BY <4>2, <4>3, <5>1, <5>2
        <5>4. QED
          BY <5>3 DEF NotBefore
      <4>5. QED
        BY <4>2, <4>4
    <3>6. Len(backlog') <= 1
      BY <2>1
    <3>7. QED
      BY <1>0, <2>1, <3>1, <3>2, <3>3, <3>4, <3>5, <3>6 DEF OrderInv, ServesInOrder
  <2>4. CASE ~measured
    <3>1. rc' = NoFd /\ UNCHANGED <<accepted, thread, fd>>
      BY <1>3, <2>4 DEF Accept
    <3>2. TypeOK'
      <4>1. pc' = "loop" /\ UNCHANGED <<measured, connected, netVars, taken, from, buffers>>
        BY <1>3 DEF Accept
      <4>2. backlog' \in Seq(Clients)
        BY <2>1
      <4>3. QED
        BY <1>0, <3>1, <4>1, <4>2 DEF TypeOK
    <3>3. Len(backlog') <= 1
      BY <2>1
    <3>4. QED
      BY <1>0, <2>1, <3>1, <3>2, <3>3, ProxyAssumption
         DEF OrderInv, ServesInOrder, NotBefore, Started
  <2>5. QED
    BY <2>3, <2>4
<1>4. ASSUME NEW t \in Clients, ReadFd(t)
      PROVE  OrderInv'
  <2>1. /\ thread[t] = "new" /\ thread' = [thread EXCEPT ![t] = "socket"]
        /\ fd' = [fd EXCEPT ![t] = rc]
        /\ UNCHANGED <<rc, backlog, accepted>>
    BY <1>4 DEF ReadFd, Go
  <2>2. TypeOK'
    <3>1. UNCHANGED <<mainVars, connected, netVars, taken, from, buffers>>
      BY <1>4 DEF ReadFd
    <3>2. /\ thread' \in [Clients -> {"none", "new", "socket", "connect", "peek", "look",
                                      "recv", "done"}]
          /\ fd' \in [Clients -> Clients \union {NoFd}]
      BY <1>0, <2>1 DEF TypeOK
    <3>3. QED
      BY <1>0, <3>1, <3>2 DEF TypeOK
  <2>3. rc # NoFd => NotBefore(t, rc)
    BY <1>0, <2>1, LastIsLatest DEF OrderInv, TypeOK
  <2>4. ASSUME NEW u \in Clients, Started(u)'
        PROVE  (/\ fd[u] # NoFd => NotBefore(u, fd[u])
                /\ rc = u => fd[u] = u)'
    <3>1. CASE u = t
      BY <1>0, <2>1, <2>3, <3>1 DEF NotBefore, TypeOK
    <3>2. CASE u # t
      BY <1>0, <2>1, <2>4, <3>2 DEF NotBefore, TypeOK, OrderInv, ServesInOrder, Started
    <3>3. QED
      BY <3>1, <3>2
  <2>5. \A u \in Clients : thread'[u] # "none" => u \in Range(accepted)
    BY <1>0, <2>1 DEF OrderInv, TypeOK
  <2>6. QED
    BY <1>0, <2>1, <2>2, <2>4, <2>5 DEF OrderInv, ServesInOrder
<1>5. ASSUME NEW t \in Clients, Socket(t) \/ Connect(t) \/ Refused(t)
                             \/ NewBuffer(t) \/ TurnFails(t) \/ Peek(t)
      PROVE  OrderInv'
  <2>1. PICK a \in {"socket", "connect", "peek", "look", "recv", "done"},
             b \in {"socket", "connect", "peek", "look", "recv", "done"} : Go(t, a, b)
    BY <1>5 DEF Socket, Connect, Refused, NewBuffer, TurnFails, Peek
  <2>2. TypeOK'
    <3>1. thread' \in [Clients -> {"none", "new", "socket", "connect", "peek", "look",
                                   "recv", "done"}]
      BY <2>1, GoKeeps
    <3>2. CASE Socket(t) \/ Refused(t)
      BY <1>0, <3>1, <3>2 DEF Socket, Refused, TypeOK
    <3>3. CASE Connect(t)
      BY <1>0, <3>1, <3>3 DEF Connect, TypeOK
    <3>4. CASE NewBuffer(t)
      <4>1. buffers' \in Nat
        BY <1>0, <3>4 DEF NewBuffer, TypeOK
      <4>2. QED
        BY <1>0, <3>1, <3>4, <4>1 DEF NewBuffer, TypeOK
    <3>6. CASE TurnFails(t) \/ Peek(t)
      BY <1>0, <3>1, <3>6 DEF TurnFails, Peek, TypeOK
    <3>5. QED
      BY <1>5, <3>2, <3>3, <3>4, <3>6
  <2>3. UNCHANGED <<rc, backlog, accepted, fd>>
    BY <1>5 DEF Socket, Connect, Refused, NewBuffer, TurnFails, Peek
  <2>4. QED
    BY <1>0, <2>1, <2>2, <2>3, GoKeeps, Elsewhere
<1>6. ASSUME NEW t \in Clients, Recv(t)
      PROVE  OrderInv'
  <2>1. PICK b \in {"done", "peek"} : Go(t, "recv", b)
    BY <1>6 DEF Recv
  <2>2. UNCHANGED <<mainVars, fd, connected, netVars, buffers>>
    BY <1>6 DEF Recv
  <2>3. /\ thread' \in [Clients -> {"none", "new", "socket", "connect", "peek", "look",
                                    "recv", "done"}]
        /\ \A u \in Clients : /\ thread'[u] # "none" => thread[u] # "none"
                              /\ Started(u)' => Started(u)
    BY <2>1, GoKeeps
  <2>4. TypeOK'
    <3>1. taken' \in [Clients -> Nat] /\ from' \in [Clients -> Nat]
      BY <1>0, <1>6, RecvTakes
    <3>2. QED
      BY <1>0, <2>2, <2>3, <3>1 DEF TypeOK
  <2>5. QED
    BY <1>0, <2>2, <2>3, <2>4, Elsewhere
<1>7. ASSUME NEW t \in Clients, Misuse(t) \/ ExitProcess(t)
      PROVE  OrderInv'
  <2>1. TypeOK'
    <3>2. CASE Misuse(t)
      BY <1>0, <3>2 DEF Misuse, TypeOK
    <3>3. CASE ExitProcess(t)
      BY <1>0, <3>3 DEF ExitProcess, TypeOK
    <3>4. QED
      BY <1>7, <3>2, <3>3
  <2>2. UNCHANGED <<rc, backlog, accepted, fd, thread>>
    BY <1>7 DEF Misuse, ExitProcess
  <2>3. QED
    BY <1>0, <2>1, <2>2, Elsewhere DEF Started
<1>8. ASSUME NEW c \in Clients, Arrive(c)
      PROVE  OrderInv'
  <2>1. backlog' = <<c>> /\ c \notin Range(accepted)
        /\ UNCHANGED <<rc, accepted, thread, fd>>
    BY <1>8 DEF Arrive
  <2>2. Range(<<c>>) = {c} /\ Len(<<c>>) = 1 /\ <<c>> \in Seq(Clients)
    BY DEF Range
  <2>3. TypeOK'
    <3>1. backlog' \in Seq(Clients)
      BY <2>1, <2>2
    <3>2. UNCHANGED <<pc, measured, connected, netVars, taken, from, buffers>>
      BY <1>8 DEF Arrive
    <3>3. QED
      BY <1>0, <2>1, <3>1, <3>2 DEF TypeOK
  <2>4. Range(backlog') = {c} /\ Len(backlog') <= 1
    BY <2>1, <2>2
  <2>5. QED
    BY <1>0, <2>1, <2>3, <2>4 DEF OrderInv, ServesInOrder, NotBefore, Started
<1>9. ASSUME NEW c \in Clients, Send(c) \/ End(c)
      PROVE  OrderInv'
  <2>1. TypeOK'
    <3>1. CASE Send(c)
      BY <1>0, <3>1 DEF Send, TypeOK
    <3>2. CASE End(c)
      BY <1>0, <3>2 DEF End, TypeOK
    <3>3. QED
      BY <1>9, <3>1, <3>2
  <2>2. UNCHANGED <<rc, backlog, accepted, fd, thread>>
    BY <1>9 DEF Send, End
  <2>3. QED
    BY <1>0, <2>1, <2>2, Elsewhere DEF Started
<1>10. CASE ServerSwitches
  <2>1. TypeOK'
    BY <1>0, <1>10 DEF ServerSwitches, TypeOK
  <2>2. UNCHANGED <<rc, backlog, accepted, fd, thread>>
    BY <1>10 DEF ServerSwitches
  <2>3. QED
    BY <1>0, <2>1, <2>2, Elsewhere DEF Started
<1>11. CASE UNCHANGED vars
  <2>1. TypeOK'
    BY <1>0, <1>11 DEF vars, TypeOK
  <2>2. QED
    BY <1>0, <1>11, <2>1, Elsewhere DEF vars, Started
<1>12. QED
  BY <1>1, <1>2, <1>3, <1>4, <1>5, <1>6, <1>7, <1>8, <1>9, <1>10, <1>11
     DEF Next, Main, Manager

-----------------------------------------------------------------------------
(* No client has sent, and no thread has started, before main() listens.   *)
LEMMA InitHeads == Init => TakesWholeHeaders /\ HeadInv
BY DEF Init, TakesWholeHeaders, HeadInv, Sharing, Started

(* A step that leaves the descriptors, what was taken and which threads    *)
(* are done as they are keeps the headers whole; more may be sent.         *)
LEMMA HeadsAside ==
    ASSUME TypeOK, TakesWholeHeaders, HeadInv, UNCHANGED <<fd, head, taken, from>>,
           OnlyWhatIsSent',
           \A c \in Clients : sent'[c] \in Nat /\ sent[c] <= sent'[c],
           \A t \in Clients : /\ Started(t)' <=> Started(t)
                              /\ thread'[t] = "done" <=> thread[t] = "done"
                              /\ thread'[t] = "recv" =>
                                    thread[t] = "recv" \/ head[fd[t]] <= sent[fd[t]]
    PROVE  (TakesWholeHeaders /\ HeadInv)'
<1>1. \A c \in Clients : Sharing(c)' = Sharing(c)
  BY DEF Sharing
<1>2. TakesWholeHeaders'
  BY <1>1 DEF TakesWholeHeaders, Sharing
<1>3. ASSUME NEW t \in Clients, thread'[t] = "recv"
      PROVE  head'[fd'[t]] <= sent'[fd'[t]]
  <2>1. head[fd[t]] <= sent[fd[t]]
    BY <1>3 DEF HeadInv
  <2>2. fd[t] \in Clients
    BY <1>3 DEF OnlyWhatIsSent, TypeOK
  <2>3. head[fd[t]] \in Nat /\ sent[fd[t]] \in Nat
    BY <2>2, ProxyAssumption DEF TypeOK
  <2>4. QED
    BY <2>1, <2>2, <2>3
<1>4. QED
  BY <1>1, <1>2, <1>3 DEF HeadInv

(* Peeking leaves a header where it is, and one thread receives it whole:  *)
(* every step keeps it so.                                                 *)
LEMMA NextHeads ==
    OrderInv /\ TakesWholeHeaders /\ HeadInv /\ [Next]_vars =>
        (TakesWholeHeaders /\ HeadInv)'
<1> SUFFICES ASSUME OrderInv, TakesWholeHeaders, HeadInv, [Next]_vars
             PROVE  (TakesWholeHeaders /\ HeadInv)'
  OBVIOUS
<1>0. TypeOK /\ OrderInv' /\ OnlyWhatIsSent'
  BY NextOrder, SentNext DEF OrderInv
<1>00. \A c \in Clients : sent[c] \in Nat /\ taken[c] \in Nat /\ head[c] \in Nat \ {0}
                            /\ taken[c] <= sent[c]
  BY <1>0, ProxyAssumption DEF TypeOK, OrderInv, OnlyWhatIsSent
<1> USE DEF mainVars, netVars
<1>1. CASE \/ Listen \/ EnterAccept \/ ServerSwitches \/ UNCHANGED vars
           \/ \E t \in Clients : Misuse(t) \/ ExitProcess(t)
           \/ \E c \in Clients : Arrive(c) \/ End(c)
  <2>1. UNCHANGED <<thread, fd, head, sent, taken, from>>
    BY <1>1 DEF Listen, EnterAccept, ServerSwitches, vars, Misuse,
                ExitProcess, Arrive, End
  <2>2. QED
    BY <1>0, <1>00, <2>1, HeadsAside DEF Started
<1>2. ASSUME NEW c \in Clients, Send(c)
      PROVE  (TakesWholeHeaders /\ HeadInv)'
  <2>1. /\ UNCHANGED <<thread, fd, head, taken, from>>
        /\ \A d \in Clients : sent'[d] \in Nat /\ sent[d] <= sent'[d]
    BY <1>0, <1>00, <1>2 DEF Send, TypeOK
  <2>2. QED
    BY <1>0, <2>1, HeadsAside DEF Started
<1>3. CASE Accept
  <2>1. \A t \in Clients : thread'[t] = thread[t] \/ (thread[t] = "none" /\ thread'[t] = "new")
    <3> DEFINE c == Head(backlog)
    <3>1. c \in Clients /\ Range(backlog) = {c}
      BY <1>0, <1>3, OneWaits DEF Accept, OrderInv, TypeOK
    <3>2. thread[c] = "none"
      BY <3>1 DEF OrderInv, TypeOK
    <3>3. thread' \in {thread, [thread EXCEPT ![c] = "new"]}
      BY <1>3 DEF Accept
    <3> HIDE DEF c
    <3>4. QED
      BY <1>0, <3>1, <3>2, <3>3 DEF TypeOK
  <2>2. UNCHANGED <<fd, head, sent, taken, from>>
    BY <1>3 DEF Accept
  <2>3. QED
    BY <1>0, <1>00, <2>1, <2>2, HeadsAside DEF Started
<1>4. ASSUME NEW t \in Clients, Socket(t) \/ Connect(t) \/ Refused(t)
                             \/ NewBuffer(t) \/ TurnFails(t) \/ Peek(t)
      PROVE  (TakesWholeHeaders /\ HeadInv)'
  <2>1. UNCHANGED <<fd, head, sent, taken, from>>
    BY <1>4 DEF Socket, Connect, Refused, NewBuffer, TurnFails, Peek
  <2>2. \A u \in Clients \ {t} : thread'[u] = thread[u]
    BY <1>0, <1>4 DEF Socket, Connect, Refused, NewBuffer, TurnFails, Peek, Go, TypeOK
  <2>3. /\ thread[t] \in {"socket", "connect", "peek", "look"}
        /\ \/ thread'[t] \in {"socket", "connect", "peek", "look"}
           \/ thread'[t] = "recv" /\ head[fd[t]] <= sent[fd[t]]
    BY <1>0, <1>4 DEF Socket, Connect, Refused, NewBuffer, TurnFails, Peek, Found, Go, TypeOK
  <2>4. QED
    BY <1>0, <1>00, <2>1, <2>2, <2>3, HeadsAside DEF Started
<1>5. ASSUME NEW t \in Clients, ReadFd(t)
      PROVE  (TakesWholeHeaders /\ HeadInv)'
  <2>1. /\ thread[t] = "new" /\ thread' = [thread EXCEPT ![t] = "socket"]
        /\ fd' = [fd EXCEPT ![t] = rc] /\ UNCHANGED <<head, sent, taken, from>>
    BY <1>5 DEF ReadFd, Go
  <2>2. /\ thread'[t] = "socket" /\ fd'[t] = rc
        /\ \A u \in Clients \ {t} : thread'[u] = thread[u] /\ fd'[u] = fd[u]
    BY <1>0, <2>1 DEF TypeOK
  <2>3. \A c \in Clients : Sharing(c)' = Sharing(c) \union (IF c = rc THEN {t} ELSE {})
    BY <2>1, <2>2 DEF Sharing, Started
  <2>4. \A c \in Clients : t \notin Sharing(c)
    BY <2>1 DEF Sharing, Started
  <2>5. TakesWholeHeaders'
    <3> SUFFICES ASSUME NEW c \in Clients, NEW u \in Sharing(c)',
                        thread'[u] = "done", Sharing(c)' = {u}
                 PROVE  from[u] = 0 /\ taken[c] = head[c]
      BY <2>1 DEF TakesWholeHeaders
    <3>1. u \in Clients /\ u # t
      BY <2>2 DEF Sharing
    <3>2. c # rc /\ Sharing(c) = {u}
      BY <2>3, <3>1
    <3>3. QED
      BY <2>2, <3>1, <3>2 DEF TakesWholeHeaders
  <2>6. HeadInv'
    <3>1. ASSUME NEW u \in Clients, thread'[u] = "recv"
          PROVE  head'[fd'[u]] <= sent'[fd'[u]]
      BY <2>1, <2>2, <3>1 DEF HeadInv
    <3>2. ASSUME NEW c \in Clients, Sharing(c)' = {}
          PROVE  taken'[c] = 0
      BY <2>1, <2>3, <3>2 DEF HeadInv
    <3>3. ASSUME NEW c \in Clients, NEW u \in Clients,
                 Sharing(c)' = {u}, thread'[u] # "done"
          PROVE  taken'[c] = 0
      <4>1. CASE c = rc
        BY <2>1, <2>3, <2>4, <3>3, <4>1 DEF HeadInv
      <4>2. CASE c # rc
        BY <2>1, <2>2, <2>3, <2>4, <3>3, <4>2 DEF HeadInv
      <4>3. QED
        BY <4>1, <4>2
    <3>4. QED
      BY <3>1, <3>2, <3>3 DEF HeadInv
  <2>7. QED
    BY <2>5, <2>6
<1>6. ASSUME NEW t \in Clients, Recv(t)
      PROVE  (TakesWholeHeaders /\ HeadInv)'
  <2> DEFINE c == fd[t]
             n == IF head[c] <= Unread(c) THEN head[c] ELSE Unread(c)
  <2>1. c \in Clients /\ thread[t] = "recv" /\ head[c] <= sent[c] /\ t \in Sharing(c)
    BY <1>0, <1>6 DEF Recv, OrderInv, OnlyWhatIsSent, TypeOK, HeadInv, Sharing, Started
  <2>2. /\ UNCHANGED <<fd, head, sent>>
        /\ thread' = [thread EXCEPT ![t] = IF n = head[c] THEN "done" ELSE "peek"]
        /\ taken' = [taken EXCEPT ![c] = @ + n]
        /\ from' = [from EXCEPT ![t] = taken[c]]
    BY <1>6 DEF Recv, Go
  <2>3. n \in Nat /\ (taken[c] = 0 => n = head[c])
    BY <1>00, <2>1 DEF Unread
  <2>4. head[c] \in Nat \ {0} /\ taken[c] \in Nat
    BY <1>00, <2>1
  <2> HIDE DEF c, n
  <2>5. /\ taken'[c] = taken[c] + n /\ \A d \in Clients \ {c} : taken'[d] = taken[d]
        /\ from'[t] = taken[c] /\ \A u \in Clients \ {t} : from'[u] = from[u]
        /\ thread'[t] = (IF n = head[c] THEN "done" ELSE "peek")
        /\ \A u \in Clients \ {t} : thread'[u] = thread[u]
    BY <1>0, <2>1, <2>2, <2>4 DEF TypeOK
  <2>6. \A d \in Clients : Sharing(d)' = Sharing(d)
    BY <2>1, <2>2, <2>5 DEF Sharing, Started
  <2>7. Sharing(c) = {t} => taken[c] = 0
    BY <2>1 DEF HeadInv
  <2>8. ASSUME NEW d \in Clients, t \in Sharing(d)
        PROVE  d = c
    BY <2>8 DEF Sharing, c
  <2>9. TakesWholeHeaders'
    <3>1. ASSUME NEW d \in Clients
          PROVE  taken'[d] = 0 \/ taken'[d] >= head'[d]
      <4>1. taken[d] = 0 \/ taken[d] >= head[d]
        BY DEF TakesWholeHeaders
      <4>2. QED
        BY <2>1, <2>2, <2>3, <2>4, <2>5, <4>1
    <3>2. ASSUME NEW d \in Clients, NEW u \in Sharing(d)',
                 thread'[u] = "done", Sharing(d)' = {u}
          PROVE  from'[u] = 0 /\ taken'[d] = head'[d]
      <4>0. u \in Sharing(d) /\ Sharing(d) = {u} /\ u \in Clients
        BY <2>6, <3>2 DEF Sharing
      <4>1. CASE u = t
        <5>1. d = c /\ taken[c] = 0
          BY <2>7, <2>8, <4>0, <4>1
        <5>2. QED
          BY <2>2, <2>3, <2>4, <2>5, <4>1, <5>1
      <4>2. CASE u # t
        <5>1. d # c
          BY <2>1, <4>0, <4>2 DEF c
        <5>2. QED
          BY <2>2, <2>5, <3>2, <4>0, <4>2, <5>1 DEF TakesWholeHeaders
      <4>3. QED
        BY <4>1, <4>2
    <3>3. QED
      BY <3>1, <3>2 DEF TakesWholeHeaders
  <2>10. HeadInv'
    <3>1. ASSUME NEW u \in Clients, thread'[u] = "recv"
          PROVE  head'[fd'[u]] <= sent'[fd'[u]]
      BY <2>2, <2>5, <3>1 DEF HeadInv
    <3>2. ASSUME NEW d \in Clients, Sharing(d)' = {}
          PROVE  taken'[d] = 0
      BY <2>1, <2>5, <2>6, <3>2 DEF HeadInv, c
    <3>3. ASSUME NEW d \in Clients, NEW u \in Clients,
                 Sharing(d)' = {u}, thread'[u] # "done"
          PROVE  taken'[d] = 0
      <4>0. Sharing(d) = {u}
        BY <2>6, <3>3
      <4>1. CASE u = t
        BY <2>3, <2>4, <2>5, <2>7, <2>8, <3>3, <4>0, <4>1
      <4>2. CASE u # t
        <5>1. d # c
          BY <2>1, <4>0, <4>2 DEF c
        <5>2. QED
          BY <2>5, <3>3, <4>0, <4>2, <5>1 DEF HeadInv
      <4>3. QED
        BY <4>1, <4>2
    <3>4. QED
      BY <3>1, <3>2, <3>3 DEF HeadInv
  <2>11. QED
    BY <2>9, <2>10
<1>7. QED
  BY <1>1, <1>2, <1>3, <1>4, <1>5, <1>6 DEF Next, Main, Manager

(* Every reachable state satisfies the inductive invariant: a thread finds *)
(* its own client behind its pointer, or a later one, and what it takes is *)
(* what it has seen.                                                       *)
THEOREM Invariance == Spec => []IInv
<1>1. Init => IInv
  BY InitOrder, InitHeads DEF IInv
<1>2. IInv /\ [Next]_vars => IInv'
  BY NextOrder, NextHeads DEF IInv
<1>3. QED
  BY <1>1, <1>2, PTL DEF Spec

(* A thread that has its client to itself takes the header, all of it at   *)
(* once, whatever other threads, clients and the accept loop do meanwhile. *)
THEOREM HeadersTakenWhole == Spec => []TakesWholeHeaders
<1>1. IInv => TakesWholeHeaders
  BY DEF IInv
<1>2. QED
  BY <1>1, Invariance, PTL

=============================================================================
