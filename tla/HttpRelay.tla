------------------------------ MODULE HttpRelay ------------------------------
(***************************************************************************)
(* One client of the proxy, served by c_proxy_handle_client(): it takes a  *)
(* request from the client, forwards it to the server, takes the response  *)
(* and forwards that, for ever.  c_http_get_message() reads a header and   *)
(* what came with it; c_proxy_send_message() forwards header and body      *)
(* chunk by chunk.                                                         *)
(*                                                                         *)
(* The bytes of a stream are counted in units: unit i of message k is      *)
(* <<k, i>>, units 1..HeadLen are its header, the last of them holds the   *)
(* blank line, and no read divides a unit.  read() returns any part of     *)
(* what is there, which is how the network may deliver it.                 *)
(***************************************************************************)
EXTENDS HttpHeader, SequencesExt, Naturals, Integers

CONSTANTS
    Messages,    \* how many requests the client makes
    HeadLen,     \* units of a header
    Body,        \* [direction -> [message -> units of its body]]
    Declared,    \* the same, as its Content-Length says: 0 when there is none,
                 \* -1 when it is no number
    TagAt,       \* the unit of its body that is "</body>"; 0 when there is none
    HeadSpace,   \* HTTP_MAX_HEADDER_SIZE
    ChunkSpace,  \* C_HTTP_MAX_BODY_CHUNK
    Faults       \* "close" (peers may), "pipeline" (the client does),
                 \* "short" (a read of one unit may have fewer bytes than a
                 \* delimiter), "overrun" (a byte next to an allocation is
                 \* in use), "residue" (fresh memory has a tag's bytes)

Directions == {"req", "res"}

ASSUME RelayAssumption ==
    /\ Messages \in Nat /\ HeadLen \in Nat \ {0}
    /\ Body \in [Directions -> [1..Messages -> Nat]]
    /\ Declared \in [Directions -> [1..Messages -> Nat \union {-1}]]
    /\ TagAt \in [Directions -> [1..Messages -> Nat]]
    /\ HeadSpace \in Nat \ {0} /\ ChunkSpace \in Nat \ {0}

VARIABLES
    pc,         \* "head", "send", "recv", "write", "closed", "crashed", or
                \* "undefined": memory was overrun, anything may follow
    dir,        \* the direction being forwarded
    given,      \* [direction -> number of messages its sender has sent]
    pipe,       \* [direction -> units sent and not yet read]
    eof,        \* the directions whose sender has closed the connection
    out,        \* [direction -> units its receiver has been written]
    headders,   \* headders_buff
    size,       \* headders_size
    chunk,      \* body_chunk, cur_body_size units of it
    total,      \* total_msg_size
    remaining,  \* remaining_data; a negative value stands for its wrapped size_t
    sent,       \* total_sended_size
    injected    \* payload_inyect

msgVars == <<headders, size, total>>
vars == <<pc, dir, given, pipe, eof, out, headders, size, chunk, total,
          remaining, sent, injected>>

Garbage == <<0, 0>>   \* what the injection leaves of a unit

Msg(d, k) == [i \in 1..(HeadLen + Body[d][k]) |-> <<k, i>>]

(* All that the sender of this direction has sent so far.                  *)
Stream(d) == FlattenSeq([k \in 1..given[d] |-> Msg(d, k)])

(* How long the stream is up to message k.                                 *)
LengthTo(d, k) == Len(FlattenSeq([j \in 1..k |-> Msg(d, j)]))

EndsHeader(unit) == unit[2] = HeadLen

Other(d) == IF d = "req" THEN "res" ELSE "req"

Init ==
    /\ pc = "head"
    /\ dir = "req"
    /\ given = [d \in Directions |-> 0]
    /\ pipe = [d \in Directions |-> <<>>]
    /\ eof = {}
    /\ out = [d \in Directions |-> <<>>]
    /\ headders = <<>> /\ size = 0 /\ chunk = <<>>
    /\ total = 0 /\ remaining = 0 /\ sent = 0
    /\ injected = FALSE

Take(n) == pipe' = [pipe EXCEPT ![dir] = SubSeq(@, n + 1, Len(@))]

(* Without a request the connections are closed; without a response the    *)
(* NULL message is followed.                                               *)
NoMessage == pc' = IF dir = "req" THEN "closed" ELSE "crashed"

(* A search of a text shorter than its pattern has no end: t_len - p_len   *)
(* wraps.                                                                  *)
RunsOn(s) == s = <<>> \/ ("short" \in Faults /\ Len(s) = 1)

-----------------------------------------------------------------------------
\* Mutant of Message: the excess is not taken from what remains.
MessageUncounted(read, e) ==
    LET length == Declared[dir][read[e][1]]
    IN IF length = -1
       THEN NoMessage /\ UNCHANGED <<size, chunk, total, remaining>>
       ELSE /\ pc' = "send"
            /\ size' = e
            /\ chunk' = SubSeq(read, e + 1, Len(read))
            /\ total' = e + length
            /\ remaining' = length

(* c_http_recv_header() has found the end of the header, at e: the rest of *)
(* c_http_get_message().                                                   *)
Message(read, e) ==
    LET length == Declared[dir][read[e][1]]
    IN IF length = -1
       THEN NoMessage /\ UNCHANGED <<size, chunk, total, remaining>>
       ELSE /\ pc' = "send"
            /\ size' = e
            /\ chunk' = SubSeq(read, e + 1, Len(read))
            /\ total' = e + length
            /\ remaining' = e + length - Len(read)

\* Mutant of ReadHeader: buff_len is not decreased.
ReadHeaderOver(n) ==
    /\ pc = "head"
    /\ n \in 1..Len(pipe[dir]) /\ n <= HeadSpace
    /\ Take(n)
    /\ LET read == headders \o SubSeq(pipe[dir], 1, n)
           ends == {i \in DOMAIN read : EndsHeader(read[i])}
       IN /\ headders' = read
          /\ IF ends # {} THEN Message(read, Min(ends))
             ELSE UNCHANGED <<pc, size, chunk, total, remaining>>
    /\ UNCHANGED <<dir, given, eof, out, sent, injected>>

(* One turn of the loop of c_http_recv_header().                           *)
ReadHeader(n) ==
    /\ pc = "head"
    /\ n \in 1..Len(pipe[dir]) /\ n <= HeadSpace - Len(headders)
    /\ Take(n)
    /\ LET read == headders \o SubSeq(pipe[dir], 1, n)
           ends == {i \in DOMAIN read : EndsHeader(read[i])}
       IN /\ headders' = read
          /\ \/ ends # {} /\ Message(read, Min(ends))
             \/ /\ ends = {}
                /\ IF Len(read) = HeadSpace THEN NoMessage ELSE UNCHANGED pc
                /\ UNCHANGED <<size, chunk, total, remaining>>
             \/ /\ RunsOn(read)
                /\ pc' = "undefined"
                /\ UNCHANGED <<size, chunk, total, remaining>>
    /\ UNCHANGED <<dir, given, eof, out, sent, injected>>

(* read() returns 0: c_http_get_message() returns NULL.                    *)
NoHeader ==
    /\ pc = "head"
    /\ pipe[dir] = <<>> /\ dir \in eof
    /\ NoMessage
    /\ UNCHANGED <<dir, given, pipe, eof, out, msgVars, chunk, remaining, sent, injected>>

\* Mutant of Forwarded: the loop ends with its first chunk.
ForwardedOnce(n) ==
    /\ sent' = n
    /\ IF n < total /\ n = size
       THEN pc' = "recv" /\ UNCHANGED <<dir, msgVars>>
       ELSE pc' = "head" /\ dir' = Other(dir)
            /\ headders' = <<>> /\ size' = 0 /\ total' = 0

(* The test of the loop of c_proxy_send_message(), and what comes after it:*)
(* the other direction's turn, or, when too much has been sent, the end.   *)
Forwarded(n) ==
    /\ sent' = n
    /\ IF n < total
       THEN pc' = "recv" /\ UNCHANGED <<dir, msgVars>>
       ELSE IF n = total
       THEN pc' = "head" /\ dir' = Other(dir)
            /\ headders' = <<>> /\ size' = 0 /\ total' = 0
       ELSE pc' = "closed" /\ UNCHANGED <<dir, msgVars>>

(* write(): to a peer that has closed the data goes nowhere, or SIGPIPE    *)
(* ends the process.                                                       *)
Write(s) == out' = [out EXCEPT ![dir] = @ \o s]

Killed ==
    /\ pc \in {"send", "write"}
    /\ Other(dir) \in eof
    /\ pc' = "crashed"
    /\ UNCHANGED <<dir, given, pipe, eof, out, msgVars, chunk, remaining, sent, injected>>

(* write() gives an error, or fewer bytes than it was to write, for the    *)
(* peer has closed: c_proxy_send_message() returns -1.                     *)
WriteFails ==
    LET s == IF pc = "send" THEN SubSeq(headders, 1, size) ELSE chunk
    IN /\ pc \in {"send", "write"}
       /\ Other(dir) \in eof
       /\ \E n \in 0..(Len(s) - 1) : Write(SubSeq(s, 1, n))
       /\ pc' = "closed"
       /\ UNCHANGED <<dir, given, pipe, eof, msgVars, chunk, remaining, sent, injected>>

SendHeader ==
    /\ pc = "send"
    /\ Write(SubSeq(headders, 1, size))
    /\ Forwarded(size)
    /\ injected' = FALSE
    /\ UNCHANGED <<given, pipe, eof, chunk, remaining>>

(* The positions of "</body>" in these units.                              *)
Tags(s) == {i \in DOMAIN s : /\ s[i] # Garbage
                             /\ TagAt[dir][s[i][1]] > 0
                             /\ s[i][2] = HeadLen + TagAt[dir][s[i][1]]}

(* What c_proxy_send_message() makes of a chunk.  "</body>" is overwritten *)
(* by the payload, together with all that follows it and the byte before   *)
(* it, for as many bytes as the chunk had; at the very start of the chunk  *)
(* it makes the length of the first copy negative.  A chunk without it is  *)
(* searched once more behind the one before, in buff, where one byte, or   *)
(* with the first chunk seven, are none of either's: only they can make up *)
(* a tag there, and then the payload is written from near the start of the *)
(* chunk.  Both searches write a byte next to their allocation, and so is  *)
(* the '\0' of a full chunk.                                               *)
Inject(s) ==
    \/ /\ injected \/ (s # <<>> /\ Tags(s) = {})
       /\ pc' = "write" /\ chunk' = s /\ UNCHANGED injected
    \/ /\ ~injected /\ Tags(s) \notin {{}, {1}}
       /\ pc' = "write" /\ injected' = TRUE
       /\ chunk' = [i \in DOMAIN s |-> IF i < Min(Tags(s)) - 1 THEN s[i] ELSE Garbage]
    \/ /\ ~injected /\ s # <<>> /\ Tags(s) = {} /\ "residue" \in Faults
       /\ pc' = "write" /\ injected' = TRUE
       /\ chunk' = [i \in DOMAIN s |-> Garbage]
    \/ /\ \/ ~injected /\ (RunsOn(s) \/ Tags(s) = {1})
          \/ "overrun" \in Faults /\ (~injected \/ Len(s) = ChunkSpace)
       /\ pc' = "undefined" /\ chunk' = s /\ UNCHANGED injected

(* c_http_recv_body_chunk() with nothing to read: all of the body came     *)
(* with the header, the chunk is full, or read() returns 0.                *)
NoRead ==
    /\ pc = "recv"
    /\ \/ Len(chunk) >= ChunkSpace
       \/ remaining = 0
       \/ pipe[dir] = <<>> /\ dir \in eof
    /\ Inject(chunk)
    /\ UNCHANGED <<dir, given, pipe, eof, out, msgVars, remaining, sent>>

\* Mutant of ReadBody: what came with the header is read over.
ReadBodyOver(n) ==
    /\ pc = "recv"
    /\ Len(chunk) < ChunkSpace /\ remaining # 0
    /\ n \in 1..Len(pipe[dir]) /\ n <= ChunkSpace - Len(chunk)
    /\ Inject(SubSeq(pipe[dir], 1, n))
    /\ remaining' = remaining - n
    /\ Take(n)
    /\ UNCHANGED <<dir, given, eof, out, msgVars, sent>>

(* As much as fits is read, be it of this message or of the next.          *)
ReadBody(n) ==
    /\ pc = "recv"
    /\ Len(chunk) < ChunkSpace /\ remaining # 0
    /\ n \in 1..Len(pipe[dir]) /\ n <= ChunkSpace - Len(chunk)
    /\ Inject(chunk \o SubSeq(pipe[dir], 1, n))
    /\ remaining' = remaining - n
    /\ Take(n)
    /\ UNCHANGED <<dir, given, eof, out, msgVars, sent>>

(* The injection has written one byte past its allocation, which is only  *)
(* as large as its content: the next read overruns it again.               *)
Overrun ==
    /\ pc = "recv" /\ injected
    /\ pc' = "undefined"
    /\ UNCHANGED <<dir, given, pipe, eof, out, msgVars, chunk, remaining, sent, injected>>

\* Mutant of SendChunk: the chunk is not flushed.
SendChunkKept ==
    /\ pc = "write"
    /\ Write(chunk)
    /\ Forwarded(sent + Len(chunk))
    /\ UNCHANGED <<given, pipe, eof, chunk, remaining, injected>>

SendChunk ==
    /\ pc = "write"
    /\ Write(chunk)
    /\ Forwarded(sent + Len(chunk))
    /\ chunk' = <<>>
    /\ UNCHANGED <<given, pipe, eof, remaining, injected>>

-----------------------------------------------------------------------------
(* The sender of a direction sends its next message: the client when it    *)
(* has the last response, or ahead of it; the server when it has the       *)
(* request.                                                                *)
Give(d) ==
    LET k == given[d] + 1
    IN /\ d \notin eof /\ k <= Messages
       /\ IF d = "req" THEN \/ Len(out["res"]) >= LengthTo("res", given["req"])
                            \/ "pipeline" \in Faults
                       ELSE /\ k <= given["req"]
                            /\ Len(out["req"]) >= LengthTo("req", k)
       /\ given' = [given EXCEPT ![d] = k]
       /\ pipe' = [pipe EXCEPT ![d] = @ \o Msg(d, k)]
       /\ UNCHANGED <<pc, dir, eof, out, msgVars, chunk, remaining, sent, injected>>

(* A peer closes: the client may give up, the server may be restarted.  A  *)
(* part of what it had sent may never arrive.                              *)
Close(d, n) ==
    /\ "close" \in Faults /\ d \notin eof
    /\ n \in 0..Len(pipe[d])
    /\ eof' = eof \union {d}
    /\ pipe' = [pipe EXCEPT ![d] = SubSeq(@, 1, n)]
    /\ UNCHANGED <<pc, dir, given, out, msgVars, chunk, remaining, sent, injected>>

-----------------------------------------------------------------------------
Relay ==
    \/ \E n \in 1..HeadSpace : ReadHeader(n)
    \/ NoHeader
    \/ SendHeader
    \/ NoRead \/ (\E n \in 1..ChunkSpace : ReadBody(n)) \/ Overrun
    \/ SendChunk
    \/ Killed \/ WriteFails

Peers ==
    \/ \E d \in Directions : Give(d)
    \/ \E d \in Directions, n \in 0..(Messages * HeadSpace) : Close(d, n)

Next == Relay \/ Peers

Spec == Init /\ [][Next]_vars

(* The relay's thread runs, and the server answers a request it has.       *)
FairSpec == Spec /\ WF_vars(Relay) /\ WF_vars(Give("res"))

-----------------------------------------------------------------------------
TypeOK ==
    /\ pc \in {"head", "send", "recv", "write", "closed", "crashed",
               "undefined"}
    /\ dir \in Directions
    /\ given \in [Directions -> 0..Messages]
    /\ pipe \in [Directions -> Seq(Nat \X Nat)]
    /\ eof \subseteq Directions
    /\ out \in [Directions -> Seq(Nat \X Nat)]
    /\ headders \in Seq(Nat \X Nat) /\ Len(headders) <= HeadSpace
    /\ size \in Nat
    /\ chunk \in Seq(Nat \X Nat)
    /\ total \in Nat /\ remaining \in Int /\ sent \in Nat
    /\ injected \in BOOLEAN

Alive == pc \notin {"closed", "crashed", "undefined"}

(* What the relay has read and not yet written.                            *)
Held == CASE pc = "head" -> headders
          [] pc = "send" -> headders
          [] pc \in {"recv", "write"} -> chunk
          [] OTHER -> <<>>

(* Nothing is lost, repeated, put out of order or of another length on the *)
(* way: what has been written, is held, and is still to be read make up    *)
(* the stream, however the reads divide it.  Only an injection overwrites  *)
(* units, in place, and only a closing peer cuts the stream short.  (The   *)
(* excess of the header read, cmon_http.c 570-587, and the chunks of       *)
(* cmon_proxy.c 87-142.)                                                   *)
Conserved ==
    Alive =>
        \A d \in Directions :
            LET all == out[d] \o (IF d = dir THEN Held ELSE <<>>) \o pipe[d]
            IN /\ IF d \in eof THEN Len(all) <= Len(Stream(d))
                               ELSE Len(all) = Len(Stream(d))
               /\ \A i \in DOMAIN all : all[i] \in {Stream(d)[i], Garbage}

(* The accounts agree: what is left to read of the message and what is     *)
(* held of it make up what is left to send, so the size_t never wraps, and *)
(* the relay never waits for more of a message than its sender sends.      *)
(* (cmon_http.c 584-587 and 688, cmon_proxy.c 85-87 and 141.)              *)
Accounted ==
    pc \in {"recv", "write"} =>
        remaining >= 0 /\ remaining + Len(chunk) = total - sent

(* The relay asks for a response only when the server has the whole        *)
(* request, and for the next request only when the client has the whole    *)
(* response: it never makes both sides wait for each other.                *)
(* (cmon_proxy.c 175-213.)                                                 *)
InStep ==
    pc = "head" /\ headders = <<>> /\ eof = {} =>
        Len(out[Other(dir)]) = Len(Stream(Other(dir)))

(* No header depends on the state: they are looked at as the relay begins. *)
Beginning == pc = "head" /\ eof = {} /\ \A d \in Directions : given[d] = 0

(* Of a complete header both functions give the value that it says, the    *)
(* bytes between the colon and the end of its line, or the one that copies *)
(* it nothing when the caller's buffer is smaller; and neither looks       *)
(* beyond the header, the one that may included.  (cmon_http.c 27, 351-379 *)
(* and 420-431: three places and lengths that add up.)                     *)
FieldsAsSaid ==
    Beginning => \A header \in Texts, key \in Names :
                    Readable(header, key) => FieldAsSaid(header, key)

(* The length of the body is the number that the header says, leading      *)
(* zeros and the longest that is let through included; it is 0 when there  *)
(* is no such field, and never a number when it has more digits.           *)
(* (cmon_http.c 41-60 and 223-263: three bounds on the same digits.)       *)
LengthsAsSaid ==
    Beginning => \A header \in Texts, key \in Names :
                    Readable(header, key) => LengthAsSaid(header, key)

(* What the four rest on, while the relay is alive.  The exchange it is at,*)
(* and what the peers have sent of it:                                     *)
Turn == IF dir = "req" THEN given["res"] ELSE given["req"] - 1

TurnInv ==
    /\ Turn \in Nat /\ given[dir] \in {Turn, Turn + 1}
    /\ pc # "head" => given[dir] = Turn + 1

(* ... the other direction is at rest, and this one has no more on the way *)
(* than its sender has sent, ...                                           *)
LengthInv ==
    /\ pipe[Other(dir)] = <<>>
    /\ Len(out[Other(dir)]) = Len(Stream(Other(dir)))
    /\ Len(out[dir]) = LengthTo(dir, Turn) + (IF pc \in {"recv", "write"} THEN sent ELSE 0)
    /\ Len(out[dir]) + Len(Held) + Len(pipe[dir]) <= Len(Stream(dir))
    /\ dir \notin eof => Len(out[dir]) + Len(Held) + Len(pipe[dir]) = Len(Stream(dir))

(* ... each unit is in its place, but those that an injection overwrote,   *)
(* and there are none of them where nothing can be taken for "</body>", .. *)
Spoilt(d) ==
    IF "residue" \in Faults \/ \E k \in 1..Messages : TagAt[d][k] > 0 THEN {Garbage} ELSE {}

UnitsInv ==
    /\ \A d \in Directions : \A i \in DOMAIN out[d] :
          out[d][i] \in {Stream(d)[i]} \union Spoilt(d)
    /\ \A i \in DOMAIN Held :
          Held[i] \in {Stream(dir)[Len(out[dir]) + i]}
                        \union (IF pc \in {"recv", "write"} THEN Spoilt(dir) ELSE {})
    /\ \A i \in DOMAIN pipe[dir] :
          pipe[dir][i] = Stream(dir)[Len(out[dir]) + Len(Held) + i]

(* ... and the header, what came with it and the lengths are those of the  *)
(* message.                                                                *)
MessageInv ==
    /\ pc = "head" => Len(headders) < HeadLen
    /\ pc # "head" => total = HeadLen + Body[dir][Turn + 1]
    /\ pc = "send" => /\ size = HeadLen /\ HeadLen <= Len(headders)
                      /\ chunk = SubSeq(headders, size + 1, Len(headders))
                      /\ remaining = total - Len(headders)
    /\ pc \in {"recv", "write"} => sent < total
    /\ Accounted

IInv == TypeOK /\ (Alive => TurnInv /\ LengthInv /\ UnitsInv /\ MessageInv)

(* Peers that keep to HTTP: a body is as long as its header says, and the  *)
(* client waits for a response before its next request.                    *)
Orderly == Declared = Body /\ "pipeline" \notin Faults

(* To a client and a server that keep to HTTP, and where nothing disturbs  *)
(* it (Undisturbed: no read shorter than seven bytes and no harm done by   *)
(* the bytes it writes past its buffers are two of its conditions), the    *)
(* relay is not there: they talk as if nothing was between them, every     *)
(* message arrives and every request is answered.  (The whole of           *)
(* c_proxy_handle_client, cmon_proxy.c 156-215.)                           *)
Direct == INSTANCE Conversation WITH
    Size <- [d \in Directions |-> [k \in 1..Messages |-> HeadLen + Body[d][k]]],
    got <- out

Answered == Direct!FairSpec

(* Nothing that can stop the relay or change what it forwards: nobody      *)
(* closes; every read, header or body, is at least as long as the pattern  *)
(* that is searched in it, which is seven bytes for a body ("ok" is        *)
(* shorter: c_utils_str.c 54); the bytes next to buff and to a full        *)
(* body_chunk, which cmon_proxy.c 105 and 135 write, are nobody's; the     *)
(* fresh bytes of buff, and those that 133 takes from before a chunk of    *)
(* fewer than eight, do not make up a tag; every header fits; and no body  *)
(* has "</body>".                                                          *)
Undisturbed ==
    /\ {"close", "short", "overrun", "residue"} \intersect Faults = {}
    /\ HeadLen <= HeadSpace
    /\ \A d \in Directions, k \in 1..Messages : TagAt[d][k] = 0

(* cmon_http.c:516-517 "If the peer closes the connection before a full    *)
(* header section is read, the returned message will have                  *)
(* msg->header_size == 0", which cmon_proxy.c:194 tests: the relay closes  *)
(* both connections.  (The message returned is NULL.)                      *)
NoResponseHandled ==
    [][pc = "head" /\ dir = "res" => pc' # "crashed"]_vars

=============================================================================
