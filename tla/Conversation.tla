---------------------------- MODULE Conversation ----------------------------
(***************************************************************************)
(* What a client and a server see of each other when nothing is between    *)
(* them: they take turns, and what the one sends comes to the other        *)
(* complete and in order, a part at a time.                                *)
(***************************************************************************)
EXTENDS SequencesExt, Naturals

CONSTANTS
    Messages,   \* how many requests the client makes
    Size        \* [direction -> [message -> units it has]]

Directions == {"req", "res"}

VARIABLES
    given,      \* [direction -> number of messages its sender has sent]
    got         \* [direction -> units its receiver has]

vars == <<given, got>>

Msg(d, k) == [i \in 1..Size[d][k] |-> <<k, i>>]

Stream(d) == FlattenSeq([k \in 1..given[d] |-> Msg(d, k)])

Received(d) == got[d] = Stream(d)

Init ==
    /\ given = [d \in Directions |-> 0]
    /\ got = [d \in Directions |-> <<>>]

(* The client asks when it has every response, the server answers when it  *)
(* has a request that it has not answered.                                 *)
Give(d) ==
    /\ given[d] < Messages
    /\ Received("req") /\ Received("res")
    /\ d = IF given["res"] < given["req"] THEN "res" ELSE "req"
    /\ given' = [given EXCEPT ![d] = @ + 1]
    /\ UNCHANGED got

Deliver(d) ==
    /\ \E n \in (Len(got[d]) + 1)..Len(Stream(d)) :
          got' = [got EXCEPT ![d] = SubSeq(Stream(d), 1, n)]
    /\ UNCHANGED given

Delivery == \E d \in Directions : Deliver(d)

Next == (\E d \in Directions : Give(d)) \/ Delivery

Spec == Init /\ [][Next]_vars

FairSpec == Spec /\ WF_vars(Delivery) /\ WF_vars(Give("res"))

=============================================================================
