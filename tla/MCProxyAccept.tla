--------------------------- MODULE MCProxyAccept ---------------------------
(* Clients whose headers fit a new buffer, do not, or cannot be peeked at. *)
EXTENDS ProxyAccept

CONSTANTS a, b

HeadMixes == {(a :> 2) @@ (b :> 3), (a :> 2) @@ (b :> 4)}

=============================================================================
