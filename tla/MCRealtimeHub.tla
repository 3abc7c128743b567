--------------------------- MODULE MCRealtimeHub ---------------------------
(* Instances of RealtimeHub for TLC. *)
EXTENDS RealtimeHub

CONSTANTS h1, h2, c1

TwoHubs == {h1, h2}
OneClient == {c1}
Everything == [c \in Clients |-> 1..MaxEvents]

=============================================================================
