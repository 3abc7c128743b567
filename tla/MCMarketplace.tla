--------------------------- MODULE MCMarketplace ---------------------------
(* Instances of Marketplace for TLC. *)
EXTENDS Marketplace, TLC

CONSTANTS a, b, c, n1, n2

Three == {a, b, c}
Rival == {b}
TwoNfts == {n1, n2}
NeverExpire == {None}
Plain == {[minIncrement |-> 1, window |-> 0, trigger |-> 0,
           maxExtensions |-> 0, historyCap |-> 2]}
=============================================================================
