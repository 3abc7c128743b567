----------------------------- MODULE MCListings -----------------------------
(* Instances of Listings for TLC. *)
EXTENDS Listings, TLC

CONSTANTS a, b, c, n1, n2

Two == {a, b}
Three == {a, b, c}
OneNft == {n1}
TwoNfts == {n1, n2}
Artist == {a}
MayExpire == {None, 1}
NeverExpire == {None}
Exclusive == {NoReservation, [for |-> b, start |-> None, end |-> 1]}
=============================================================================
