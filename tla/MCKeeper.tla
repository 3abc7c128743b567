------------------------------ MODULE MCKeeper ------------------------------
(* One keeper process and two targets, one of them an auction. *)
EXTENDS Keeper

CONSTANTS k1, listing, auction, none

MCKeepers == {k1}
MCTargets == {listing, auction}
MCAuctions == {auction}

=============================================================================
