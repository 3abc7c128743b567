----------------------------- MODULE MCAuctions -----------------------------
(* Instances of Auctions for TLC. *)
EXTENDS Auctions, TLC

CONSTANTS a, b, c, n1

Three == {a, b, c}
OneNft == {n1}

Config(window, trigger, max, cap) ==
  [minIncrement |-> 1, window |-> window, trigger |-> trigger,
   maxExtensions |-> max, historyCap |-> cap]
Extending == {Config(2, 2, 1, 2), Config(2, 2, 0, 1)}
=============================================================================
