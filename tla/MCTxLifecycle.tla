--------------------------- MODULE MCTxLifecycle ---------------------------
(* Instances of TxLifecycle for TLC. *)
EXTENDS TxLifecycle, TLC

CONSTANTS p1, p2, i1, i2

TwoPages == {p1, p2}
TwoInstances == {i1, i2}
TabsAlike == Permutations(Pages) \cup Permutations(Instances)

=============================================================================
