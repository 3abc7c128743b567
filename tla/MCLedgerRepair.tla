--------------------------- MODULE MCLedgerRepair ---------------------------
(* One gap of three ledgers, repaired by a worker next to an operator.      *)
EXTENDS LedgerRepair

From1 == [g \in Gaps |-> 1]
To3 == [g \in Gaps |-> 3]

=============================================================================
