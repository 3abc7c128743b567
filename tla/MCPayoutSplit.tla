--------------------------- MODULE MCPayoutSplit ---------------------------
(* Instances of PayoutSplit for TLC. *)
EXTENDS PayoutSplit, FiniteSets, TLC

CONSTANTS a, b, c

Percentages == {0, 1, 3333, 10000, 20001}
Entries == [address : {a, b, c}, percentage : Percentages]

(* All lists of up to two entries, some of three, and one that is too long. *)
Splits ==
  UNION {[1..n -> Entries] : n \in 0..2}
  \cup {<<[address |-> a, percentage |-> p], [address |-> b, percentage |-> q],
          [address |-> c, percentage |-> r]>> :
          p \in {1, 3333}, q \in {3333, 5000}, r \in {1, 3334}}
  \cup {<<[address |-> a, percentage |-> 1], [address |-> b, percentage |-> 1],
          [address |-> c, percentage |-> 1], [address |-> a, percentage |-> 1]>>}

SmallSales ==
  [amount : {7, 99999, 105000}, seller : {a}, receiver : {a, b},
   royalty : {0, 499, 10000}, recipients : Splits]

Holder == {c}
=============================================================================
