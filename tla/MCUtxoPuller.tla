---------------------------- MODULE MCUtxoPuller ----------------------------
(***************************************************************************)
(* Small instances of UtxoPuller.  A block body pays the account the       *)
(* reward of the block, or pays it by an ordinary transaction.             *)
(***************************************************************************)
EXTENDS UtxoPuller, FiniteSets

CONSTANTS g, pay

TwoBodies == {g, pay}

OnePayment == [b \in Block |-> IF b = pay THEN 1 ELSE 0]
OneReward == [b \in Block |-> IF b = pay THEN 0 ELSE 1]

(* Endless re-organisations of the same blocks grow unmatureds and sent    *)
(* without end: the state constraint of the runs with deep ones.           *)
FewCells == Len(unmatureds) <= 5 /\ Cardinality(sent) <= 5

=============================================================================
