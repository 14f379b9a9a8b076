------------------------------ MODULE MCBench -------------------------------
(***************************************************************************)
(* Small instances of Bench: a cell needs 3 units, an output costs 1 or 2. *)
(***************************************************************************)
EXTENDS Bench

OneThenTwo == <<1, 2>>
OneRun == <<2>>

(* One re-organisation.                                                    *)
OneReorg == [kind \in FaultKind |-> IF kind = "reorg" THEN 1 ELSE 0]

(* One fault of any kind, and the panic of the chain monitor after it.     *)
FaultThenPanic ==
  [kind \in FaultKind |-> IF kind = "monitor" THEN 2 ELSE 1]

Feed16 == <<8, 8>>
Feed13 == <<5, 5, 3>>

=============================================================================
