------------------------------ MODULE Transfer ------------------------------
(***************************************************************************)
(* The arithmetic of a transfer: construct_unsigned_transaction            *)
(* (tps-bench/src/transfer.rs), estimate_fee (util.rs) and the least total *)
(* of inputs that the benchmark loop asks for (benchmark.rs).  Capacities  *)
(* are u64 numbers of shannons, far from overflow: the whole supply of CKB *)
(* fits; what can go wrong is that a subtraction goes below zero.          *)
(***************************************************************************)
EXTENDS Integers

CONSTANTS
  MinCell,      (* MIN_SECP_CELL_CAPACITY                                  *)
  FeeRate       (* min_fee_rate, charged per output                        *)

ASSUME TransferAssumption == MinCell \in Nat \ {0} /\ FeeRate \in Nat

(* TransactionType: In1Out1, In2Out2, In3Out3                              *)
OutputsCount == 1..3

EstimateFee(n) == n * FeeRate

(* Faulty: the fee is forgotten.                                           *)
MinInputWithoutFee(n) == n * MinCell

MinInput(n) == n * MinCell + EstimateFee(n)

(* Faulty: the remainder of the division is lost.                          *)
EvenCapacity(total, n, i) == (total - EstimateFee(n)) \div n

(* The capacity of output i \in 0..(n - 1) when total is spent.            *)
OutputCapacity(total, n, i) ==
  LET out == total - EstimateFee(n)
  IN  IF i < out % n THEN out \div n + 1 ELSE out \div n

=============================================================================
