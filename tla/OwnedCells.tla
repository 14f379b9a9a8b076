----------------------------- MODULE OwnedCells -----------------------------
(***************************************************************************)
(* The cells of an account on a chain (get_owned_utxos and is_matured of   *)
(* tps-bench/src/account.rs).  An out point is a block, which of its       *)
(* transactions, and an index.                                             *)
(***************************************************************************)
EXTENDS CkbNodes

CONSTANTS
  TxOuts,       (* TxOuts[b]: owned outputs of the ordinary txs of body b  *)
  CbOuts,       (* CbOuts[b]: owned outputs of the cellbase of body b      *)
  Maturity,     (* 1800 * CELLBASE_MATURITY                                *)
  RollbackSpan  (* the 1000 blocks of rollback_for_reorg                   *)

ASSUME CellsAssumption ==
  /\ TxOuts \in [Block -> Nat]
  /\ CbOuts \in [Block -> Nat]
  /\ Maturity \in Nat
  /\ RollbackSpan \in Nat
  /\ ReorgDepth <= RollbackSpan

Cell == [block : Header, cellbase : BOOLEAN, index : Nat]

CellsOf(h, isCellbase, n) ==
  [i \in 1..n |-> [block |-> h, cellbase |-> isCellbase, index |-> i]]

(* get_owned_utxos: (matured, unmatured)                                   *)
TxCells(h) == CellsOf(h, FALSE, TxOuts[h[Len(h)]])
CbCells(h) == CellsOf(h, TRUE, CbOuts[h[Len(h)]])

(* Faulty: >= for >, and a maturity counted twice.                         *)
IsMaturedTooEarly(tip, n) == tip >= n + Maturity
IsMaturedTooLate(tip, n) == tip > n + 2 * Maturity

IsMatured(tip, n) == tip > n + Maturity

Elements(s) == {s[i] : i \in 1..Len(s)}

=============================================================================
