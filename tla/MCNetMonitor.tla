---------------------------- MODULE MCNetMonitor ----------------------------
(***************************************************************************)
(* Small instances of NetMonitor: blocks are empty or full.                *)
(***************************************************************************)
EXTENDS NetMonitor

CONSTANTS empty, full

MCBlock == {empty, full}
MCTxCount == [b \in Block |-> IF b = full THEN 3 ELSE 1]

Named(name, warmup, window) ==
  [name |-> name, warmup |-> warmup, window |-> window, margin |-> 1]

ByBlocks == {Named("elapsed", 2, 1), Named("timed", 0, 1), Named("metric", 0, 1),
             Named("nearly", 0, 0)}
ByTransactions == {Named("nearly", 0, 2), Named("nearly", 0, 4)}

=============================================================================
