------------------------------ MODULE UtxoFeed ------------------------------
(***************************************************************************)
(* What Account::pull_forever (tps-bench/src/account.rs) promises to the   *)
(* receiver of its channel, whatever it asks of the nodes and in whichever *)
(* order.  A position moves over the chain block by block, and only over   *)
(* blocks that every node has had.  With each block come the cells that    *)
(* the account owns in it: they are owed to the receiver until they are    *)
(* paid.  A reward is paid once every node would accept its spending.  The *)
(* position may go back, to a block that every node has, and what it then  *)
(* passes again may be paid again.  Until that happens, no cell is paid    *)
(* twice.                                                                  *)
(***************************************************************************)
EXTENDS OwnedCells

VARIABLES
  pos,          (* the header of the block passed last                     *)
  owed,         (* the cells of the blocks passed that are to be paid      *)
  chan,         (* the cells on their way to the receiver                  *)
  open,         (* the receiver still listens                              *)
  sent,         (* history: every cell ever paid                           *)
  again         (* the position has gone back                              *)

feedVars == <<chain, pos, owed, chan, open, sent, again>>

Init ==
  /\ NodesInit
  /\ pos = <<Genesis>>
  /\ owed = Elements(CbCells(<<Genesis>>))
  /\ chan = <<>>
  /\ open = TRUE
  /\ sent = Elements(TxCells(<<Genesis>>))
  /\ again = FALSE

(* The next block, with its cells.                                         *)
Advance ==
  /\ \E b \in Block : pos' = Append(pos, b)
  /\ \A e \in Endpoint : Agrees(e, pos')
  /\ owed' = owed \cup Elements(TxCells(pos')) \cup Elements(CbCells(pos'))
  /\ UNCHANGED <<chain, chan, open, sent, again>>

(* The position goes back, by at most RollbackSpan blocks.                 *)
Back ==
  /\ \E n \in 0..Number(pos) :
       n >= Number(pos) - RollbackSpan /\ pos' = Ancestor(pos, n)
  /\ \A e \in Endpoint : HasBlock(e, pos')
  /\ again' = TRUE
  /\ UNCHANGED <<chain, owed, chan, open, sent>>

Spendable(c) ==
  c.cellbase => \A e \in Endpoint : IsMatured(Number(chain[e]), Number(c.block))

(* A cell is paid.  One that is owed twice can still be owed, once.        *)
Pay(c) ==
  /\ open
  /\ Spendable(c)
  /\ chan' = Append(chan, c)
  /\ sent' = sent \cup {c}
  /\ owed' = owed \ {c} \/ (again /\ owed' = owed)
  /\ UNCHANGED <<chain, pos, open, again>>

Receive ==
  /\ open
  /\ chan # <<>>
  /\ chan' = Tail(chan)
  /\ UNCHANGED <<chain, pos, owed, open, sent, again>>

DropReceiver ==
  /\ open
  /\ open' = FALSE
  /\ UNCHANGED <<chain, pos, owed, chan, sent, again>>

Nodes == NodesNext /\ UNCHANGED <<pos, owed, chan, open, sent, again>>

Next ==
  \/ Advance
  \/ Back
  \/ \E c \in owed : Pay(c)
  \/ Receive
  \/ DropReceiver
  \/ Nodes

Spec == Init /\ [][Next]_feedVars

=============================================================================
