----------------------------- MODULE UtxoPuller -----------------------------
(***************************************************************************)
(* The chain monitor: Account::pull_forever (tps-bench/src/account.rs),    *)
(* the thread that follows the chain and sends every cell owned by the     *)
(* account to the benchmark through a bounded channel.  Each RPC call and  *)
(* each send on the channel is a step of its own, interleaved with the     *)
(* nodes (CkbNodes) and with the receiver of the channel.                  *)
(*                                                                         *)
(* The thread starts on a fresh chain: its from_header is the genesis      *)
(* block, the matured cells of genesis have been handed over and its       *)
(* cellbase cells are the initial list of un-matured cells.                *)
(***************************************************************************)
EXTENDS OwnedCells

CONSTANT
  Capacity      (* capacity of the bounded channel (2000 in threads.rs)    *)

ASSUME PullerAssumption == Capacity \in Nat \ {0}

VARIABLES
  pc,           (* where the thread is in the loop of pull_forever         *)
  cur,          (* current_header                                          *)
  probe,        (* the header get_fixed_header is comparing, or <<>>       *)
  asked,        (* the endpoints that have confirmed probe are 1..asked    *)
  outbox,       (* matured cells of the current block, still to send       *)
  unmatureds,   (* cellbase cells that wait, with their block number       *)
  chan,         (* the bounded channel                                     *)
  open,         (* the receiving end has not been dropped                  *)
  sent,         (* history: every cell ever sent                           *)
  rolledBack    (* history: rollback_for_reorg has been called             *)

pullerVars == <<pc, cur, probe, asked, outbox, unmatureds>>
channelVars == <<chan, open, sent>>
vars == <<chain, pullerVars, channelVars, rolledBack>>

-----------------------------------------------------------------------------
(* Faulty: wrapping instead of saturating subtraction.                     *)
RollbackNumberWraps(n) ==
  IF n >= RollbackSpan THEN n - RollbackSpan ELSE MaxHeight + 1

(* Faulty: the block at the height of the old header is returned.          *)
RollbackNumberStays(n) == n

(* old_header.number().saturating_sub(1000)                                *)
RollbackNumber(n) == IF n > RollbackSpan THEN n - RollbackSpan ELSE 0

(* Faulty: the number of the parent block is stored.                       *)
WaitingOffByOne(h, s) ==
  [i \in 1..Len(s) |-> [number |-> Number(h) - 1, cell |-> s[i]]]

-----------------------------------------------------------------------------
Waiting(h, s) == [i \in 1..Len(s) |-> [number |-> Number(h), cell |-> s[i]]]

Init ==
  /\ NodesInit
  /\ pc = "poll"
  /\ cur = <<Genesis>>
  /\ probe = <<>>
  /\ asked = 0
  /\ outbox = <<>>
  /\ unmatureds = Waiting(<<Genesis>>, CbCells(<<Genesis>>))
  /\ chan = <<>>
  /\ open = TRUE
  /\ sent = Elements(TxCells(<<Genesis>>))
  /\ rolledBack = FALSE

(* net.get_fixed_header(current_header.number() + 1): ask the first        *)
(* endpoint.  When it has no such block the thread sleeps: a stutter.      *)
Poll ==
  /\ pc = "poll"
  /\ HasHeader(1, Number(cur) + 1)
  /\ probe' = HeaderByNumber(1, Number(cur) + 1)
  /\ asked' = 1
  /\ pc' = "compare"
  /\ UNCHANGED <<chain, cur, outbox, unmatureds, channelVars, rolledBack>>

(* Every other endpoint, in order, must have the same header; otherwise    *)
(* get_fixed_header returns None and the thread sleeps.                    *)
Compare ==
  /\ pc = "compare"
  /\ asked < NE
  /\ IF HasBlock(asked + 1, probe)
     THEN asked' = asked + 1 /\ UNCHANGED <<pc, probe>>
     ELSE pc' = "poll" /\ probe' = <<>> /\ asked' = 0
  /\ UNCHANGED <<chain, cur, outbox, unmatureds, channelVars, rolledBack>>

(* Faulty: the answer of the first endpoint is enough.                     *)
FirstAgrees == asked = 1

AllAgree == asked = NE

(* Faulty: blocks are compared by number instead of by hash.               *)
SameParentByNumber == Len(probe) = Len(cur) + 1

(* The header is fixed.  If it does not extend current_header, the chain   *)
(* has been re-organised: roll back, reading the first endpoint.           *)
SameParent == Parent(probe) = cur

Fixed ==
  /\ pc = "compare"
  /\ AllAgree
  /\ pc' = IF SameParent THEN "fetch" ELSE "rollback"
  /\ UNCHANGED <<chain, cur, probe, asked, outbox, unmatureds, channelVars,
                 rolledBack>>

(* rollback_for_reorg, which panics when the endpoint has no such block.   *)
Rollback ==
  /\ pc = "rollback"
  /\ IF HasHeader(1, RollbackNumber(Number(cur)))
     THEN /\ cur' = HeaderByNumber(1, RollbackNumber(Number(cur)))
          /\ pc' = "poll"
     ELSE pc' = "panicked" /\ UNCHANGED cur
  /\ probe' = <<>>
  /\ asked' = 0
  /\ rolledBack' = TRUE
  /\ UNCHANGED <<chain, outbox, unmatureds, channelVars>>

(* net.get_block(header.hash()) on the first endpoint: None when the block *)
(* has left its main chain in the meantime.                                *)
Fetch ==
  /\ pc = "fetch"
  /\ IF HasBlock(1, probe)
     THEN cur' = probe /\ outbox' = TxCells(probe) /\ pc' = "send"
     ELSE pc' = "poll" /\ UNCHANGED <<cur, outbox>>
  /\ probe' = <<>>
  /\ asked' = 0
  /\ UNCHANGED <<chain, unmatureds, channelVars, rolledBack>>

(* utxo_sender.send(c), which blocks while the channel is full.            *)
Send(c) ==
  /\ open
  /\ Len(chan) < Capacity
  /\ chan' = Append(chan, c)
  /\ sent' = sent \cup {c}
  /\ UNCHANGED open

SendMatured ==
  /\ pc = "send"
  /\ outbox # <<>>
  /\ Send(Head(outbox))
  /\ outbox' = Tail(outbox)
  /\ UNCHANGED <<chain, pc, cur, probe, asked, unmatureds, rolledBack>>

(* The loop over unmatureds.first()                                        *)
FirstHasMatured ==
  unmatureds # <<>> /\ IsMatured(Number(cur), Head(unmatureds).number)

(* Faulty: the cell is looked at, and left in the list.                    *)
PeekFirst(s) == s

(* What unmatureds.remove(0) leaves.                                       *)
RemoveFirst(s) == Tail(s)

SendUnmatured ==
  /\ pc = "send"
  /\ outbox = <<>>
  /\ FirstHasMatured
  /\ Send(Head(unmatureds).cell)
  /\ unmatureds' = RemoveFirst(unmatureds)
  /\ UNCHANGED <<chain, pc, cur, probe, asked, outbox, rolledBack>>

(* Collect the un-matured cells of the block, and go round the loop.       *)
Collect ==
  /\ pc = "send"
  /\ outbox = <<>>
  /\ ~ FirstHasMatured
  /\ unmatureds' = unmatureds \o Waiting(cur, CbCells(cur))
  /\ pc' = "poll"
  /\ UNCHANGED <<chain, cur, probe, asked, outbox, channelVars, rolledBack>>

(* A send fails because the receiver is gone: pull_forever returns.        *)
Return ==
  /\ pc = "send"
  /\ ~ open
  /\ outbox # <<>> \/ FirstHasMatured
  /\ pc' = "returned"
  /\ UNCHANGED <<chain, cur, probe, asked, outbox, unmatureds, channelVars,
                 rolledBack>>

Puller == \/ Poll \/ Compare \/ Fixed \/ Rollback \/ Fetch
          \/ SendMatured \/ SendUnmatured \/ Collect \/ Return

(* The benchmark loop takes a cell from the channel.                       *)
Receive ==
  /\ open
  /\ chan # <<>>
  /\ chan' = Tail(chan)
  /\ UNCHANGED <<chain, pullerVars, open, sent, rolledBack>>

(* The receiving thread ends and drops its end of the channel.             *)
DropReceiver ==
  /\ open
  /\ open' = FALSE
  /\ UNCHANGED <<chain, pullerVars, chan, sent, rolledBack>>

Nodes == NodesNext /\ UNCHANGED <<pullerVars, channelVars, rolledBack>>

Next == Puller \/ Receive \/ DropReceiver \/ Nodes

Spec == Init /\ [][Next]_vars

FairSpec ==
  /\ Spec
  /\ WF_vars(Puller)
  /\ WF_vars(Receive)

-----------------------------------------------------------------------------
(* The types of the variables.  An un-matured cell carries the u64 number  *)
(* of a block, so it is never negative.                                    *)
TypeOK ==
  /\ chain \in [Endpoint -> Header]
  /\ pc \in {"poll", "compare", "rollback", "fetch", "send", "panicked",
            "returned"}
  /\ cur \in Header
  /\ probe \in Header
  /\ asked \in 0..NE
  /\ outbox \in Seq(Cell)
  /\ unmatureds \in Seq([number : Nat, cell : Cell])
  /\ chan \in Seq(Cell)
  /\ open \in BOOLEAN
  /\ sent \subseteq Cell
  /\ rolledBack \in BOOLEAN

(* What the thread holds to be sent: in its local vectors matured and      *)
(* unmatured, or in unmatureds.                                            *)
Owed ==
  Elements(outbox) \cup {w.cell : w \in Elements(unmatureds)}
    \cup (IF pc \in {"send", "returned"} THEN Elements(CbCells(cur)) ELSE {})

Accounted(c) == c \in sent \cup Owed

BlockAccounted(h) ==
  /\ \A i \in 1..Len(TxCells(h)) : Accounted(TxCells(h)[i])
  /\ \A i \in 1..Len(CbCells(h)) : Accounted(CbCells(h)[i])

(* Every owned cell of every block from genesis to current_header, on the  *)
(* branch of current_header, has been sent or is still held, whatever the  *)
(* sequence of polls, failed get_block calls and rollbacks that led there. *)
Coverage == \A n \in 0..Number(cur) : BlockAccounted(Ancestor(cur, n))

(* No owned cell is skipped, however the nodes re-organise between the RPC *)
(* calls of get_fixed_header, rollback_for_reorg and get_block: from       *)
(* RollbackSpan blocks behind current_header downwards, every cell of the  *)
(* main chain of every node is accounted for.                              *)
NothingMissed ==
  \A e \in Endpoint : \A n \in 0..(Number(cur) - RollbackSpan) :
    BlockAccounted(Ancestor(chain[e], n))

(* rollback_for_reorg always finds the header it asks for: its unwrap_or_  *)
(* else branch, which panics the thread, is not reached.                   *)
NeverPanics == pc # "panicked"

(* A cellbase cell is sent only after the cellbase maturity has passed on  *)
(* the main chain of every node, so that any of them accepts its spending, *)
(* although the thread only looks at the number of current_header.         *)
NoImmatureReward ==
  \A c \in sent : c.cellbase =>
    \A e \in Endpoint : Number(chain[e]) > Number(c.block) + Maturity

(* Seen from the receiver, the thread implements UtxoFeed: every RPC call, *)
(* retry and comparison between two moves of current_header is invisible.  *)
Feed == INSTANCE UtxoFeed WITH pos <- cur, owed <- Owed, again <- rolledBack

(* pull_forever goes block by block over blocks that every endpoint has    *)
(* had, owes all their cells, pays rewards that every node would accept,   *)
(* pays each cell once until it goes back, and goes back to a block that   *)
(* every node has.                                                         *)
FeedSpec == Feed!Spec

(* Until rollback_for_reorg is called, every send of pull_forever is of a  *)
(* cell that was never sent: blocks dropped by get_block, and nodes that   *)
(* disagree, make the thread retry without repeating itself.               *)
NoRepeat ==
  [][Len(chan') > Len(chan) => rolledBack \/ chan'[Len(chan')] \notin sent]_vars

(* unmatureds is sorted by block number at first, but a rollback appends   *)
(* lower numbers behind higher ones, and only the first cell of the list   *)
(* is examined.  A matured cell is held back by those before it, for at    *)
(* most MaxWait blocks.                                                    *)
MaxWait == IF RollbackSpan > 1 THEN 2 * RollbackSpan - 3 ELSE 0

HeldBack ==
  pc = "poll" => \A i \in 1..Len(unmatureds) :
    Number(cur) <= unmatureds[i].number + Maturity + MaxWait

-----------------------------------------------------------------------------
Agreed == \A e \in Endpoint : chain[e] = chain[1]

(* Every owned cell of the common chain that is mature, with the delay of  *)
(* HeldBack, has been sent.                                                *)
AllSent ==
  \A n \in 0..Number(chain[1]) :
    /\ LET cells == TxCells(Ancestor(chain[1], n))
       IN  \A i \in 1..Len(cells) : cells[i] \in sent
    /\ n + Maturity + MaxWait < Number(chain[1]) =>
         LET cells == CbCells(Ancestor(chain[1], n))
         IN  \A i \in 1..Len(cells) : cells[i] \in sent

(* A re-organisation that has not yet outgrown current_header cannot be    *)
(* noticed: get_fixed_header asks for the next number only.                *)
Unnoticed == Len(cur) >= Len(chain[1]) /\ cur # chain[1]

(* When the nodes come to agree for good, on a chain that no longer moves  *)
(* if there are several, and the benchmark keeps receiving cells, every    *)
(* mature cell of that chain is delivered in the end: no full channel,     *)
(* failed comparison or rollback stops the thread for good.  A chain whose *)
(* re-organisation pull_forever does not see is excused.                   *)
Delivered == <>[](Agreed /\ open) => []<>(AllSent \/ Unnoticed)

=============================================================================
