------------------------------ MODULE Startup -------------------------------
(***************************************************************************)
(* How bench mode starts (tps-bench/src/main.rs, threads.rs, miner.rs and  *)
(* the two scans of account.rs).  The background miner is spawned.  The    *)
(* main thread collects the cells of the miner: it scans the chain up to   *)
(* the confirmed tip and mines until they have the capacity configured; a  *)
(* chain monitor takes over, and a transfer thread moves what it sends to  *)
(* the bencher.  Then the main thread does the same for the bencher, and   *)
(* the benchmarks start.  When the miner and the bencher are one account,  *)
(* only the second half takes place.                                       *)
(*                                                                         *)
(* There is one node and its chain is not re-organised (UtxoPuller is      *)
(* about that).  Block n holds the reward of the miner, the cellbase cell  *)
(* <<"reward", n>>, and transfers.  The transfer of reward m spends it and *)
(* makes the cell <<"paid", m>> of the bencher.  A cell counts for one     *)
(* unit of capacity.  The channels are as large as needed.                 *)
(***************************************************************************)
EXTENDS Integers, Sequences, FiniteSets, Functions

CONSTANTS
  Histories,    (* the chains that a run can find: transfers of each block *)
  Confirmation, (* CONFIRMATION_BLOCKS                                     *)
  Maturity,     (* 1800 * CELLBASE_MATURITY                                *)
  Enough,       (* ensure_matured_capacity_greater_than                    *)
  PoolLimit,    (* the transfers that the transaction pool has room for    *)
  MaxHeight     (* bound of the model: no block is mined beyond it         *)

(* A node has accepted these chains: a transfer moves the reward of an     *)
(* earlier block.                                                          *)
ASSUME StartupAssumption ==
  /\ Histories \subseteq Seq(SUBSET Nat)
  /\ \A h \in Histories :
       Len(h) <= MaxHeight /\ \A n \in 1..Len(h) : h[n] \subseteq 1..(n - 1)
  /\ {Confirmation, Maturity, Enough, PoolLimit, MaxHeight} \subseteq Nat

Account == {"miner", "bencher"}
Thread == {"main", "background"}

VARIABLES
  same,         (* the miner and the bencher are one account               *)
  chain,        (* chain[n] is the set of the rewards moved by block n     *)
  pool,         (* the rewards moved by the transaction pool of the node   *)
  template,     (* template[t]: the block that thread t is to submit       *)
  pc,           (* where the main thread is in spawn_pull_utxos            *)
  pulling,      (* the number of the block it has scanned, or mined        *)
  acct,         (* for which account                                       *)
  utxoset,      (* its matured cells                                       *)
  unmatureds,   (* its cellbase cells that wait                            *)
  header,       (* number of its current_header                            *)
  mined,        (* history: mined[a] blocks were mined to ensure capacity  *)
  at,           (* the chain monitor of a has followed blocks up to at[a]  *)
  waiting,      (* its list of un-matured cells                            *)
  chan,         (* the cells it has sent that are not yet received         *)
  transfer      (* the transfer thread: "off", "on", or what it panicked   *)
                (* of: an input that is "spent", a pool that is "full"     *)

nodeVars == <<chain, pool>>
scanVars == <<utxoset, unmatureds, header>>
monitorVars == <<at, waiting, chan>>
vars == <<same, nodeVars, template, pc, pulling, acct, scanVars, mined,
          monitorVars, transfer>>

Reward(n) == <<"reward", n>>
Paid(n) == <<"paid", n>>
NumberOf(cell) == cell[2]

(* get_owned_utxos of block n: (matured, unmatured)                        *)
MaturedIn(a, n) == IF a = "bencher" THEN {Paid(m) : m \in chain[n]} ELSE {}
UnmaturedIn(a, n) == IF a = "miner" \/ same THEN {Reward(n)} ELSE {}
SpentIn(n) == {Reward(m) : m \in chain[n]}

IsMatured(tip, n) == tip > n + Maturity

-----------------------------------------------------------------------------
(* Faulty: spent cells are not removed.                                    *)
ScanForgetsSpent(n) ==
  LET ready == {c \in UnmaturedIn(acct, n) : IsMatured(header, n)}
  IN  /\ utxoset' = utxoset \cup MaturedIn(acct, n) \cup ready
      /\ unmatureds' = unmatureds \cup (UnmaturedIn(acct, n) \ ready)

(* One turn of the loop of pull_until: block n, on the way to header.      *)
Scan(n) ==
  LET ready == {c \in UnmaturedIn(acct, n) : IsMatured(header, n)}
  IN  /\ utxoset' = (utxoset \cup MaturedIn(acct, n) \cup ready) \ SpentIn(n)
      /\ unmatureds' =
           (unmatureds \cup (UnmaturedIn(acct, n) \ ready)) \ SpentIn(n)

(* pull_from_block_number: unmatureds is sorted there, and its prefix of   *)
(* cells that are mature at n is all of them.                              *)
PullFrom(n) ==
  LET left == (unmatureds \ SpentIn(n)) \cup UnmaturedIn(acct, n)
      ready == {c \in left : IsMatured(n, NumberOf(c))}
  IN  /\ utxoset' = ((utxoset \cup MaturedIn(acct, n)) \ SpentIn(n)) \cup ready
      /\ unmatureds' = left \ ready

Init ==
  /\ same \in BOOLEAN
  /\ chain \in Histories
  /\ pool = {}
  /\ template = [t \in Thread |-> <<>>]
  /\ pc = "scan"
  /\ pulling = 0
  /\ acct = IF same THEN "bencher" ELSE "miner"
  /\ utxoset = {}
  /\ unmatureds = {}
  /\ header = 0
  /\ mined = [a \in Account |-> 0]
  /\ at = [a \in Account |-> 0]
  /\ waiting = [a \in Account |-> <<>>]
  /\ chan = [a \in Account |-> <<>>]
  /\ transfer = "off"

(* Faulty: plain instead of saturating subtraction.                        *)
ConfirmedBelowZero == Len(chain) - Confirmation

ConfirmedNumber == IF Len(chain) > Confirmation THEN Len(chain) - Confirmation ELSE 0

(* get_confirmed_tip_header; pull_until begins.                            *)
Confirmed ==
  /\ pc = "scan"
  /\ header' = ConfirmedNumber
  /\ utxoset' = {}
  /\ unmatureds' = {}
  /\ pulling' = 0
  /\ pc' = "until"
  /\ UNCHANGED <<nodeVars, template, acct, mined, monitorVars, transfer>>

(* get_block_by_number of the next block, up to header.                    *)
PullUntil ==
  /\ pc = "until"
  /\ IF pulling < header
     THEN Scan(pulling + 1) /\ pulling' = pulling + 1 /\ UNCHANGED pc
     ELSE pc' = "ensure" /\ UNCHANGED <<utxoset, unmatureds, pulling>>
  /\ UNCHANGED <<nodeVars, template, acct, header, mined, monitorVars, transfer>>

(* generate_block: get_block_template ...                                  *)
GetTemplate(t) ==
  /\ template[t] = <<>>
  /\ Len(chain) < MaxHeight
  /\ template' = [template EXCEPT ![t] = <<Len(chain) + 1, pool>>]

(* ... and submit_block, where another block of that number may have come  *)
(* first: the node then says Some(_) or None.                              *)
Submit(t, accepted) ==
  /\ template[t] # <<>>
  /\ template' = [template EXCEPT ![t] = <<>>]
  /\ IF template[t][1] = Len(chain) + 1
     THEN /\ accepted
          /\ chain' = Append(chain, template[t][2])
          /\ pool' = pool \ template[t][2]
     ELSE UNCHANGED nodeVars

MinerThread ==
  /\ \/ GetTemplate("background") /\ UNCHANGED nodeVars
     \/ \E accepted \in BOOLEAN : Submit("background", accepted)
  /\ UNCHANGED <<same, pc, pulling, acct, scanVars, mined, monitorVars, transfer>>

Matured == Cardinality(utxoset)

EnsureTemplate ==
  /\ pc = "ensure"
  /\ Matured < Enough
  /\ GetTemplate("main")
  /\ pc' = "submit"
  /\ UNCHANGED <<nodeVars, pulling, acct, scanVars, mined, monitorVars, transfer>>

(* The main thread goes on with pull_from_block_number when it gets Some.  *)
EnsureSubmit ==
  /\ pc = "submit"
  /\ \E accepted \in BOOLEAN :
       /\ Submit("main", accepted)
       /\ IF accepted
          THEN /\ pulling' = template["main"][1]
               /\ mined' = [mined EXCEPT ![acct] = @ + 1]
               /\ pc' = "pull"
          ELSE pc' = "ensure" /\ UNCHANGED <<pulling, mined>>
  /\ UNCHANGED <<acct, scanVars, monitorVars, transfer>>

EnsurePull ==
  /\ pc = "pull"
  /\ PullFrom(pulling)
  /\ pc' = "ensure"
  /\ UNCHANGED <<nodeVars, template, pulling, acct, header, mined, monitorVars,
                 transfer>>

(* The cells of a hash map, in any order, and sorted by number.            *)
Orders(S) == Bijection(1..Cardinality(S), S)

Sorted(S) ==
  {s \in Orders(S) : \A i, j \in DOMAIN s : i < j => NumberOf(s[i]) <= NumberOf(s[j])}

(* Faulty: the chain monitor goes on from the tip ...                      *)
FollowFromTip == Len(chain)

(* ... or with the block of header.                                        *)
FollowFromBefore == IF header = 0 THEN 0 ELSE header - 1

FollowFrom == header

(* The capacity suffices.  The chain monitor is spawned: it sends the      *)
(* matured cells, and follows the chain from header on.  spawn_transfer_   *)
(* utxos comes after it, for the miner only.                               *)
Spawn ==
  /\ pc = "ensure"
  /\ Matured >= Enough
  /\ at' = [at EXCEPT ![acct] = FollowFrom]
  /\ \E s \in Sorted(unmatureds) : waiting' = [waiting EXCEPT ![acct] = s]
  /\ \E s \in Orders(utxoset) : chan' = [chan EXCEPT ![acct] = s]
  /\ IF acct = "miner"
     THEN transfer' = "on" /\ acct' = "bencher" /\ pc' = "scan"
     ELSE pc' = "done" /\ UNCHANGED <<transfer, acct>>
  /\ UNCHANGED <<nodeVars, template, pulling, scanVars, mined>>

Main ==
  /\ Confirmed \/ PullUntil \/ EnsureTemplate \/ EnsureSubmit \/ EnsurePull \/ Spawn
  /\ UNCHANGED same

Spawned(a) == IF a = "miner" THEN acct = "bencher" ELSE pc = "done"

(* pull_forever goes over the next block: its matured cells, then those    *)
(* that are first in the list and mature, are sent; its cellbase cell is   *)
(* put last.  The thread ends with the transfer thread.                    *)
Follow(a) ==
  LET n == at[a] + 1
      full == waiting[a]
      IsReady(i) == \A j \in 1..i : IsMatured(n, NumberOf(full[j]))
      k == Cardinality({i \in DOMAIN full : IsReady(i)})
  IN  /\ Spawned(a)
      /\ a = "miner" => transfer = "on"
      /\ n <= Len(chain)
      /\ at' = [at EXCEPT ![a] = n]
      /\ \E s \in Orders(MaturedIn(a, n)) :
           chan' = [chan EXCEPT ![a] = (@ \o s) \o SubSeq(full, 1, k)]
      /\ \E s \in Orders(UnmaturedIn(a, n)) :
           waiting' = [waiting EXCEPT ![a] = SubSeq(full, k + 1, Len(full)) \o s]
      /\ UNCHANGED <<same, nodeVars, template, pc, pulling, acct, scanVars, mined,
                     transfer>>

(* The rewards moved by the blocks up to n, and by all.                    *)
MovedBy(n) == UNION {chain[i] : i \in 1..n}
Moved == MovedBy(Len(chain))

(* The transactions of the benchmarks, once they run, may fill the pool.   *)
PoolMayBeFull == Cardinality(pool) >= PoolLimit \/ pc = "done"

(* spawn_transfer_utxos: send_transaction panics on every error.  The node *)
(* rejects a transaction when its pool is full, and when the input of it   *)
(* is spent or being spent; nothing is sent again, and nothing waits.      *)
TransferCell ==
  /\ transfer = "on"
  /\ chan["miner"] # <<>>
  /\ chan' = [chan EXCEPT !["miner"] = Tail(@)]
  /\ LET m == NumberOf(Head(chan["miner"]))
     IN  \/ /\ PoolMayBeFull
            /\ transfer' = "full" /\ UNCHANGED pool
         \/ /\ m \in pool \cup Moved
            /\ transfer' = "spent" /\ UNCHANGED pool
         \/ /\ m \notin pool \cup Moved
            /\ Cardinality(pool) < PoolLimit
            /\ pool' = pool \cup {m} /\ UNCHANGED transfer
  /\ UNCHANGED <<same, chain, template, pc, pulling, acct, scanVars, mined, at,
                 waiting>>

Next == Main \/ MinerThread \/ (\E a \in Account : Follow(a)) \/ TransferCell

Spec == Init /\ [][Next]_vars

(* The threads go on, and the node accepts a block from time to time.      *)
FairSpec ==
  /\ Spec
  /\ WF_vars(Main)
  /\ WF_vars(MinerThread)
  /\ \A a \in Account : WF_vars(Follow(a))
  /\ WF_vars(TransferCell)

-----------------------------------------------------------------------------
Cells == {"reward", "paid"} \X (1..Len(chain))

(* The types of the variables.                                             *)
TypeOK ==
  /\ same \in BOOLEAN
  /\ chain \in Seq(SUBSET (1..MaxHeight))
  /\ pool \subseteq 1..Len(chain)
  /\ template \in
       [Thread -> {<<>>} \cup ((1..MaxHeight) \X SUBSET (1..Len(chain)))]
  /\ pc \in {"scan", "until", "ensure", "submit", "pull", "done"}
  /\ pulling \in 0..Len(chain)
  /\ acct \in Account
  /\ utxoset \subseteq Cells
  /\ unmatureds \subseteq Cells
  /\ header \in 0..Len(chain)
  /\ mined \in [Account -> Nat]
  /\ at \in [Account -> 0..Len(chain)]
  /\ waiting \in [Account -> Seq(Cells)]
  /\ chan \in [Account -> Seq(Cells)]
  /\ transfer \in {"off", "on", "spent", "full"}

LiveAt(a, n) ==
  LET rewards == {Reward(m) : m \in (1..n) \ MovedBy(n)}
      paid == {Paid(m) : m \in MovedBy(n)}
  IN  IF a = "miner" THEN rewards ELSE IF same THEN rewards \cup paid ELSE paid

Mature(a, n) ==
  {c \in LiveAt(a, n) : c[1] = "reward" => n > NumberOf(c) + Maturity}

(* What the main thread counts to decide that the capacity is sufficient   *)
(* is really there: every cell of utxoset is live and mature on the chain, *)
(* although the blocks of the background miner between those it mines, and *)
(* those above the confirmed tip, are not scanned.  It holds when nothing  *)
(* was transferred in the blocks above the confirmed tip (Settled).        *)
CountedIsLive ==
  pc \in {"ensure", "submit", "pull"} => utxoset \subseteq Mature(acct, Len(chain))

(* The hand-over from the main thread to the chain monitor leaves no cell  *)
(* out, whatever the background miner did meanwhile: a live cell of the    *)
(* account is in the channel, in the list, or in a block yet to be read.   *)
NothingLeftOut ==
  /\ transfer = "on" => \A m \in (1..at["miner"]) \ (Moved \cup pool) :
       Reward(m) \in Range(chan["miner"]) \cup Range(waiting["miner"])
  /\ pc = "done" => LiveAt("bencher", at["bencher"]) \subseteq
       Range(chan["bencher"]) \cup Range(waiting["bencher"])

(* When no block had to be mined to ensure the capacity of the miner, the  *)
(* transfer thread spends no cell twice, and a full pool is all that can   *)
(* end it: the chain monitor begins exactly where pull_until ended, and    *)
(* sends no cell that it has sent, or that an earlier run has moved.       *)
SpendsOnce == mined["miner"] = 0 => transfer # "spent"

(* "Miner will generate blocks until capacity is enough for benching": the *)
(* loop ends when mature live cells amount to the capacity configured.     *)
CapacityEnsured ==
  pc = "ensure" /\ Matured >= Enough =>
    Cardinality(Mature(acct, Len(chain))) >= Enough

(* "Transfer all miner's utxo to bencher": a mature reward is moved in the *)
(* end, unless the pool was full, or the chain does not grow enough for    *)
(* those before it in the list of the chain monitor to mature.             *)
Moving(m) ==
  \/ m \in Moved \cup pool
  \/ transfer = "on" /\ Reward(m) \in Range(waiting["miner"])
  \/ transfer = "full"

AllTransferred ==
  \A m \in 1..MaxHeight :
    (transfer # "off" /\ Len(chain) > m + Maturity) ~> Moving(m)

=============================================================================
