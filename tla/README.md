# tps-bench in TLA+

`tps-bench` measures how many transactions per second a network of CKB nodes
commits.  It follows the chain of the nodes for the cells of a *bencher*
account, turns them into transfers from the bencher to itself, submits these to
all nodes as fast as it can, and reads the result off the chain.  This directory
holds TLA+ models of that program (`src/tps-bench/src`), the TLC instances that
check them, and proofs, checked by TLAPS, of what matters most.

A model-checker file is run with `tlc -config X.cfg M.tla`, a proof module with
`tlapm M.tla`; `PROJECT.json` lists the runs, the mutants that show each
property can fail, the source lines that each definition stands for, the
hazards of the code and the theorems.

## 1. The system

### Components

| Component | Source | State | Operations |
|---|---|---|---|
| nodes behind JSON-RPC | `rpc.rs` (client) | main chain, transaction pool (external) | `get_header_by_number`, `get_block`, `get_block_template`, `submit_block`, `send_transaction`, `tx_pool_info` |
| network view | `net.rs` | the list of endpoints | `get_fixed_header`, `get_confirmed_tip_header`, `get_confirmed_tip_block` |
| chain monitor | `account.rs` `pull_forever` | `current_header`, `unmatureds`, the sending end of a bounded channel | poll, compare, roll back, fetch, send, collect |
| first scan | `account.rs` `pull_until`, `pull_from_block_number` | `utxoset`, `unmatureds` | scan a block; add matured cells, remove spent ones |
| startup | `threads.rs`, `main.rs` | the cells of miner and bencher | mine until the capacity suffices, spawn the chain monitors and the transfer thread |
| miner | `miner.rs` | the block template it works on | `generate_block`, `generate_blocks`, `assert_block_assembler` |
| benchmark loop | `benchmark.rs` `bench` | `inputs`, `cursor`, the queue of each emitter, `net_notifier` | wait for empty pools, receive, build, `try_send`, look for metrics |
| emitters | `benchmark.rs` `spawn_transaction_emitter` | the transaction being sent | take, submit, retry while the pool is full |
| transfer arithmetic | `transfer.rs`, `util.rs`, `config.rs` | none | fee, threshold, split of the outputs |
| best-delay search | `benchmark.rs` `find_best_bench` | two delays, two results, the results to average | bisect |
| network monitor | `net_monitor.rs` | range of blocks, queue of recent blocks | `wait_custom_blocks_elapsed`, `wait_recent_blocktxns_nearly`, `wait_duration_time_elapsed` |
| metrics | `net_monitor.rs` `eval_blocks` | range, position, sum of transactions | reads the blocks again by number; used by the three methods and by metric mode |
| configuration, genesis, globals | `config.rs`, `command.rs`, `genesis_info.rs`, `global.rs` | constants | read once |
| deployment | `src/ansible`, `src/terraform`, `src/.github` | none | scripts |

### How they interact

    nodes --RPC--> chain monitor (miner)   --channel--> transfer thread --RPC--> nodes
    nodes --RPC--> chain monitor (bencher) --bounded channel--> bench --bounded queues--> emitters --RPC--> nodes
    nodes --RPC--> network monitor --net_notifier--> bench
    miner thread, main thread --get_block_template / submit_block--> nodes

Nothing is persisted and no lock is held across an RPC call: the threads share
the nodes, and the channels.  The nodes move between any two calls.

### What is hard, and what makes each part correct

* *Chain monitor.*  Headers are compared endpoint by endpoint and fetched in a
  later call, so a re-organisation falls between any two of them; it is noticed
  by the parent hash of the next block only and answered by going back 1000
  blocks; the list of immature rewards is not sorted after that, and only its
  first element is examined; the channel may be full in the middle of a block.
  Correct: no cell is missed, no reward is sent too early, nothing is sent twice
  without a re-organisation, the thread does not panic, and everything is
  delivered in the end.
* *Startup.*  Two scans and a hand-over read the chain at different moments
  while three threads change it.  Correct: what is counted is there, the
  hand-over leaves nothing out, the transfer thread spends no cell twice.  Any
  rejection by the node, that of a full pool too, ends that thread.
* *Benchmark.*  The emitters outlive the benchmark that started them; a full
  queue, a full pool and any other error are answered differently; the loop looks
  for its metrics only after it has sent something; the chain monitor and the
  measuring thread may panic, and a transaction may get lost.  Correct: no live
  cell is lost but those of the fault, none is spent twice, capacity is conserved,
  `bench` returns.
* *Network monitor.*  Blocks are chosen by number and read again by number
  later, one call each.  Correct: they are the same on all nodes and stay so, they
  are those of the benchmark, and what ends the thread is known.
* *Miner.*  The answer of the node is ignored in mine mode; the account of the
  rewards is checked on one template, and another one is mined.  Correct: the
  chain grows as much as was asked for, and a foreign account is noticed after at
  most one block that pays it, which takes a race with another miner.
* *Best delay.*  An integer bisection steered by measurements that may be
  anything, 0 and the largest `u64` among them.  Correct: it ends and panics only
  because of its first measurement, and no difference of delays wraps but in one
  known case.

## 2. The modules

| Module | Models | Used by |
|---|---|---|
| `CkbNodes` | the main chains of the nodes | `OwnedCells`, `NetMonitor` |
| `OwnedCells` | `get_owned_utxos`, `is_matured`: the cells of an account on a chain | `UtxoFeed`, `UtxoPuller` |
| `UtxoFeed` | what `pull_forever` promises to its receiver, abstractly | `UtxoPuller` (refinement) |
| `UtxoPuller` | `Account::pull_forever` with `Net::get_fixed_header` and the two ends of the channel | `MCUtxoPuller`, `UtxoPullerProofs` |
| `Transfer` | `construct_unsigned_transaction`, `estimate_fee`, the threshold of the loop | `Bench` |
| `Bench` | `BenchmarkConfig::bench`, the emitters, pools, faults, the loop of `main` over the benchmarks | `MCBench`, `BenchProofs` |
| `BestDelay` | `find_best_bench` | `MCBestDelay`, `BestDelayProofs` |
| `NetMonitor` | `wait_network_stabled` (three methods), `eval_blocks`, metric mode, `Net::get_confirmed_tip_header` | `MCNetMonitor`, `NetMonitorProofs` |
| `Startup` | `main`, `spawn_pull_utxos`, `spawn_transfer_utxos`, `pull_until`, `pull_from_block_number`, `construct_utxo_vec`, `generate_block` | `MCStartup`, `StartupProofs` |
| `Mining` | mine mode (`generate_blocks`), `assert_block_assembler`, `spawn_miner` | `MCMining`, `MiningProofs` |

The proofs are in `CkbNodesProofs` (lemmas on headers and nodes, for the next
two), `UtxoPullerProofs`, `NetMonitorProofs`,
`BestDelayProofs`, `MiningProofs`, `StartupProofs` and `BenchProofs` (of `Transfer`
too); `Sums` has the lemmas on sums over finite sets, for `NetMonitorProofs` and `BenchProofs`.
The `MC` modules only give constants their values.

Definitions whose comment begins with *Faulty* are plausible bugs in the code,
placed before the definition they would replace; no specification uses them.

**CkbNodes.**  A block hash commits to all ancestors, so a header is its path
from genesis: equal paths are equal hashes, and the parent is the path without
its last body.  `NewBlock` extends a chain, `Reorg` switches a node to any chain
that is not shorter and forks off at most `ReorgDepth` blocks below the tip.

**UtxoFeed and UtxoPuller.**  `UtxoFeed` says what the receiver of the channel
may rely on: a position moves block by block over blocks that every endpoint has
had; the cells of each block are owed until they are paid; a reward is paid once
every node would accept its spending; the position may go back by at most
`RollbackSpan` blocks, to a block that every endpoint has, and until it does so no
cell is paid twice.  In `UtxoPuller`, `cur` is `current_header`, `probe` and
`asked` are the header and the progress of `get_fixed_header`, `outbox` is what
remains of the vector `matured`.  `Poll` and `Compare` are one RPC call each;
`Fixed` decides between a rollback and the next block; `Rollback` is
`rollback_for_reorg` with its `saturating_sub` and its panic; `Fetch` is
`get_block`, which answers nothing when the block has left the main chain;
`SendMatured`, `SendUnmatured` are the sends, blocked while the channel is full;
`Collect` is the extension of `unmatureds` and the next turn; `Return` is a send
to a dropped receiver.  The sleep between two polls is a stutter.  `sent` and
`rolledBack` are history variables.  The refinement mapping is

    Feed == INSTANCE UtxoFeed WITH pos <- cur, owed <- Owed, again <- rolledBack

where `Owed` is what the thread holds in `matured`, in `unmatureds`, and, while
it is in the middle of a block, the cellbase cells it has yet to collect.
`Fetch` is the step `Advance`, `Rollback` is `Back`, the two sends are `Pay`; all
other steps of the thread are stutters.

**Bench.**  A cell is its position in `feed`, the capacities of all cells ever
created.  `Recv`, `TryEmit`, `Notify` are the three parts of the loop, and
`Disconnected` its early return when the channel is closed.  `Take` and `Offer`
are the emitter of an endpoint in a run; an emitter belongs to the run that
started it and outlives it.  `Start` begins a benchmark with empty `inputs`, which
are a local variable of `bench`.  `Deliver` is the chain monitor.  `Commit` is a node
that puts a transaction in a block: its outputs are appended to `feed`.  The
faults are `RollBack` (the chain monitor notices a re-organisation and sends
again what follows some earlier point, which is what `UtxoFeed` leaves possible),
`LostInTransit` and `LostByNode` (the emitter gets an error other than a full
pool, or a pool forgets a transaction), `MonitorPanics` and `MeasurePanics` (the
panic of a thread in any of its RPC calls).  `MaxFaults` bounds them kind by kind, `lost` is
the history of the cells that went with one of them.

**Startup.**  A cell counts one unit of capacity; the transfer of the reward of
block m makes the cell `<<"paid", m>>`.  `GetTemplate` and `Submit` are the two
RPC calls of `generate_block`, taken by the main thread and by the background
miner; a block whose number is taken is stale, and the node answers either way.
With `same`, miner and bencher are one account and only the bencher's half
happens.  `Confirmed` begins `pull_until`, and `PullUntil` is one turn of its loop:
one block.  The hash maps are sets; `construct_utxo_vec` puts the matured cells in
any order, and the others in any order by number.  `TransferCell` panics of what
the node rejects: an input that is spent or being spent, or a pool that is full.
The pool has room for `PoolLimit` transfers, and once the benchmarks run (`done`)
their transactions may fill it at any time.  `transfer` records which it was.

**NetMonitor.**  `ConfirmedTip` is a subroutine called from the methods: `back`
is where it returns to.  `Eval` begins `eval_blocks`, `ReadBlock` is one of its
calls, `Average` its division by the number of blocks.  `Pull` takes a block into
the queue; `PullNothing` is what it does with a window of 0, for which the loop
that makes room in the queue never ends (`spinning`).  Metric mode is a method
of the model: it loads no spec, so that `CONFIRMATION_BLOCKS` is 0.  `begun` is a
history variable, the height the nodes had in common when the warm-up began.

**Mining.**  The chain is the number of its tip.  `GetTemplate` and `Submit` are
taken by the main thread, the background miner and the other miners of the
network; `Assemble` is a turn of `assert_block_assembler`, which looks at one
template, while `GenerateTemplate` fetches the one that is mined.  `paying` and
`foreign` are history variables: the blocks with an output that bench mode
submitted before it started, and the blocks of other miners that the node took.

**BestDelay.**  A whole benchmark is one step with an arbitrary result, a `u64`
whose largest value is `Top`; sums and differences wrap as in a release build.

## 3. What TLC checks

| Run | Instance | Properties |
|---|---|---|
| `PullerEndpoints` | 2 endpoints, 2 bodies, height 4; re-organisations, span, maturity and channel of 1 | `TypeOK`, `NothingMissed`, `NoImmatureReward`, `NoRepeat`, `FeedSpec`, `Delivered` |
| `PullerReorg` | 1 endpoint, 2 bodies, height 4, re-organisations of 2, span 2, maturity and channel of 1 | `Coverage`, `HeldBack`, `NeverPanics` |
| `BenchFaults` | 2 benchmarks (1 output, then 2), 2 endpoints, cells of 5, 5 and 3, queues, pools and channel of 1, one fault of any kind and the panic of the chain monitor after it | `TypeOK`, `NoneStranded`, `NoDoubleSpend`, `CapacityConserved`, `Viable`, `Returns`, `EndsWithoutMonitor` |
| `BenchMonitor` (violated) | 1 endpoint, 1 re-organisation noticed | `MonitorSolvesIt` |
| `StartupSafety` | 3 histories, one account or two, confirmation 1, maturity 1, capacity 2, a pool of 2, height 7 | `TypeOK`, `CountedIsLive`, `NothingLeftOut`, `SpendsOnce` |
| `StartupCapacity` (violated) | a transfer above the confirmed tip, capacity 3, height 6 | `CapacityEnsured` |
| `StartupTransfer` (violated) | a fresh chain, capacity 1, height 5 | `AllTransferred` |
| `MonitorBlocks` | elapsed (warm-up 2, window 1), timed, nearly with a window of 0, and metric mode; 2 endpoints, height 4, confirmation 1, re-organisations of 1 | `TypeOK`, `TipIsCommon`, `TotalIsExact`, `RangeCovers`, `MeasuredIsRecent`, `PanicsOnlyOnEmpty`, `Returns` |
| `MonitorNearly` | windows of 2 and 4, margin 1; 2 endpoints, height 5, confirmation 1, re-organisations of 1 | `QueueIsChain`, `PanicsOnlyOnEmpty`, `MeasuredIsNearly` |
| `BestDelay` | a second of 24, near 6, largest number 63, results in {0, 1, 2, 5, 8, 20, 63} | `TypeOK`, `PanicsAtFirst`, `Halves`, `Ends` |
| `Mining` | 3 blocks asked for, first reward in block 3, tips 0 and 4, 3 blocks of other miners, height 6 | `TypeOK`, `GrowsByBlocks`, `NoticedEarly`, `GetsGoing` |
| `MiningBlocks` (violated) | the same | `GeneratesBlocks` |

`TypeOK` is checked once per module that has a specification of its own (that of
`UtxoFeed` is the property `FeedSpec`).

**The bounds.**  `MaxHeight` bounds the chains, `MaxFaults` the faults of
`Bench`, `PoolLimit` the pool of `Startup`, `MaxForeign` the blocks of other
miners, `MaxCount` the results that
`BestDelay` averages (the search ends below it, or `Ends` would fail), `FewCells`
(a state constraint of `PullerReorg` alone) the number of cells waiting and sent,
which re-organisations back and forth would otherwise grow for ever.

* `UtxoPuller` needs a chain high enough to be rolled back to its middle
  (height > `RollbackSpan` + 1), a channel that fills (1), and a maturity above
  0, so that rewards wait.  Two endpoints give every case of the comparison: the
  first, which is also read from, and one that is only compared.  With two,
  `Delivered` speaks of chains that have stopped moving, for the endpoints move one
  at a time, and agree at every moment only if none does.
  `RollbackSpan = ReorgDepth` is the edge: with `ReorgDepth = RollbackSpan + 1`
  TLC finds a cell that is missed.
* `Bench`: with queues, pools and a channel of one element all of them fill, the
  loop finds all queues full, and a pool is full while the next benchmark waits
  for it; a cell of 5 makes a transaction of the first benchmark and not of the
  second, so that inputs accumulate there.  One fault of any kind can fall at any
  moment of both, and the panic of the chain monitor at any moment after it, so
  that the chain monitor and a measuring thread can both be gone.
* `NetMonitor`: the chains outgrow the target, and re-organise before, between
  and after the calls that choose the range and those that read it.  The window
  of 2 is the one that empties the queue, that of 4 the least that leaves two
  blocks to compare, and that of 0 never has room.
  `Returns` says nothing of the method "nearly".
* `Startup`: the chain is high enough for a reward to mature, be counted, be
  transferred and for the bencher to be paid, and for three rewards to be sent, of
  which the pool takes two.
* `Mining`: the other miners can take the place of every block asked for, and
  bring the chain past the first reward between two calls.
* `BestDelay`: the first interval is 24, 12, 4, 3, 1 or 0 wide for these results,
  so the search has wide and near steps, a first step that is near already, a
  first interval that cannot be cut, and one that is empty; sums of results wrap.

**Deadlock.**  Every configuration has `CHECK_DEADLOCK FALSE`, because every one
of these systems may stop: the chains reach `MaxHeight`, the chain monitor
returns when its receiver is gone, the monitor and the search return, mine mode
ends, the benchmarks are over or the bencher runs out of capacity.  That nothing
stops too early is what the liveness properties say.

**Fairness.**  Weak fairness of each thread: the scheduler runs every thread, and
an RPC call returns or panics its thread (`rpc.rs`).  `UtxoPuller`: the thread,
and the receiver of its channel.  `Bench`: the main thread, the measuring thread,
each emitter, the chain monitor, and the commit of each pool (the program mines
in the background precisely so that blocks keep coming); no fault is fair.
`Startup`: each thread.  `Mining`: the main thread only.  `NetMonitor`: the
monitor.  Nothing is assumed of the nodes agreeing: `Delivered` and `Returns` of
`NetMonitor` have it as their hypothesis (`<>[]Agreed`), because neither thread
can do anything before that.

### What the checks show

* The chain monitor misses nothing for re-organisations up to `RollbackSpan`
  deep, repeats nothing before it rolls back, and holds a mature reward back for
  at most `2 * RollbackSpan - 3` blocks (the list is not sorted after a rollback).
  A re-organisation that has not outgrown `current_header` is invisible to it:
  until then the cells of the new branch are not delivered.  `Delivered` excuses
  that state (`Unnoticed`); no property bounds how long it lasts.
* The benchmark loses only the cells of a lost transaction, and the inputs
  collected when the chain monitor panics, as long as it sees no re-organisation;
  after one it still returns while it has capacity.  When the chain monitor dies,
  all benchmarks that are left return.
* The confirmed tip, the queue and the blocks that are summed up stay common to
  all nodes as long as re-organisations are not deeper than
  `CONFIRMATION_BLOCKS`.  The two tips of `wait_duration_time_elapsed` can
  nevertheless be out of order, by at most `ReorgDepth` blocks, when there are
  several endpoints: then the number of blocks, `end_number - from_number + 1`, is
  0, by which `eval_blocks` divides, or wraps around.  This, a window of 1 or 2
  and metric mode on a chain of one block are the only ways for the monitor to
  panic, if RPC calls succeed, and a window of 0 is the only way for it to loop
  for ever without a call (`PanicsOnlyOnEmpty`).
* The bisection of `find_best_bench` halves its interval and ends, unless the
  first result is above a million transactions per second: then the matching
  delay is 0, `max_send_delay - 1` wraps, and the loop never ends.  It panics only
  when the first result is 0, or so large that the matching delay is 1.  Both can
  come from `eval_blocks`, whose quotient is the largest `u64` when the blocks
  have no duration, and from a `bench` that returns 0.
* In mine mode a block that is not accepted has been replaced by another one, so
  that the chain grows as it should.  Bench mode looks at one template and mines
  the next: when another miner's block comes in between, it can mine a block that
  pays another account before it compares the two, but no second one
  (`NoticedEarly`).
* When the transfer thread starts, a full pool can end it at any time, and every
  reward that is left stays with the miner.  A spent input can do so only if blocks
  were mined for the capacity of the miner (`SpendsOnce`).

Four runs show the program to do something other than what its comments and
documentation say:

* `BenchMonitor`: "Chain reorg will cause many double-spent problem. Just ignore
  it. The chain monitor will solve it." (`benchmark.rs:173`).  A transaction of
  two inputs, one of them delivered for the second time, is rejected and dropped
  with the other one, which is live and will not be delivered again.
* `StartupCapacity`: "Miner will generate blocks until capacity is enough for
  benching" (`specs/dev.toml:7`).  Blocks above the confirmed tip are not
  scanned for spent cells, so the capacity counted may not be there.
* `StartupTransfer`: "Transfer all miner's utxo to bencher" (`main.rs:70`).  The
  blocks mined to ensure the capacity are read twice, their cells are sent
  twice, and the rejection of the second transfer panics the transfer thread.
* `MiningBlocks`: "`mine` subcommand will start a miner and generate `block_amount`
  blocks" (`src/tps-bench/README.md:20`).  `generate_blocks` counts a block
  that the node refused (`miner.rs:54`), so with other miners on the chain it
  generates fewer.

## 4. What is proved

For all values of the constants that satisfy the named assumptions:

| Module | Theorems |
|---|---|
| `UtxoPullerProofs` | `TypeCorrect`, `PanicFree`, `CoverageHolds`, `NothingIsMissed`, `RewardsAreMature`, `HeldBackBriefly`, `NeverRepeats`, `Implements` (`Spec => FeedSpec`) |
| `NetMonitorProofs` | `TypeCorrect`, `TipStaysCommon`, `TotalStaysExact`, `QueueStaysChain`, `PanicsAreExplained`, `RangeIsCovered`, `MeasuredRecently`, `MeasuredStaysNearly` |
| `MiningProofs` | `TypeCorrect`, `GrowsEnough`, `MistakesAreNoticed` |
| `BestDelayProofs` | `TypeCorrect`, `PanicsOnlyAtFirst`, `SearchHalves`, `EndlessIsForever` |
| `BenchProofs` | `TypeCorrect`, `CapacityStaysConserved`, `OutputsStayCells`, `NothingIsSpentTwice`, `NoCellIsStranded`, for any number of endpoints and benchmarks; `OutputsAreCells`, `OutputsAddUp`, for every total that meets the threshold of the loop and every number of outputs that the configuration allows |
| `StartupProofs` | `TypeCorrect`, `HandOverIsComplete`; `CapacityIsLive`, `CapacityIsEnsured` and `NoCellIsSpentTwice` for histories that have settled |

`MaxHeight` is arbitrary in all of them.  The assumptions that carry weight:

* `CellsAssumption`: `ReorgDepth <= RollbackSpan`, without which `NothingMissed`
  is false.  The code rolls back 1000 blocks.
* `MonitorAssumption`: `ReorgDepth <= Confirmation`, which is what
  `CONFIRMATION_BLOCKS` is configured for; without it `TipIsCommon` is false.
* `DelayAssumption`: `Near > 3`, so that the last step of a bisection is near (it
  is 200 in the code).  Results are any `u64`.
* `BenchAssumption`: the cells of the start are at least `MinCell`, as all cells
  on chain are, without which `Viable` is false of them.
* `SettledHistories`, a hypothesis of three theorems about the startup: when the
  program starts, no block above the confirmed tip holds a transfer.  The code
  does not see to it, it is up to who starts the program again; the run
  `StartupCapacity` is what happens otherwise: it refutes the property that
  `CapacityIsEnsured` states.  `HandOverIsComplete` does without.
* `StartupAssumption`: in the chain found at the start a transfer moves the reward
  of an earlier block, as the node has checked.

**The nodes** (`CkbNodesProofs`).  Whatever the nodes do, a header that a node
has agreed with once it agrees with ever after, but for its last `ReorgDepth`
blocks (`Agrees`), chains never get shorter (`NodesGrow`), and a block at least
`ReorgDepth` below an agreed header stays where it is (`Settled`).  Both threads
that read the nodes rest on these lemmas.

**The chain monitor.**  None of its properties is inductive.  The invariant is
built in six layers, each inductive given those before it:

1. `Shape`: the types, and how long `cur` and `probe` are at each `pc`.
2. `Anchored`: a header that a node has confirmed remains on its main chain but
   for its last `ReorgDepth` blocks.  A comparison that is out of date is
   therefore wrong only near the tip, which is what a rollback of `RollbackSpan`
   reaches below.
3. `Coverage`: what is owned up to `cur` is sent, in `outbox`, or waits.  It is
   preserved by a rollback because the header returned is an ancestor of the
   abandoned `cur` (`RollbackIsAncestor`, from `Anchored`), and by every send
   because a cell leaves a list only into `sent` (`CellStays`).
4. `Rewards`: a cellbase cell that has been sent is old enough on every chain.
5. `NearlySorted`: of two cells that wait, the first in the list is of a block at
   most `MaxWait` above that of the second.  This holds because the thread does
   not go back twice in a row: when it goes back from a block, the first endpoint
   has one more, and what is `RollbackSpan` below that stays (`InReach`).
6. `Fresh`: until the thread rolls back, what it holds is held once and was never
   sent.

`NothingMissed` follows from 2 and 3: `RollbackSpan` blocks behind `cur`, every
node has the blocks of `cur`.  `PanicFree` needs `Anchored` too: the first
endpoint still has a block of the number that is asked for.  In `Implements`, an
abstract `Advance` needs 2 (every endpoint has had the block), `Back` needs that
`cur` goes to an ancestor, and `Pay` needs 4 for the rewards and 6 to show that a
cell paid is no longer owed.

**The network monitor.**  Four layers: `Shape`, the types and which method is
where; `Shared`, the confirmed tip and the queued blocks are settled on the main
chain of every endpoint; `Floor`, a scan for the tip does not fall below what the
endpoints had agreed on, but for `ReorgDepth` blocks (`AgreedTo`, `FloorAt`):
this excludes the `unreachable!` and bounds how far the tip goes back; `Ranges`,
what follows for the range of `eval_blocks`, block by block as it is read.

A fifth, `Summed`, says what `eval_blocks` has added up block by block: that it
still is what the chain has needs `Shared`, since the blocks are read by number.

**The benchmark.**  Five layers.  `TypeOK` bounds the queues, the channel and
the hands of the emitters.  `Balance`: a transaction pays its outputs and its fee
out of its inputs, and what a pool holds spends live cells, each once, so that a
`Commit` moves capacity from one side to the other.  It says nothing of how often
a cell was sent, so that `CapacityConserved` and `Viable` hold when cells are
delivered again, too: a node rejects what is spent.  `Emptied`: a benchmark returns
with empty `inputs`, unless it has lost the chain monitor, so that a new vector loses
nothing.  `SentOnce`: until a
re-organisation, bench has received the cells `1..Received` in order, every one of
them is among `inputs`, in one transaction at one place, or gone, and the
transactions of different places (the one to send, the queues of every run, the
hands of the emitters, the pools) are apart.  `Carried`: every cell is at one of
those places or further back; a step could strand one only if an emitter dropped
a transaction that the node rejects, and by `SentOnce` the node rejects none.

**The startup.**  Six layers.  `Shape`: among the types, that a template is for a
block that was the next one, so that a block mined is above `header`.  `Quiet`:
no block mined before the transfer thread exists holds a transfer.  `Scanned`:
after each block, `pull_until` holds exactly what is live up to it (`LiveNext` says
what one block changes).  `Kept`: what is due to the chain monitor is in the two
sets until the hand-over, although `pull_from_block_number` removes what a block
far above `header` spends; and then in the channel or the list until it is sent.
`Counted`: by `Quiet` and the hypothesis nothing above `header` is spent while the
cells of the miner are counted, so that what is live at `header` is live at the tip;
the cells of the bencher are not spent during the startup.  `Unused`: if no block
was mined for the capacity, each reward is in one of the two sets, then once in the
channel or the list; the chain monitor goes on above all of them, and so the
transfer thread gets no reward that is moved already.

**Sums.**  The library's induction theorems are out of reach, but two of its
facts without operator parameters are not: a set of natural numbers has a least
element, and a set of finite sets has one that no other is below.  `Sums` proves
from them, as least counterexamples, what a sum over a finite set does when an
element is added or removed, when its terms change and when its index is renamed.

**The miner.**  `Growing` relates what is left of `generate_blocks` to the tip
while a template, possibly stale, is being worked on; `Early` keeps the tip below
the first reward, unless another miner's block came between the look at one
template and the next, and counts what bench mode submits in that case.

**The search.**  `Apart` says that an interval that cannot be cut, with nothing
averaged yet, is the first one: a step of a width below 4 is near.

**Only model-checked**: liveness (`Delivered`, both `Returns`,
`EndsWithoutMonitor`, `Ends`, `GetsGoing`), which is out of reach of the prover.

## 5. What is not modelled

* The HTTP transport of `rpc.rs`.  An error of it panics the calling thread,
  which is a fault of `Bench` for the chain monitor and the measuring thread, and
  for an emitter a lost transaction.  It can also end the transfer thread and the
  miner thread, which `Startup` and `Mining` leave out: a thread that ends early does
  less of what these modules say of it.  Neither do they have rejections by a
  node for other reasons than a spent input, a full pool or a stale block (a minimal
  fee, its own rules for maturity).
* `Account::transfer_forever` and `retry_send`, which `main` does not call.
* `Method::Never`, which does not return.
* The other results of `eval_blocks`, sums and floating-point quotients of the
  same kind: `BestDelay` takes any `u64` for what is stored of them.
* Signatures; capacities near 2^64, which exceed the supply.
* Parsing of arguments and configuration files, genesis information and globals,
  which are constants here; logging and the metrics file; deployment scripts.
* Re-organisations, and several miners, during startup (`UtxoPuller` has the
  former, `Mining` the latter).

## 6. Plan

The order so far was: the chain monitor and its proofs (everything depends on
it), the transfer arithmetic, the benchmark, the search, the startup, the network
monitor; then the abstract promise of the chain monitor and its refinement, the
faults of the benchmark, the miner, `eval_blocks` and metric mode, and the proofs
about the network monitor, the miner, the benchmark and the startup: every
invariant and every action property of a passing run is proved.  What is left, in
order:

1. `Bench` over `UtxoFeed` and `NetMonitor` on the same nodes, so that what is
   measured is related to what was submitted: the state of the two together is
   beyond TLC at present bounds, and a more abstract `Bench` would be needed.
2. A startup on several endpoints that re-organise.
