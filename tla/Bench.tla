------------------------------- MODULE Bench --------------------------------
(***************************************************************************)
(* The benchmark: BenchmarkConfig::bench and spawn_transaction_emitter     *)
(* (tps-bench/src/benchmark.rs), run once for every configured benchmark   *)
(* (main.rs).  The main thread takes cells from the channel of the chain   *)
(* monitor, builds transactions and hands them, round robin, to the        *)
(* bounded queue of an emitter thread per endpoint.  The emitter of an     *)
(* endpoint submits them to the transaction pool of its node.  A monitor   *)
(* thread says when the benchmark has been measured.                       *)
(*                                                                         *)
(* The chain monitor is abstracted by what UtxoPuller shows of it: it      *)
(* sends the cells in the order of the chain, and a re-organisation makes  *)
(* it send again what follows some earlier point.  A cell is its position  *)
(* in feed, the capacities of all the cells ever created.  The nodes       *)
(* commit the transactions of their pools.                                 *)
(*                                                                         *)
(* What may go wrong: a re-organisation, a transaction lost on its way to  *)
(* a node or by the pool of a node, a panic of the chain monitor or of the *)
(* measuring thread (every RPC error is one).                              *)
(***************************************************************************)
EXTENDS Transfer, Sequences, FiniteSets, Functions

CONSTANTS
  NE,           (* number of endpoints                                     *)
  Benchmarks,   (* outputs_count of the configured benchmarks, in order    *)
  InitialFeed,  (* capacities of the cells that exist at the start         *)
  ChanCap,      (* capacity of the channel of cells (2000)                 *)
  QueueCap,     (* capacity of the queue of an emitter (1000)              *)
  PoolCap,      (* transactions that fit in the pool of a node             *)
  MaxFaults     (* bound of the model, see FaultKind                       *)

(* What may go wrong.  A fault of a kind can be the first, ..., the        *)
(* MaxFaults[kind]-th fault of a behaviour, and no later one.              *)
FaultKind == {"reorg", "lost", "monitor", "measure"}

(* The cells that exist at the start are on chain, where none is smaller   *)
(* than MIN_SECP_CELL_CAPACITY.                                            *)
ASSUME BenchAssumption ==
  /\ NE \in Nat \ {0}
  /\ Benchmarks \in Seq(OutputsCount)
  /\ InitialFeed \in Seq(Nat)
  /\ \A c \in 1..Len(InitialFeed) : InitialFeed[c] >= MinCell
  /\ {ChanCap, QueueCap, PoolCap} \subseteq Nat \ {0}
  /\ MaxFaults \in [FaultKind -> Nat]

Endpoint == 1..NE
Run == 1..Len(Benchmarks)

VARIABLES
  pc,           (* where the main thread is                                *)
  run,          (* the benchmark that it runs                              *)
  polled,       (* endpoints 1..polled have been seen with an empty pool   *)
  inputs,       (* the cells of the next transaction                       *)
  tx,           (* the transaction to send                                 *)
  cursor,       (* the emitter tried last, counted from 0                  *)
  metrics,      (* net_notifier: "none", "pending", "ready", or "dead"     *)
  queue,        (* queue[r][e]: the queue of the emitter of e in run r     *)
  hand,         (* hand[r][e]: what that emitter is sending, zero or one   *)
  chan,         (* sender_utxo_rx: cells on their way to the benchmark     *)
  feed,         (* capacities of all the cells, in the order of the chain  *)
  next,         (* the chain monitor has sent cells 1..next                *)
  alive,        (* the chain monitor runs: the channel is connected        *)
  pool,         (* pool[e]: the transaction pool of the node of e          *)
  spent,        (* the cells spent on the chain                            *)
  fees,         (* history: the fees of the committed transactions         *)
  lost,         (* history: cells that went with a fault or with bench     *)
  faults,       (* what has gone wrong so far ...                          *)
  rolledBack    (* ... and whether a re-organisation has                   *)

mainVars == <<pc, run, polled, inputs, tx, cursor>>
emitterVars == <<queue, hand>>
monitorVars == <<chan, next, alive>>
nodeVars == <<feed, pool, spent, fees>>
faultVars == <<lost, faults, rolledBack>>
vars == <<mainVars, metrics, emitterVars, monitorVars, nodeVars, faultVars>>

-----------------------------------------------------------------------------
Cell == 1..Len(feed)
Live == Cell \ spent

Capacity(s) == SumFunction([i \in DOMAIN s |-> feed[s[i]]])

N == Benchmarks[run]

NoTx == [inputs |-> <<>>, outputs |-> <<>>]

(* construct_unsigned_transaction, and its signature                       *)
Transaction(in, n) ==
  [inputs |-> in,
   outputs |-> [i \in 1..n |-> OutputCapacity(Capacity(in), n, i - 1)]]

(* The loop over the benchmarks ends at once when there are none.          *)
Init ==
  /\ pc = IF Benchmarks = <<>> THEN "done" ELSE "wait"
  /\ run = 1
  /\ polled = 0
  /\ inputs = <<>>
  /\ tx = NoTx
  /\ cursor = 0
  /\ metrics = "none"
  /\ queue = [r \in Run |-> [e \in Endpoint |-> <<>>]]
  /\ hand = [r \in Run |-> [e \in Endpoint |-> <<>>]]
  /\ chan = <<>>
  /\ feed = InitialFeed
  /\ next = 0
  /\ alive = TRUE
  /\ pool = [e \in Endpoint |-> {}]
  /\ spent = {}
  /\ fees = 0
  /\ lost = {}
  /\ faults = 0
  /\ rolledBack = FALSE

(* wait_network_txpool_empty asks one endpoint after the other and starts  *)
(* again, a second later, when a pool is not empty.                        *)
Wait ==
  /\ pc = "wait"
  /\ polled < NE
  /\ polled' = IF pool[polled + 1] = {} THEN polled + 1 ELSE 0
  /\ UNCHANGED <<pc, run, inputs, tx, cursor, metrics, emitterVars,
                 monitorVars, lost>>

(* Spawn the monitor and the emitters; bench has no inputs yet.            *)
Start ==
  /\ pc = "wait"
  /\ polled = NE
  /\ pc' = "recv"
  /\ inputs' = <<>>
  /\ cursor' = 0
  /\ metrics' = "pending"
  /\ UNCHANGED <<run, polled, tx, emitterVars, monitorVars, lost>>

(* Faulty: the transaction takes a copy of inputs (inputs.clone()).        *)
Copied(in) == in

(* inputs.split_off(0) leaves nothing.                                     *)
SplitOff(in) == <<>>

(* Take a cell; when the inputs suffice, make them a transaction.          *)
Recv ==
  /\ pc = "recv"
  /\ chan # <<>>
  /\ chan' = Tail(chan)
  /\ LET in == Append(inputs, Head(chan))
     IN  IF Capacity(in) < MinInput(N)
         THEN inputs' = in /\ UNCHANGED <<pc, tx>>
         ELSE inputs' = SplitOff(in) /\ tx' = Transaction(in, N) /\ pc' = "emit"
  /\ UNCHANGED <<run, polled, cursor, metrics, emitterVars, next, alive, lost>>

(* Faulty: the queue is not bounded (send on an unbounded channel).        *)
AlwaysRoom(q) == TRUE

HasRoom(q) == Len(q) < QueueCap

(* try_send on the next emitter; when its queue is full, on to the next.   *)
TryEmit ==
  LET e == ((cursor + 1) % NE) + 1
  IN  /\ pc = "emit"
      /\ cursor' = (cursor + 1) % NE
      /\ IF HasRoom(queue[run][e])
         THEN /\ queue' = [queue EXCEPT ![run][e] = Append(@, tx)]
              /\ tx' = NoTx
              /\ pc' = "notify"
         ELSE UNCHANGED <<queue, tx, pc>>
      /\ UNCHANGED <<run, polled, inputs, metrics, hand, monitorVars, lost>>

(* bench returns; main goes to the next benchmark, or ends the process.    *)
Return ==
  /\ metrics' = "none"
  /\ polled' = 0
  /\ IF run < Len(Benchmarks)
     THEN run' = run + 1 /\ pc' = "wait"
     ELSE pc' = "done" /\ UNCHANGED run

(* sleep(send_delay), then net_notifier.try_recv().  It tells a measuring  *)
(* thread that has panicked from one that is not ready no more than here.  *)
Notify ==
  /\ pc = "notify"
  /\ IF metrics = "ready"
     THEN Return
     ELSE pc' = "recv" /\ UNCHANGED <<metrics, polled, run>>
  /\ UNCHANGED <<inputs, tx, cursor, emitterVars, monitorVars, lost>>

(* Faulty: an error of recv is taken for a cell that is late.              *)
NeverClosed == FALSE

Closed == ~ alive /\ chan = <<>>

(* recv fails: bench returns 0, and drops the inputs.                      *)
Disconnected ==
  /\ pc = "recv"
  /\ Closed
  /\ Return
  /\ inputs' = <<>>
  /\ lost' = lost \cup Range(inputs)
  /\ UNCHANGED <<tx, cursor, emitterVars, monitorVars>>

Main ==
  /\ Wait \/ Start \/ Recv \/ TryEmit \/ Notify \/ Disconnected
  /\ UNCHANGED <<nodeVars, faults, rolledBack>>

(* wait_network_stabled returns.                                           *)
Measured ==
  /\ metrics = "pending"
  /\ metrics' = "ready"
  /\ UNCHANGED <<mainVars, emitterVars, monitorVars, nodeVars, faultVars>>

-----------------------------------------------------------------------------
(* The emitter of endpoint e in run r.  It outlives the run: it ends when  *)
(* its queue is empty and bench has returned, or with the process.         *)
Take(r, e) ==
  /\ hand[r][e] = <<>>
  /\ queue[r][e] # <<>>
  /\ hand' = [hand EXCEPT ![r][e] = <<Head(queue[r][e])>>]
  /\ queue' = [queue EXCEPT ![r][e] = Tail(@)]
  /\ UNCHANGED pool

PoolIsFull(e) == Cardinality(pool[e]) >= PoolCap

(* What a node checks of a transaction that it is sent.                    *)
Valid(t, e) ==
  /\ Range(t.inputs) \subseteq Live
  /\ IsInjective(t.inputs)
  /\ \A u \in pool[e] : Range(u.inputs) \cap Range(t.inputs) = {}

(* Faulty: a full pool is not told from the other errors ...               *)
NeverAgain(t, e) == FALSE

(* ... nor the other errors from a full pool.                              *)
AlwaysAgain(t, e) == PoolIsFull(e) \/ ~ Valid(t, e)

Again(t, e) == PoolIsFull(e)

(* send_transaction_result.  While the pool is full the emitter sleeps and *)
(* tries again, a stutter; after any other error it drops the transaction. *)
Offer(r, e) ==
  /\ hand[r][e] # <<>>
  /\ ~ Again(hand[r][e][1], e)
  /\ hand' = [hand EXCEPT ![r][e] = <<>>]
  /\ LET t == hand[r][e][1]
     IN  pool' = [pool EXCEPT ![e] =
                    IF Valid(t, e) /\ ~ PoolIsFull(e) THEN @ \cup {t} ELSE @]
  /\ UNCHANGED queue

Emitter(r, e) ==
  /\ pc # "done"
  /\ Take(r, e) \/ Offer(r, e)
  /\ UNCHANGED <<mainVars, metrics, monitorVars, feed, spent, fees, faultVars>>

-----------------------------------------------------------------------------
(* The chain monitor sends the next cell.                                  *)
Deliver ==
  /\ alive /\ pc # "done"
  /\ next < Len(feed)
  /\ Len(chan) < ChanCap
  /\ chan' = Append(chan, next + 1)
  /\ next' = next + 1
  /\ UNCHANGED <<mainVars, metrics, emitterVars, alive, nodeVars, faultVars>>

(* A transaction of a pool gets into a block.  Its outputs are new cells;  *)
(* every pool drops it and what conflicts with it.                         *)
Commit(e) ==
  \E t \in pool[e] :
    /\ spent' = spent \cup Range(t.inputs)
    /\ feed' = feed \o t.outputs
    /\ pool' = [f \in Endpoint |->
                  {u \in pool[f] : Range(u.inputs) \cap Range(t.inputs) = {}}]
    /\ fees' = fees + EstimateFee(Len(t.outputs))
    /\ UNCHANGED <<mainVars, metrics, emitterVars, monitorVars, faultVars>>

-----------------------------------------------------------------------------
Fails(kind) ==
  /\ faults < MaxFaults[kind]
  /\ pc # "done"
  /\ faults' = faults + 1

(* The chain monitor notices a re-organisation.                            *)
RollBack ==
  /\ Fails("reorg")
  /\ alive
  /\ rolledBack' = TRUE
  /\ next' \in 0..(next - 1)
  /\ UNCHANGED <<mainVars, metrics, emitterVars, chan, alive, nodeVars, lost>>

(* An error that is not a full pool: the emitter goes on to the next       *)
(* transaction.                                                            *)
LostInTransit(r, e) ==
  /\ Fails("lost")
  /\ hand[r][e] # <<>>
  /\ lost' = lost \cup Range(hand[r][e][1].inputs)
  /\ hand' = [hand EXCEPT ![r][e] = <<>>]
  /\ UNCHANGED <<mainVars, metrics, queue, monitorVars, nodeVars, rolledBack>>

(* A transaction vanishes from the pool of a node.                         *)
LostByNode(e) ==
  /\ Fails("lost")
  /\ \E t \in pool[e] :
       /\ lost' = lost \cup Range(t.inputs)
       /\ pool' = [pool EXCEPT ![e] = @ \ {t}]
  /\ UNCHANGED <<mainVars, metrics, emitterVars, monitorVars, feed, spent, fees,
                 rolledBack>>

(* The chain monitor panics: the channel is closed when it is empty.       *)
MonitorPanics ==
  /\ Fails("monitor")
  /\ alive
  /\ alive' = FALSE
  /\ UNCHANGED <<mainVars, metrics, emitterVars, chan, next, nodeVars, lost,
                 rolledBack>>

(* The measuring thread panics: it never sends metrics.                    *)
MeasurePanics ==
  /\ Fails("measure")
  /\ metrics = "pending"
  /\ metrics' = "dead"
  /\ UNCHANGED <<mainVars, emitterVars, monitorVars, nodeVars, lost, rolledBack>>

Fault ==
  \/ RollBack
  \/ \E r \in Run, e \in Endpoint : LostInTransit(r, e)
  \/ \E e \in Endpoint : LostByNode(e)
  \/ MonitorPanics
  \/ MeasurePanics

Next ==
  \/ Main
  \/ Measured
  \/ \E r \in Run, e \in Endpoint : Emitter(r, e)
  \/ Deliver
  \/ \E e \in Endpoint : Commit(e)
  \/ Fault

Spec == Init /\ [][Next]_vars

(* Every thread goes on, and blocks keep being mined.                      *)
FairSpec ==
  /\ Spec
  /\ WF_vars(Main)
  /\ WF_vars(Measured)
  /\ \A r \in Run, e \in Endpoint : WF_vars(Emitter(r, e))
  /\ WF_vars(Deliver)
  /\ \A e \in Endpoint : WF_vars(Commit(e))

-----------------------------------------------------------------------------
Tx == [inputs : Seq(Cell), outputs : Seq(Nat)]

(* The types of the variables; no output has a negative capacity.          *)
TypeOK ==
  /\ pc \in {"wait", "recv", "emit", "notify", "done"}
  /\ run \in Nat /\ (pc # "done" => run \in Run)
  /\ polled \in 0..NE
  /\ inputs \in Seq(Cell)
  /\ tx \in Tx
  /\ cursor \in 0..(NE - 1)
  /\ metrics \in {"none", "pending", "ready", "dead"}
  /\ queue \in [Run -> [Endpoint -> Seq(Tx)]]
  /\ hand \in [Run -> [Endpoint -> Seq(Tx)]]
  /\ \A r \in Run, e \in Endpoint :
       Len(queue[r][e]) <= QueueCap /\ Len(hand[r][e]) <= 1
  /\ chan \in Seq(Cell) /\ Len(chan) <= ChanCap
  /\ feed \in Seq(Nat)
  /\ next \in 0..Len(feed)
  /\ alive \in BOOLEAN
  /\ pool \in [Endpoint -> SUBSET Tx]
  /\ spent \subseteq Cell
  /\ fees \in Nat
  /\ lost \subseteq Cell
  /\ faults \in Nat
  /\ rolledBack \in BOOLEAN

(* The transactions that wait in the program.                              *)
Waiting == {tx} \cup
  UNION {Range(queue[r][e]) \cup Range(hand[r][e]) : r \in Run, e \in Endpoint}

Unsettled == Waiting \cup UNION {pool[e] : e \in Endpoint}

InFlight(c) ==
  \/ c > next
  \/ c \in Range(chan) \cup Range(inputs)
  \/ \E t \in Unsettled : c \in Range(t.inputs)

Stranded == {c \in Live : ~ InFlight(c)}

(* As long as the chain is not re-organised, no cell of the bencher is     *)
(* lost but those of a lost transaction and the inputs of a bench that     *)
(* lost the chain monitor: from the channel, through the inputs of a       *)
(* benchmark that is measured at any moment, queues that outlive it, full  *)
(* queues and full pools, every live cell is on its way to be spent.       *)
NoneStranded == pc # "done" /\ ~ rolledBack => Stranded \subseteq lost

(* As long as the chain is not re-organised, the program never sends two   *)
(* transactions that spend the same cell, nor one that spends it twice.    *)
NoDoubleSpend ==
  ~ rolledBack => \A t \in Unsettled :
    /\ IsInjective(t.inputs)
    /\ Range(t.inputs) \subseteq Live
    /\ \A u \in Unsettled \ {t} : Range(t.inputs) \cap Range(u.inputs) = {}

Total(S) == SumFunctionOnSet(feed, S)

(* Transfers neither create nor destroy capacity: what is live and what    *)
(* was paid as fees add up to what the bencher had, whatever is delivered  *)
(* twice, rejected or lost on the way.                                     *)
CapacityConserved == Total(Live) + fees = Total(1..Len(InitialFeed))

(* Every cell is large enough to exist on chain: the threshold of the loop *)
(* leaves MIN_SECP_CELL_CAPACITY to each output after the fee.             *)
Viable == \A c \in Cell : feed[c] >= MinCell

(* What the bencher still owns and has not lost makes no transaction.      *)
Exhausted == Total(Live \ Stranded) < MinInput(N)

(* Bench returns once the network has been measured, even after a          *)
(* re-organisation, a lost transaction or a panic of the chain monitor:    *)
(* recv does not wait for ever while queues drain, pools commit and the    *)
(* bencher has capacity left.                                              *)
Returns == metrics = "ready" ~> (metrics = "none" \/ Exhausted)

(* When the chain monitor panics, every benchmark that is left returns,    *)
(* measured or not.                                                        *)
EndsWithoutMonitor == ~ alive ~> pc = "done"

(* "Chain reorg will cause many double-spent problem. Just ignore it. The  *)
(* chain monitor will solve it.": a live cell whose transaction was        *)
(* rejected for a double spend is delivered again, or spent.               *)
MonitorSolvesIt == Stranded # {} ~> (Stranded = {} \/ pc = "done")

=============================================================================
