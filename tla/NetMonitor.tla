----------------------------- MODULE NetMonitor -----------------------------
(***************************************************************************)
(* What measures a benchmark: the thread of wait_network_stabled and       *)
(* Metrics::eval_blocks (tps-bench/src/net_monitor.rs), with the confirmed *)
(* tip of the network that they poll, Net::get_confirmed_tip_header        *)
(* (net.rs); and metric mode (main.rs), which evaluates the whole chain.   *)
(* Every RPC call is a step, interleaved with the nodes.  Only the sum of  *)
(* the transactions is modelled of what eval_blocks computes, and where it *)
(* divides by the number of blocks.                                        *)
(***************************************************************************)
EXTENDS CkbNodes, Functions

CONSTANTS
  Confirmation, (* confirmation_blocks of the spec                         *)
  Methods,      (* the methods: CustomBlocksElapsed is "elapsed",          *)
                (* RecentBlocktxnsNearly is "nearly", TimedTask is "timed" *)
  TxCount       (* TxCount[b]: number of transactions of a block of body b *)

Method ==
  [name : {"elapsed", "nearly", "timed", "metric"},
   warmup : Nat, window : Nat, margin : Nat]

ASSUME MonitorAssumption ==
  /\ Confirmation \in Nat
  /\ ReorgDepth <= Confirmation
  /\ Methods \subseteq Method
  /\ TxCount \in [Block -> Nat]

VARIABLES
  method,       (* the method of this benchmark                            *)
  pc,           (* where the thread is                                     *)
  back,         (* where it goes on when get_confirmed_tip_header returns  *)
  number,       (* the number get_unconfirmed_fixed_tip_header looks at    *)
  probe,        (* the header of that number, or <<>>                      *)
  asked,        (* endpoints 1..asked have it                              *)
  tip,          (* the confirmed tip returned last                         *)
  from, end,    (* from_number and end_number of eval_blocks               *)
  reading,      (* the number of the block it reads next                   *)
  total,        (* totaltxns                                               *)
  target,       (* the number that the confirmed tip has to reach          *)
  queue,        (* queue of wait_recent_blocktxns_nearly                   *)
  begun         (* history: common height when a warm-up was asked for     *)

scanVars == <<number, probe, asked, tip, begun>>
evalVars == <<from, end, reading, total>>
waitVars == <<target, queue>>
vars == <<chain, method, pc, back, scanVars, evalVars, waitVars>>

Common(n) ==
  \A e \in Endpoint : HasHeader(e, n) /\ HeaderByNumber(e, n) = HeaderByNumber(1, n)

LastCommon(n) == Common(n) /\ \A m \in (n + 1)..Number(chain[1]) : ~ Common(m)

Init ==
  /\ NodesInit
  /\ method \in Methods
  /\ pc = "tip"
  /\ back = "start"
  /\ number = 0
  /\ probe = <<>>
  /\ asked = 0
  /\ tip = <<>>
  /\ from = 0 /\ end = 0 /\ reading = 0 /\ total = 0
  /\ target = 0
  /\ queue = <<>>
  /\ begun = 0

-----------------------------------------------------------------------------
(* get_confirmed_tip_header                                                *)

Call(label) == pc' = "tip" /\ back' = label

(* self.endpoints[0].get_tip_block_number()                                *)
GetTip ==
  /\ pc = "tip"
  /\ number' = Number(chain[1])
  /\ IF back = "start" /\ method.name = "elapsed"
     THEN begun' \in {n \in 0..Number(chain[1]) : LastCommon(n)}
     ELSE UNCHANGED begun
  /\ pc' = "scan"
  /\ UNCHANGED <<probe, asked, tip>>

(* From the tip downwards, a header that all endpoints have: unreachable!  *)
(* when there is none.                                                     *)
NextNumber ==
  /\ IF number > 0
     THEN number' = number - 1 /\ pc' = "scan"
     ELSE pc' = "panicked" /\ UNCHANGED number
  /\ probe' = <<>>
  /\ asked' = 0

ScanHeader ==
  /\ pc = "scan"
  /\ IF HasHeader(1, number)
     THEN /\ probe' = HeaderByNumber(1, number)
          /\ asked' = 1
          /\ pc' = "compare"
          /\ UNCHANGED number
     ELSE NextNumber
  /\ UNCHANGED <<tip, begun>>

(* Faulty: an endpoint that has no block of that number is passed over.    *)
SameOrNone(e) == HasHeader(e, number) => HasBlock(e, probe)

(* rpc.get_header_by_number(number) is Some(header)                        *)
SameHeader(e) == HasBlock(e, probe)

Compare ==
  /\ pc = "compare"
  /\ asked < NE
  /\ IF SameHeader(asked + 1)
     THEN asked' = asked + 1 /\ UNCHANGED <<pc, number, probe>>
     ELSE NextNumber
  /\ UNCHANGED <<tip, begun>>

(* Metric mode loads no spec, and CONFIRMATION_BLOCKS is 0 by default.     *)
ConfirmationBlocks == IF method.name = "metric" THEN 0 ELSE Confirmation

(* Faulty: the fixed tip is taken for confirmed.                           *)
Unconfirmed(n) == n

(* Faulty: plain instead of saturating subtraction.                        *)
ConfirmedBelowZero(n) == n - ConfirmationBlocks

Confirmed(n) == IF n > ConfirmationBlocks THEN n - ConfirmationBlocks ELSE 0

(* The header so many blocks before it, from the first endpoint.           *)
Confirm ==
  /\ pc = "compare"
  /\ asked = NE
  /\ IF HasHeader(1, Confirmed(number))
     THEN tip' = HeaderByNumber(1, Confirmed(number)) /\ pc' = back
     ELSE pc' = "panicked" /\ UNCHANGED tip
  /\ number' = 0
  /\ probe' = <<>>
  /\ asked' = 0
  /\ UNCHANGED begun

ConfirmedTip == GetTip \/ ScanHeader \/ Compare \/ Confirm

-----------------------------------------------------------------------------
(* Metrics::eval_blocks                                                    *)

Eval(m, n) ==
  from' = m /\ end' = n /\ reading' = m /\ total' = 0 /\ pc' = "read"

Body(h) == h[Len(h)]

(* Faulty: end_number is left out (from_number..end_number).               *)
LastIsLeftOut == reading < end

(* Faulty: one block more is read.                                         *)
OneMoreIsRead == reading <= end + 1

MoreToRead == reading <= end

(* net.get_block_by_number(number).unwrap()                                *)
ReadBlock ==
  /\ pc = "read"
  /\ MoreToRead
  /\ IF HasHeader(1, reading)
     THEN /\ total' = total + TxCount[Body(HeaderByNumber(1, reading))]
          /\ reading' = reading + 1
          /\ UNCHANGED pc
     ELSE pc' = "panicked" /\ UNCHANGED <<total, reading>>
  /\ UNCHANGED <<back, from, end, waitVars>>

(* The first and the last block are unwrapped once more, and the totals    *)
(* divided by end_number - from_number + 1, a u64.                         *)
Average ==
  /\ pc = "read"
  /\ ~ MoreToRead
  /\ pc' = IF HasHeader(1, from) /\ HasHeader(1, end) /\ end + 1 # from
           THEN IF method.name = "nearly" THEN "judge" ELSE "measured"
           ELSE "panicked"
  /\ UNCHANGED <<back, evalVars, waitVars>>

-----------------------------------------------------------------------------
(* Faulty: the warm-up ends at the tip it starts at.                       *)
NoWarmup == Number(tip)

WarmupEnd == Number(tip) + method.warmup

(* wait_custom_blocks_elapsed: warm up ...                                 *)
StartWarmup ==
  /\ pc = "start"
  /\ method.name = "elapsed"
  /\ target' = WarmupEnd
  /\ Call("warmup")
  /\ UNCHANGED <<evalVars, queue>>

(* Faulty: >= for >, which waits for one block more.                       *)
PassedBy == target < Number(tip)

(* The condition of both while loops is that this does not yet hold.       *)
Reached == target <= Number(tip)

Warm ==
  /\ pc = "warmup"
  /\ Call(IF Reached THEN "begin" ELSE "warmup")
  /\ UNCHANGED <<evalVars, waitVars>>

(* ... then wait for the window to go by.                                  *)
Begin ==
  /\ pc = "begin"
  /\ from' = Number(tip)
  /\ target' = Number(tip) + method.window
  /\ Call("elapse")
  /\ UNCHANGED <<end, reading, total, queue>>

(* Faulty: the range ends at the tip instead of the target.                *)
WindowToTip == Number(tip)

WindowEnd == target

Elapse ==
  /\ pc = "elapse"
  /\ IF Reached THEN Eval(from, WindowEnd) /\ UNCHANGED back
                ELSE Call("elapse") /\ UNCHANGED evalVars
  /\ UNCHANGED waitVars

(* wait_duration_time_elapsed: the tip now, and when the time is over.     *)
StartTimer ==
  /\ pc = "start"
  /\ method.name = "timed"
  /\ from' = Number(tip)
  /\ pc' = "timer"
  /\ UNCHANGED <<back, end, reading, total, waitVars>>

TimeIsOver ==
  /\ pc = "timer"
  /\ Call("over")
  /\ UNCHANGED <<evalVars, waitVars>>

Over ==
  /\ pc = "over"
  /\ Eval(from, Number(tip))
  /\ UNCHANGED <<back, waitVars>>

(* Metric mode: eval_blocks(1, get_confirmed_tip_number()).                *)
MetricMode ==
  /\ pc = "start"
  /\ method.name = "metric"
  /\ Eval(1, Number(tip))
  /\ UNCHANGED <<back, waitVars>>

(* wait_recent_blocktxns_nearly: get_confirmed_tip_block unwraps the block *)
(* of the confirmed header.                                                *)
StartQueue ==
  /\ pc = "start"
  /\ method.name = "nearly"
  /\ IF HasBlock(1, tip)
     THEN queue' = <<tip>> /\ Call("queue")
     ELSE pc' = "panicked" /\ UNCHANGED <<back, queue>>
  /\ UNCHANGED <<evalVars, target>>

Last(s) == s[Len(s)]

CheckQueue ==
  /\ pc = "queue"
  /\ IF Number(tip) > Number(Last(queue))
     THEN pc' = "pull" /\ UNCHANGED back
     ELSE Call("queue")
  /\ UNCHANGED <<evalVars, waitVars>>

(* The front of the queue is popped while the queue is full.               *)
MakeRoom(s) ==
  IF Len(s) < method.window THEN s ELSE SubSeq(s, Len(s) - method.window + 2, Len(s))

(* Faulty: the block of the confirmed tip is queued.                       *)
TipNumber == Number(tip)

NextToQueue == Number(Last(queue)) + 1

(* get_block_by_number(back.number() + 1).unwrap().  When that makes the   *)
(* queue full, both its ends are popped and unwrapped, and the blocks      *)
(* between them evaluated.                                                 *)
Pull ==
  LET q == Append(MakeRoom(queue), HeaderByNumber(1, NextToQueue))
  IN  /\ pc = "pull"
      /\ method.window > 0
      /\ IF ~ HasHeader(1, NextToQueue) \/ Len(q) = 1
         THEN pc' = "panicked" /\ UNCHANGED <<back, queue, evalVars>>
         ELSE IF Len(q) < method.window
              THEN queue' = q /\ Call("queue") /\ UNCHANGED evalVars
              ELSE /\ queue' = SubSeq(q, 2, Len(q) - 1)
                   /\ Eval(Number(q[1]), Number(Last(q)))
                   /\ UNCHANGED back
      /\ UNCHANGED target

(* With a window of 0 the queue is always full: it is popped for ever,     *)
(* long after it is empty.                                                 *)
PullNothing ==
  /\ pc = "pull"
  /\ method.window = 0
  /\ IF HasHeader(1, NextToQueue)
     THEN pc' = "spinning" /\ queue' = <<>>
     ELSE pc' = "panicked" /\ UNCHANGED queue
  /\ UNCHANGED <<back, evalVars, target>>

(* Faulty: only a growing number of transactions is noticed.               *)
NearlyOneSided(s) ==
  \A i, j \in 1..Len(s) :
    i > j => TxCount[Body(s[i])] <= TxCount[Body(s[j])] + method.margin

(* maxtxns <= mintxns + margin                                             *)
Nearly(s) ==
  \A i, j \in 1..Len(s) : TxCount[Body(s[i])] <= TxCount[Body(s[j])] + method.margin

(* min().unwrap() and max().unwrap() of what is left of the queue.         *)
Judge ==
  /\ pc = "judge"
  /\ IF queue = <<>> THEN pc' = "panicked" /\ UNCHANGED back
     ELSE IF Nearly(queue) THEN pc' = "measured" /\ UNCHANGED back
     ELSE Call("queue")
  /\ UNCHANGED <<evalVars, waitVars>>

Measuring ==
  \/ StartWarmup \/ Warm \/ Begin \/ Elapse
  \/ StartTimer \/ TimeIsOver \/ Over
  \/ MetricMode
  \/ StartQueue \/ CheckQueue \/ Pull \/ PullNothing \/ Judge
  \/ ReadBlock \/ Average

Monitor ==
  /\ \/ ConfirmedTip /\ UNCHANGED <<back, evalVars, waitVars>>
     \/ Measuring /\ UNCHANGED scanVars
  /\ UNCHANGED <<chain, method>>

Nodes == NodesNext /\ UNCHANGED <<method, pc, back, scanVars, evalVars, waitVars>>

Next == Monitor \/ Nodes

Spec == Init /\ [][Next]_vars

FairSpec == Spec /\ WF_vars(Monitor)

-----------------------------------------------------------------------------
(* The types of the variables; the confirmed tip has a number once it is   *)
(* used.                                                                   *)
TypeOK ==
  /\ chain \in [Endpoint -> Header]
  /\ method \in Methods
  /\ pc \in {"tip", "scan", "compare", "start", "warmup", "begin", "elapse",
             "timer", "over", "queue", "pull", "read", "judge", "measured",
             "panicked", "spinning"}
  /\ back \in {"start", "warmup", "begin", "elapse", "over", "queue"}
  /\ number \in Nat
  /\ probe \in Header
  /\ asked \in 0..NE
  /\ tip \in Header
  /\ pc \notin {"tip", "scan", "compare", "panicked"} => tip # <<>>
  /\ from \in Nat /\ end \in Nat /\ reading \in Nat /\ total \in Nat
  /\ target \in Nat
  /\ queue \in Seq(Header)
  /\ begun \in Nat

IsConfirmed == method.name # "metric"

(* What get_confirmed_tip_header returns stays on the main chain of every  *)
(* node, although the nodes move on between the calls that compare their   *)
(* headers, and after them.  In metric mode nothing is confirmed.          *)
TipIsCommon ==
  IsConfirmed /\ tip # <<>> => \A e \in Endpoint : HasBlock(e, tip)

(* What eval_blocks adds up, reading the first endpoint block by block     *)
(* while the chain moves, is what the blocks from..end of the main chain   *)
(* of any node hold, then and ever after: no block of a fork is counted,   *)
(* none is missed.  Metric mode has no such promise.                       *)
TotalIsExact ==
  pc = "measured" /\ IsConfirmed =>
    \A e \in Endpoint :
      total = SumFunction([n \in from..end |-> TxCount[Body(HeaderByNumber(e, n))]])

(* The queue of recent blocks, read one at a time while the nodes          *)
(* re-organise, holds consecutive blocks of the common chain: each block   *)
(* is the parent of the next, and none is skipped or repeated.             *)
QueueIsChain ==
  /\ \A i \in 1..(Len(queue) - 1) : Parent(queue[i + 1]) = queue[i]
  /\ \A i \in 1..Len(queue), e \in Endpoint : HasBlock(e, queue[i])

(* unreachable!, an unwrap, a division by zero or an endless loop stop the *)
(* thread only when nothing is between the ends of the queue (a window of  *)
(* 2 or less), or no block in the range: a tip that went back during a     *)
(* timed measure, a chain of a single block in metric mode.                *)
PanicsOnlyOnEmpty ==
  pc \in {"panicked", "spinning"} =>
    \/ method.name = "nearly" /\ method.window <= 2
    \/ method.name \in {"timed", "metric"} /\ from = end + 1

(* The range to measure covers the window that was asked for.  The two     *)
(* tips of a timed measure can be out of order, for the endpoints can come *)
(* to agree on less than before, but by no more than ReorgDepth blocks,    *)
(* however many blocks are asked for as a confirmation.                    *)
RangeCovers == pc \in {"read", "measured"} =>
  CASE method.name = "elapsed" -> end = from + method.window
    [] method.name = "nearly"  -> end = from + method.window - 1
    [] method.name = "timed"   -> from <= end + ReorgDepth
    [] method.name = "metric"  -> from = 1

(* The blocks measured are those of the benchmark: all but Confirmation    *)
(* and twice ReorgDepth of them were mined after it began, and after its   *)
(* warm-up.                                                                *)
MeasuredIsRecent == pc = "measured" /\ method.name = "elapsed" =>
  from + Confirmation + 2 * ReorgDepth >= begun + method.warmup

(* "Nearly" holds of the chain, not only of the blocks that were queued:   *)
(* strictly inside the range, the transaction counts differ by at most     *)
(* margin.                                                                 *)
MeasuredIsNearly == pc = "measured" /\ method.name = "nearly" =>
  LET count(n) == TxCount[Body(HeaderByNumber(1, n))]
  IN  \A m, n \in (from + 1)..(end - 1) : count(m) <= count(n) + method.margin

(* When the nodes agree for good, the methods that wait for a number of    *)
(* blocks or a time return, unless they wait for a confirmed tip that the  *)
(* chain does not reach, or have panicked.  (RecentBlocktxnsNearly waits   *)
(* for like blocks, which need not come.)                                  *)
Agreed == \A e \in Endpoint : chain[e] = chain[1]

Returns ==
  method.name # "nearly" /\ <>[]Agreed =>
    []<>(pc \in {"measured", "panicked"} \/ target + Confirmation > Number(chain[1]))

=============================================================================
