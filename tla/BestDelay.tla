----------------------------- MODULE BestDelay ------------------------------
(***************************************************************************)
(* The search for the best transactions per second:                        *)
(* BenchmarkConfig::find_best_bench (tps-bench/src/benchmark.rs).  It      *)
(* bisects the delays between 0 and the one that matches the tps of an     *)
(* undelayed run, running a whole benchmark at each step, and averages     *)
(* the tps of the last steps.  What a benchmark measures is arbitrary: 0   *)
(* when the chain monitor has died, the largest u64 when the blocks it     *)
(* evaluates have no duration (net_monitor.rs).  A release build wraps.    *)
(***************************************************************************)
EXTENDS Integers

CONSTANTS
  Second,       (* 1_000_000 micros                                        *)
  Near,         (* 200: a step narrower than this is averaged              *)
  Top,          (* the largest u64                                         *)
  Tps,          (* the results that a benchmark may have                   *)
  MaxCount      (* bound of the model: results that are averaged           *)

U64 == 0..Top

ASSUME DelayAssumption ==
  /\ Top \in Nat
  /\ Second \in U64
  /\ Near \in U64 /\ Near > 3
  /\ Tps \subseteq U64
  /\ MaxCount \in U64

(* A sum or a difference as a u64.                                         *)
Wrap(x) == IF x > Top THEN x - Top - 1 ELSE IF x < 0 THEN x + Top + 1 ELSE x

VARIABLES
  pc,           (* "first", "second", "loop", "done" or "panicked"         *)
  min, max,     (* min_send_delay and max_send_delay                       *)
  minTps,       (* min_send_delay_tps                                      *)
  maxTps,       (* max_send_delay_tps                                      *)
  count, sum,   (* length and sum of nearly_send_delay_tps                 *)
  best          (* what find_best_bench returns                            *)

vars == <<pc, min, max, minTps, maxTps, count, sum, best>>

Init ==
  /\ pc = "first"
  /\ min = 0
  /\ max = 0
  /\ minTps = 0
  /\ maxTps = 0
  /\ count = 0
  /\ sum = 0
  /\ best = 0

(* bench(0), for main sets send_delay to 0, and the division that          *)
(* gives the matching delay.                                               *)
First ==
  /\ pc = "first"
  /\ \E tps \in Tps :
       /\ minTps' = tps
       /\ IF tps = 0 THEN pc' = "panicked" /\ UNCHANGED max
                     ELSE pc' = "second" /\ max' = Second \div tps
  /\ UNCHANGED <<min, maxTps, count, sum, best>>

(* bench(max_send_delay)                                                   *)
AtMaxDelay ==
  /\ pc = "second"
  /\ maxTps' \in Tps
  /\ pc' = "loop"
  /\ UNCHANGED <<min, max, minTps, count, sum, best>>

(* Faulty: the middle is rounded up.                                       *)
MiddleUp(m, n) == (m + n + 2) \div 2

(* Faulty: half the width, without the lower end.                          *)
MiddleWidth(m, n) == (n - m) \div 2

Middle(m, n) == (m + n) \div 2

(* Faulty: equality for <.                                                 *)
IsNearExactly(width) == width = Near

IsNear(width) == width < Near

(* One turn of the loop: bench(mid_send_delay).                            *)
Bisect ==
  /\ pc = "loop"
  /\ min < Wrap(max - 1)
  /\ count < MaxCount
  /\ \E tps \in Tps :
       /\ IF IsNear(Wrap(max - min))
          THEN count' = count + 1 /\ sum' = Wrap(sum + tps)
          ELSE UNCHANGED <<count, sum>>
       /\ IF minTps < maxTps
          THEN min' = Middle(min, max) /\ minTps' = tps /\ UNCHANGED <<max, maxTps>>
          ELSE max' = Middle(min, max) /\ maxTps' = tps /\ UNCHANGED <<min, minTps>>
  /\ UNCHANGED <<pc, best>>

(* The average, which panics when nothing was collected.                   *)
Average ==
  /\ pc = "loop"
  /\ min >= Wrap(max - 1)
  /\ IF count = 0 THEN pc' = "panicked" /\ UNCHANGED best
                  ELSE pc' = "done" /\ best' = sum \div count
  /\ UNCHANGED <<min, max, minTps, maxTps, count, sum>>

Next == First \/ AtMaxDelay \/ Bisect \/ Average

Spec == Init /\ [][Next]_vars

FairSpec == Spec /\ WF_vars(Next)

-----------------------------------------------------------------------------
(* The first benchmark measured more than Second: there is no delay left,  *)
(* max_send_delay - 1 wraps, and the loop does not end.                    *)
Endless == min = 0 /\ max = 0

(* The types of the variables; the interval of the loop is not empty, so   *)
(* that its differences do not wrap, unless the loop is endless.           *)
TypeOK ==
  /\ pc \in {"first", "second", "loop", "done", "panicked"}
  /\ {min, max, minTps, maxTps, count, sum, best} \subseteq U64
  /\ pc = "loop" => min < max \/ Endless

(* The search panics only when the first benchmark measured 0, or so much  *)
(* that the matching delay is 1.  Otherwise the average never divides by   *)
(* zero: whatever the benchmarks measure, the last step of the bisection   *)
(* is narrow enough to be counted.                                         *)
PanicsAtFirst == pc = "panicked" => minTps = 0 \/ Second \div minTps = 1

(* Every step of the search cuts the interval of delays to at most half of *)
(* it, rounded up, and never empties it.                                   *)
Halves ==
  [][pc = "loop" /\ pc' = "loop" /\ ~ Endless =>
       /\ min' < max'
       /\ max' - min' <= (max - min + 1) \div 2]_vars

(* The search ends, although each step depends on what was measured,       *)
(* unless the first benchmark measured more than Second.                   *)
Ends == <>(pc \in {"done", "panicked"} \/ (pc = "loop" /\ Endless))

=============================================================================
