-------------------------- MODULE BestDelayProofs ---------------------------
(***************************************************************************)
(* The search for the best transactions per second: what its loop keeps,   *)
(* for every result that benchmarks may have and every width Near above 3. *)
(***************************************************************************)
EXTENDS BestDelay, TLAPS

(* An interval that cannot be cut and left nothing to average is the first *)
(* one, for a step of a width under 4 is under Near, so it is averaged.    *)
Apart ==
  /\ pc \in {"first", "second"} => min = 0 /\ count = 0
  /\ pc = "second" => minTps # 0 /\ max = Second \div minTps
  /\ pc = "loop" /\ count = 0 /\ max < min + 2 =>
       /\ min = 0
       /\ minTps # 0
       /\ max = Second \div minTps

Inv == TypeOK /\ Apart /\ PanicsAtFirst

(* The quotient of naturals is a natural, not above the dividend.          *)
LEMMA DivisionIsNat ==
  ASSUME NEW x \in Nat, NEW y \in Nat \ {0}
  PROVE  x \div y \in Nat /\ x \div y <= x
OBVIOUS

(* A sum of two u64 numbers wraps to a u64.                                *)
LEMMA WrapIsU64 ==
  ASSUME NEW x \in U64, NEW y \in U64
  PROVE  Wrap(x + y) \in U64
BY DelayAssumption DEF Wrap, U64

(* In an interval that is not empty no difference wraps; in the endless    *)
(* loop, 0 - 1 does.                                                       *)
LEMMA Differences ==
  ASSUME NEW m \in U64, NEW n \in U64
  PROVE  /\ m < n => Wrap(n - 1) = n - 1 /\ Wrap(n - m) = n - m
         /\ Wrap(0 - 1) = Top
         /\ Wrap(0 - 0) = 0
BY DelayAssumption DEF Wrap, U64

(* The middle of an interval that can be cut lies strictly within it.      *)
LEMMA MiddleWithin ==
  ASSUME NEW m \in Nat, NEW n \in Nat, n >= m + 2
  PROVE  /\ Middle(m, n) \in Nat
         /\ m < Middle(m, n)
         /\ Middle(m, n) < n
         /\ Middle(m, n) - m <= (n - m + 1) \div 2
         /\ n - Middle(m, n) <= (n - m + 1) \div 2
         /\ n - m <= 2 * (Middle(m, n) - m) + 1
         /\ n - m <= 2 * (n - Middle(m, n)) + 1
BY DEF Middle

(* Initially the invariant holds.                                          *)
LEMMA InitInv == Init => Inv
BY DelayAssumption DEF Init, Inv, TypeOK, Apart, PanicsAtFirst, U64

(* The first two benchmarks keep it.                                       *)
LEMMA FirstKeeps == Inv /\ First => Inv'
<1> SUFFICES ASSUME Inv, First
             PROVE  Inv'
  OBVIOUS
<1> USE DEF Inv, TypeOK, Apart, PanicsAtFirst
<1>1. PICK tps \in Tps :
        /\ minTps' = tps
        /\ IF tps = 0 THEN pc' = "panicked" /\ UNCHANGED max
                      ELSE pc' = "second" /\ max' = Second \div tps
  BY DEF First
<1>2. /\ tps \in U64 /\ tps \in Nat
      /\ pc = "first" /\ min' = min /\ maxTps' = maxTps
      /\ count' = count /\ sum' = sum /\ best' = best
  BY DelayAssumption DEF First, U64
<1>3. CASE tps = 0
  BY <1>1, <1>2, <1>3
<1>4. CASE tps # 0
  <2>1. Second \div tps \in U64
    BY <1>2, <1>4, DelayAssumption, DivisionIsNat DEF U64
  <2>2. QED
    BY <1>1, <1>2, <1>4, <2>1
<1>5. QED
  BY <1>3, <1>4

LEMMA AtMaxDelayKeeps == Inv /\ AtMaxDelay => Inv'
<1> SUFFICES ASSUME Inv, AtMaxDelay
             PROVE  Inv'
  OBVIOUS
<1> USE DEF Inv, TypeOK, Apart, PanicsAtFirst
<1>1. /\ pc = "second" /\ pc' = "loop"
      /\ maxTps' \in U64
      /\ min' = min /\ max' = max /\ minTps' = minTps
      /\ count' = count /\ sum' = sum /\ best' = best
  BY DelayAssumption DEF AtMaxDelay
<1>2. min < max \/ Endless
  BY <1>1 DEF Endless, U64
<1>3. QED
  BY <1>1, <1>2 DEF Endless

(* A turn of the loop cuts an interval in two, and averages what is near.  *)
LEMMA BisectKeeps == Inv /\ Bisect => Inv'
<1> SUFFICES ASSUME Inv, Bisect
             PROVE  Inv'
  OBVIOUS
<1> USE DEF Inv, TypeOK, Apart, PanicsAtFirst
<1>1. /\ pc = "loop" /\ pc' = "loop" /\ best' = best
      /\ min < Wrap(max - 1) /\ count < MaxCount
  BY DEF Bisect
<1>2. PICK tps \in Tps :
        /\ IF IsNear(Wrap(max - min))
           THEN count' = count + 1 /\ sum' = Wrap(sum + tps)
           ELSE UNCHANGED <<count, sum>>
        /\ IF minTps < maxTps
           THEN min' = Middle(min, max) /\ minTps' = tps /\ UNCHANGED <<max, maxTps>>
           ELSE max' = Middle(min, max) /\ maxTps' = tps /\ UNCHANGED <<min, minTps>>
  BY DEF Bisect
<1>3. /\ tps \in U64
      /\ min \in U64 /\ max \in U64 /\ minTps \in U64 /\ maxTps \in U64
      /\ count \in U64 /\ sum \in U64 /\ best \in U64
  BY DelayAssumption
<1>4. /\ count' \in U64 /\ sum' \in U64
      /\ IsNear(Wrap(max - min)) => count' # 0
  <2>1. Wrap(sum + tps) \in U64
    BY <1>3, WrapIsU64
  <2>2. count + 1 \in U64 /\ count + 1 # 0
    BY <1>1, <1>3, DelayAssumption DEF U64
  <2>3. QED
    BY <1>2, <1>3, <2>1, <2>2
<1>5. CASE Endless
  <2>1. Middle(min, max) = 0
    BY <1>5 DEF Endless, Middle
  <2>2. min' = 0 /\ max' = 0 /\ minTps' \in U64 /\ maxTps' \in U64
    BY <1>2, <1>3, <1>5, <2>1 DEF Endless
  <2>3. IsNear(Wrap(max - min))
    BY <1>5, Differences, DelayAssumption DEF Endless, IsNear, U64
  <2>4. count' # 0 /\ 0 \in U64
    BY <1>4, <2>3, DelayAssumption DEF U64
  <2>5. QED
    BY <1>1, <1>3, <1>4, <2>2, <2>4 DEF Endless
<1>6. CASE min < max
  <2>1. /\ min \in Nat /\ max \in Nat /\ max >= min + 2
        /\ Wrap(max - min) = max - min
    BY <1>1, <1>3, <1>6, Differences DEF U64
  <2>2. PICK mid \in Nat : /\ mid = Middle(min, max)
                           /\ min < mid
                           /\ mid < max
                           /\ max - min <= 2 * (mid - min) + 1
                           /\ max - min <= 2 * (max - mid) + 1
    BY <2>1, MiddleWithin
  <2>3. mid \in U64
    BY <1>3, <2>2, DelayAssumption DEF U64
  <2>4. /\ min' \in U64 /\ max' \in U64 /\ minTps' \in U64 /\ maxTps' \in U64
        /\ min' < max'
        /\ max' < min' + 2 => max - min <= 3
    <3>1. CASE minTps < maxTps
      BY <1>2, <1>3, <2>1, <2>2, <2>3, <3>1
    <3>2. CASE ~ (minTps < maxTps)
      BY <1>2, <1>3, <2>1, <2>2, <2>3, <3>2
    <3>3. QED
      BY <3>1, <3>2
  <2>5. max' < min' + 2 => count' # 0
    BY <1>4, <2>1, <2>4, DelayAssumption DEF IsNear, U64
  <2>6. QED
    BY <1>1, <1>3, <1>4, <2>4, <2>5
<1>7. QED
  BY <1>1, <1>5, <1>6

(* The average divides by zero only when the first interval is not cut.    *)
LEMMA AverageKeeps == Inv /\ Average => Inv'
<1> SUFFICES ASSUME Inv, Average
             PROVE  Inv'
  OBVIOUS
<1> USE DEF Inv, TypeOK, Apart, PanicsAtFirst
<1>1. /\ pc = "loop" /\ min >= Wrap(max - 1)
      /\ min' = min /\ max' = max /\ minTps' = minTps /\ maxTps' = maxTps
      /\ count' = count /\ sum' = sum
  BY DEF Average
<1>2. min \in U64 /\ max \in U64 /\ count \in U64 /\ sum \in U64
  OBVIOUS
<1>3. min < max
  BY <1>1, <1>2, Differences, DelayAssumption DEF Endless, U64
<1>4. max < min + 2
  BY <1>1, <1>2, <1>3, Differences DEF U64
<1>5. CASE count = 0
  <2>1. min = 0 /\ minTps # 0 /\ max = Second \div minTps
    BY <1>1, <1>4, <1>5
  <2>2. Second \div minTps = 1
    BY <1>2, <1>3, <1>4, <2>1 DEF U64
  <2>3. pc' = "panicked" /\ best' = best
    BY <1>5 DEF Average
  <2>4. QED
    BY <1>1, <2>2, <2>3
<1>6. CASE count # 0
  <2>1. pc' = "done" /\ best' = sum \div count
    BY <1>6 DEF Average
  <2>2. sum \div count \in U64
    BY <1>2, <1>6, DivisionIsNat, DelayAssumption DEF U64
  <2>3. QED
    BY <1>1, <2>1, <2>2
<1>7. QED
  BY <1>5, <1>6

(* Every step keeps the invariant.                                         *)
LEMMA NextInv == Inv /\ [Next]_vars => Inv'
<1>1. Inv /\ UNCHANGED vars => Inv'
  BY DEF Inv, TypeOK, Apart, PanicsAtFirst, Endless, vars
<1>2. QED
  BY <1>1, FirstKeeps, AtMaxDelayKeeps, BisectKeeps, AverageKeeps DEF Next

(* The invariant holds in every state of the search.                       *)
THEOREM Invariance == Spec => []Inv
<1>1. Init => Inv
  BY InitInv
<1>2. Inv /\ [Next]_vars => Inv'
  BY NextInv
<1>3. QED
  BY <1>1, <1>2, PTL DEF Spec

(* The variables keep their types, and the interval is empty only in the   *)
(* endless loop.                                                           *)
THEOREM TypeCorrect == Spec => []TypeOK
<1>1. Inv => TypeOK
  BY DEF Inv
<1>2. QED
  BY <1>1, Invariance, PTL

(* The average of find_best_bench is never a division by zero: it panics   *)
(* only when the very first benchmark measured 0, or so much that nothing  *)
(* is left to bisect.                                                      *)
THEOREM PanicsOnlyAtFirst == Spec => []PanicsAtFirst
<1>1. Inv => PanicsAtFirst
  BY DEF Inv
<1>2. QED
  BY <1>1, Invariance, PTL

(* Every step of the loop halves the interval and keeps it non-empty.      *)
THEOREM SearchHalves == Spec => Halves
<1>1. Inv /\ [Next]_vars =>
        [pc = "loop" /\ pc' = "loop" /\ ~ Endless =>
           /\ min' < max'
           /\ max' - min' <= (max - min + 1) \div 2]_vars
  <2> SUFFICES ASSUME Inv, Next, pc = "loop", pc' = "loop", ~ Endless
               PROVE  /\ min' < max'
                      /\ max' - min' <= (max - min + 1) \div 2
    OBVIOUS
  <2>1. Bisect
    BY DEF Next, First, AtMaxDelay, Average
  <2>2. /\ min \in Nat /\ max \in Nat /\ max >= min + 2
    BY <2>1, Differences DEF Bisect, Inv, TypeOK, U64
  <2>3. \/ max' = max /\ min' = Middle(min, max)
        \/ min' = min /\ max' = Middle(min, max)
    BY <2>1 DEF Bisect
  <2>4. QED
    BY <2>2, <2>3, MiddleWithin
<1>2. QED
  BY <1>1, Invariance, PTL DEF Spec, Halves

(* The endless loop is one: when max_send_delay is 0, every turn keeps the *)
(* empty interval, and the condition of the loop, which wraps, holds.      *)
THEOREM EndlessIsForever ==
  Spec => [][pc = "loop" /\ Endless => pc' = "loop" /\ Endless']_vars
<1>1. Inv /\ [Next]_vars => [pc = "loop" /\ Endless => pc' = "loop" /\ Endless']_vars
  <2> SUFFICES ASSUME Inv, Next, pc = "loop", Endless
               PROVE  pc' = "loop" /\ Endless'
    OBVIOUS
  <2>1. ~ Average
    BY Differences, DelayAssumption DEF Average, Endless, U64, Wrap
  <2>2. Bisect
    BY <2>1 DEF Next, First, AtMaxDelay
  <2>3. Middle(min, max) = 0
    BY DEF Endless, Middle
  <2>4. QED
    BY <2>2, <2>3 DEF Bisect, Endless
<1>2. QED
  BY <1>1, Invariance, PTL DEF Spec

=============================================================================
