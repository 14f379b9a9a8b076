---------------------------- MODULE BenchProofs -----------------------------
(***************************************************************************)
(* Proofs about Bench and Transfer.  None of the properties of Bench is    *)
(* inductive; what is proved about its steps has five layers, each         *)
(* inductive given those before it:                                        *)
(*   TypeOK    the types;                                                  *)
(*   Balance   every transaction pays its outputs and fee out of its       *)
(*             inputs, and what a pool holds spends live cells: this holds *)
(*             after a re-organisation too, when cells are sent twice;     *)
(*   Emptied   bench has no inputs when it begins and when it is measured; *)
(*   SentOnce  before a re-organisation, cells arrive in order and         *)
(*             transactions in different places spend different cells,     *)
(*             none of them spent;                                         *)
(*   Carried   before one, every cell that exists is somewhere.            *)
(* A step that moves a transaction from one place to another keeps         *)
(* Balance, SentOnce and Carried for the same reason, so that the places   *)
(* have lemmas of their own (Held).                                        *)
(***************************************************************************)
EXTENDS Bench, SequenceTheorems, Sums

-----------------------------------------------------------------------------
(* The arithmetic of a transfer                                            *)

(* Division with remainder, for the divisors that outputs_count returns.   *)
LEMMA DivisionByOutputs ==
  ASSUME NEW x \in Nat, NEW n \in OutputsCount
  PROVE  /\ x \div n \in Nat
         /\ x % n \in 0..(n - 1)
         /\ x = n * (x \div n) + (x % n)
<1>1. CASE n = 1
  BY <1>1
<1>2. CASE n = 2
  BY <1>2
<1>3. CASE n = 3
  BY <1>3
<1>4. QED
  BY <1>1, <1>2, <1>3 DEF OutputsCount

(* A transfer that the benchmark loop builds, once its inputs reach the    *)
(* least total, makes only outputs that a node accepts: its subtraction of *)
(* the fee does not underflow and each output has the capacity of a cell.  *)
THEOREM OutputsAreCells ==
  ASSUME NEW n \in OutputsCount, NEW total \in Nat, total >= MinInput(n),
         NEW i \in 0..(n - 1)
  PROVE  /\ total - EstimateFee(n) \in Nat
         /\ OutputCapacity(total, n, i) \in Nat
         /\ OutputCapacity(total, n, i) >= MinCell
<1> DEFINE out == total - EstimateFee(n)
<1>1. n \in {1, 2, 3}
  BY DEF OutputsCount
<1>2. EstimateFee(n) \in Nat /\ n * MinCell \in Nat
  BY <1>1, TransferAssumption DEF EstimateFee
<1>3. out \in Nat /\ out >= n * MinCell
  BY <1>2 DEF MinInput
<1>4. /\ out \div n \in Nat
      /\ out % n \in 0..(n - 1)
      /\ out = n * (out \div n) + (out % n)
  BY <1>3, DivisionByOutputs
<1>5. out \div n >= MinCell
  <2> DEFINE q == out \div n
             r == out % n
  <2>1. q \in Nat /\ r \in 0..(n - 1) /\ n * q + r >= n * MinCell
    BY <1>3, <1>4, <1>2
  <2> HIDE DEF q, r
  <2>2. q >= MinCell
    BY <2>1, <1>1, TransferAssumption
  <2>3. QED
    BY <2>2 DEF q
<1>6. QED
  BY <1>3, <1>4, <1>5, TransferAssumption DEF OutputCapacity

(* The outputs of a transfer carry the inputs less the fee, to the         *)
(* shannon: the remainder of the division is not lost.                     *)
THEOREM OutputsAddUp ==
  ASSUME NEW total \in Nat
  PROVE  /\ OutputCapacity(total, 1, 0) = total - EstimateFee(1)
         /\ total >= MinInput(2) =>
              OutputCapacity(total, 2, 0) + OutputCapacity(total, 2, 1)
                = total - EstimateFee(2)
         /\ total >= MinInput(3) =>
              OutputCapacity(total, 3, 0) + OutputCapacity(total, 3, 1)
                + OutputCapacity(total, 3, 2) = total - EstimateFee(3)
<1>1. OutputCapacity(total, 1, 0) = total - EstimateFee(1)
  BY TransferAssumption DEF OutputCapacity, EstimateFee
<1>2. ASSUME total >= MinInput(2)
      PROVE  OutputCapacity(total, 2, 0) + OutputCapacity(total, 2, 1)
               = total - EstimateFee(2)
  <2>1. total - EstimateFee(2) \in Nat
    BY <1>2, TransferAssumption DEF MinInput, EstimateFee
  <2>2. QED
    BY <2>1, DivisionByOutputs DEF OutputCapacity, OutputsCount
<1>3. ASSUME total >= MinInput(3)
      PROVE  OutputCapacity(total, 3, 0) + OutputCapacity(total, 3, 1)
               + OutputCapacity(total, 3, 2) = total - EstimateFee(3)
  <2>1. total - EstimateFee(3) \in Nat
    BY <1>3, TransferAssumption DEF MinInput, EstimateFee
  <2>2. QED
    BY <2>1, DivisionByOutputs DEF OutputCapacity, OutputsCount
<1>4. QED
  BY <1>1, <1>2, <1>3

-----------------------------------------------------------------------------
(* The first layer                                                         *)

(* The constants, and the benchmark that runs.                             *)
LEMMA Settings ==
  ASSUME TypeOK
  PROVE  /\ NE \in Nat /\ NE > 0
         /\ Len(Benchmarks) \in Nat
         /\ pc # "done" => N \in OutputsCount
         /\ QueueCap \in Nat /\ QueueCap > 0 /\ ChanCap \in Nat
         /\ MinCell \in Nat /\ FeeRate \in Nat
<1>1. NE \in Nat /\ NE > 0 /\ Len(Benchmarks) \in Nat
  BY BenchAssumption
<1>2. pc # "done" => N \in OutputsCount
  <2>1. pc # "done" => run \in 1..Len(Benchmarks)
    BY DEF TypeOK, Run
  <2>2. QED
    BY <2>1, BenchAssumption, ElementOfSeq DEF N
<1>3. QED
  BY <1>1, <1>2, BenchAssumption, TransferAssumption

(* The inputs of a transaction have a capacity.                            *)
LEMMA CapacityType ==
  ASSUME feed \in Seq(Nat), NEW s \in Seq(Cell)
  PROVE  Capacity(s) \in Nat
<1> DEFINE f == [i \in DOMAIN s |-> feed[s[i]]]
<1>1. DOMAIN s = 1..Len(s) /\ Len(s) \in Nat /\ Len(feed) \in Nat
  BY LenProperties
<1>2. IsFiniteSet(DOMAIN s)
  BY <1>1, FS_Interval
<1>3. \A i \in DOMAIN s : f[i] \in Nat
  BY <1>1, ElementOfSeq DEF Cell
<1>4. SumFunctionOnSet(f, DOMAIN s) \in Nat
  <2> HIDE DEF f
  <2>1. QED
    BY <1>2, <1>3, SumType
<1>5. QED
  BY <1>4 DEF Capacity, SumFunction

(* Fees, and the least total of inputs, are natural numbers.               *)
LEMMA FeeType ==
  ASSUME NEW n \in Nat
  PROVE  EstimateFee(n) \in Nat
<1>1. FeeRate \in Nat
  BY TransferAssumption
<1>2. QED
  BY <1>1 DEF EstimateFee

LEMMA MinInputType ==
  ASSUME NEW n \in OutputsCount
  PROVE  MinInput(n) \in Nat
<1>1. n \in Nat /\ MinCell \in Nat
  BY TransferAssumption DEF OutputsCount
<1>2. n * MinCell \in Nat
  BY <1>1
<1>3. QED
  BY <1>1, <1>2, FeeType DEF MinInput

(* The transaction that bench builds from enough inputs.                   *)
LEMMA BuiltTransaction ==
  ASSUME TypeOK, NEW in \in Seq(Cell), NEW n \in OutputsCount,
         Capacity(in) >= MinInput(n)
  PROVE  /\ Transaction(in, n) \in Tx
         /\ Transaction(in, n).inputs = in
         /\ Len(Transaction(in, n).outputs) = n
         /\ \A i \in 1..n :
              /\ Transaction(in, n).outputs[i] = OutputCapacity(Capacity(in), n, i - 1)
              /\ Transaction(in, n).outputs[i] \in Nat
              /\ Transaction(in, n).outputs[i] >= MinCell
<1> DEFINE out == [i \in 1..n |-> OutputCapacity(Capacity(in), n, i - 1)]
<1>1. Capacity(in) \in Nat
  BY CapacityType DEF TypeOK
<1>2. n \in Nat
  BY DEF OutputsCount
<1>3. ASSUME NEW i \in 1..n
      PROVE  out[i] \in Nat /\ out[i] >= MinCell
  <2>1. i - 1 \in 0..(n - 1)
    BY <1>2
  <2>2. QED
    BY <1>1, <2>1, OutputsAreCells
<1>4. out \in Seq(Nat) /\ Len(out) = n
  <2> HIDE DEF out
  <2>1. out \in [1..n -> Nat]
    BY <1>3 DEF out
  <2>2. QED
    BY <1>2, <2>1
<1>5. PICK o \in Seq(Nat) : o = out
  BY <1>4
<1>6. Transaction(in, n) = [inputs |-> in, outputs |-> o]
  BY <1>5 DEF Transaction
<1>7. [inputs |-> in, outputs |-> o] \in Tx
  BY DEF Tx
<1>8. Len(o) = n /\ \A i \in 1..n : /\ o[i] = OutputCapacity(Capacity(in), n, i - 1)
                                     /\ o[i] \in Nat /\ o[i] >= MinCell
  BY <1>3, <1>4, <1>5
<1>9. QED
  BY <1>6, <1>7, <1>8

LEMMA InitType == Init => TypeOK
<1> SUFFICES ASSUME Init
             PROVE  TypeOK
  OBVIOUS
<1>1. /\ NE \in Nat /\ NE > 0 /\ Len(Benchmarks) \in Nat
      /\ Benchmarks # <<>> => Len(Benchmarks) > 0
  BY BenchAssumption, EmptySeq
<1>2. /\ QueueCap \in Nat /\ ChanCap \in Nat
      /\ feed \in Seq(Nat) /\ Len(feed) \in Nat
  BY BenchAssumption DEF Init
<1>3. <<>> \in Seq(Cell) /\ <<>> \in Seq(Nat) /\ <<>> \in Seq(Tx) /\ Len(<<>>) = 0
  BY EmptySeq
<1>4. tx \in Tx
  BY <1>3 DEF Init, NoTx, Tx
<1>5. /\ queue \in [Run -> [Endpoint -> Seq(Tx)]]
      /\ hand \in [Run -> [Endpoint -> Seq(Tx)]]
      /\ \A r \in Run, e \in Endpoint :
           Len(queue[r][e]) <= QueueCap /\ Len(hand[r][e]) <= 1
  BY <1>2, <1>3 DEF Init
<1>6. pc \in {"wait", "done"} /\ run \in Nat /\ (pc # "done" => run \in Run)
  BY <1>1 DEF Init, Run
<1>7. /\ inputs \in Seq(Cell)
      /\ chan \in Seq(Cell) /\ Len(chan) <= ChanCap
      /\ next \in 0..Len(feed)
      /\ pool \in [Endpoint -> SUBSET Tx]
      /\ faults \in Nat
      /\ cursor \in 0..(NE - 1) /\ polled \in 0..NE
  BY <1>1, <1>2, <1>3 DEF Init
<1>8. QED
  BY <1>2, <1>4, <1>5, <1>6, <1>7 DEF Init, TypeOK

(* Every step of the main thread keeps the types.                          *)
LEMMA MainType == TypeOK /\ Main => TypeOK'
<1> SUFFICES ASSUME TypeOK, Main
             PROVE  TypeOK'
  OBVIOUS
<1> USE DEF TypeOK, emitterVars, monitorVars, nodeVars
<1>0. /\ NE \in Nat /\ NE > 0 /\ Len(Benchmarks) \in Nat
      /\ QueueCap \in Nat /\ QueueCap > 0
  BY Settings
<1>a. /\ UNCHANGED <<feed, pool, spent, fees, faults, rolledBack>>
      /\ Cell' = Cell /\ Tx' = Tx
  BY DEF Main, Cell, Tx
<1>b. <<>> \in Seq(Cell) /\ NoTx \in Tx
  BY EmptySeq DEF NoTx, Tx
<1>1. CASE Wait
  BY <1>0, <1>a, <1>1 DEF Wait
<1>2. CASE Start
  BY <1>0, <1>a, <1>b, <1>2 DEF Start
<1>3. CASE Recv
  <2>1. /\ Head(chan) \in Cell /\ Tail(chan) \in Seq(Cell)
        /\ Len(Tail(chan)) = Len(chan) - 1 /\ Len(chan) \in Nat
    BY <1>3, HeadTailProperties DEF Recv
  <2>2. PICK in \in Seq(Cell) : in = Append(inputs, Head(chan))
    BY <2>1, AppendProperties
  <2>3. /\ chan' = Tail(chan) /\ pc = "recv"
        /\ UNCHANGED <<run, polled, cursor, metrics, queue, hand, next, alive, lost>>
        /\ IF Capacity(in) < MinInput(N)
           THEN inputs' = in /\ UNCHANGED <<pc, tx>>
           ELSE inputs' = <<>> /\ tx' = Transaction(in, N) /\ pc' = "emit"
    BY <1>3, <2>2 DEF Recv, SplitOff
  <2>4. inputs' \in Seq(Cell) /\ tx' \in Tx /\ pc' \in {"recv", "emit"}
    <3>1. CASE Capacity(in) < MinInput(N)
      BY <2>2, <2>3, <3>1
    <3>2. CASE ~ (Capacity(in) < MinInput(N))
      <4>1. N \in OutputsCount /\ Capacity(in) \in Nat /\ MinInput(N) \in Nat
        BY <2>2, <2>3, Settings, CapacityType, MinInputType
      <4>2. Capacity(in) >= MinInput(N)
        BY <3>2, <4>1
      <4>3. Transaction(in, N) \in Tx
        BY <2>2, <4>1, <4>2, BuiltTransaction
      <4>4. QED
        BY <1>b, <2>3, <3>2, <4>3
    <3>3. QED
      BY <3>1, <3>2
  <2>5. chan' \in Seq(Cell) /\ Len(chan') <= ChanCap
    BY <2>1, <2>3, BenchAssumption
  <2>6. QED
    BY <1>a, <2>3, <2>4, <2>5
<1>4. CASE TryEmit
  <2> DEFINE e == ((cursor + 1) % NE) + 1
  <2>1. e \in Endpoint /\ cursor' \in 0..(NE - 1) /\ run \in Run /\ pc = "emit"
    BY <1>0, <1>4 DEF TryEmit, Endpoint
  <2>2. CASE HasRoom(queue[run][e])
    <3>1. queue' = [queue EXCEPT ![run][e] = Append(queue[run][e], tx)]
      BY <1>4, <2>2 DEF TryEmit
    <3>2. PICK q \in Seq(Tx) : q = Append(queue[run][e], tx) /\ Len(q) <= QueueCap
      <4>1. PICK p \in Seq(Tx) : p = queue[run][e] /\ Len(p) < QueueCap
        BY <2>1, <2>2 DEF HasRoom
      <4>2. Append(p, tx) \in Seq(Tx) /\ Len(Append(p, tx)) = Len(p) + 1 /\ Len(p) \in Nat
        BY AppendProperties
      <4>3. Len(Append(p, tx)) <= QueueCap
        BY <1>0, <4>1, <4>2
      <4>4. QED
        BY <4>1, <4>2, <4>3
    <3>3. /\ queue' \in [Run -> [Endpoint -> Seq(Tx)]]
          /\ \A r \in Run, f \in Endpoint : Len(queue'[r][f]) <= QueueCap
      BY <2>1, <3>1, <3>2
    <3>4. QED
      BY <1>4, <1>a, <1>b, <2>1, <2>2, <3>3 DEF TryEmit
  <2>3. CASE ~ HasRoom(queue[run][e])
    BY <1>4, <1>a, <2>1, <2>3 DEF TryEmit
  <2>4. QED
    BY <2>2, <2>3
<1>5. ASSUME Return, pc # "done"
      PROVE  /\ metrics' = "none" /\ polled' = 0
             /\ run' \in Nat /\ pc' \in {"wait", "done"}
             /\ (pc' # "done" => run' \in Run)
  BY <1>0, <1>5 DEF Return, Run
<1>6. CASE Notify
  <2>1. CASE metrics = "ready"
    BY <1>0, <1>5, <1>6, <1>a, <2>1 DEF Notify
  <2>2. CASE metrics # "ready"
    BY <1>6, <1>a, <2>2 DEF Notify
  <2>3. QED
    BY <2>1, <2>2
<1>7. CASE Disconnected
  <2>1. Range(inputs) \subseteq Cell
    BY RangeOfSeq
  <2>2. QED
    BY <1>0, <1>5, <1>7, <1>a, <1>b, <2>1 DEF Disconnected
<1>8. QED
  BY <1>1, <1>2, <1>3, <1>4, <1>6, <1>7 DEF Main

(* Every step of an emitter keeps the types.                               *)
LEMMA EmitterType ==
  ASSUME TypeOK, NEW r \in Run, NEW e \in Endpoint, Emitter(r, e)
  PROVE  TypeOK'
<1> USE DEF TypeOK, emitterVars, mainVars, monitorVars, faultVars
<1>a. UNCHANGED <<pc, run, polled, inputs, tx, cursor, metrics, chan, next, alive, feed,
                  spent, fees, lost, faults, rolledBack>>
  BY DEF Emitter
<1>b. Cell' = Cell /\ Tx' = Tx
  BY <1>a DEF Cell, Tx
<1>1. CASE Take(r, e)
  <2>1. PICK q \in Seq(Tx) : q = queue[r][e] /\ q # <<>> /\ Len(q) <= QueueCap
    BY <1>1 DEF Take
  <2>2. Head(q) \in Tx /\ Tail(q) \in Seq(Tx) /\ Len(Tail(q)) <= QueueCap
    BY <2>1, HeadTailProperties, Settings
  <2>3. <<Head(q)>> \in Seq(Tx) /\ Len(<<Head(q)>>) = 1
    BY <2>2
  <2>4. /\ queue' = [queue EXCEPT ![r][e] = Tail(q)]
        /\ hand' = [hand EXCEPT ![r][e] = <<Head(q)>>]
        /\ pool' = pool
    BY <1>1, <2>1 DEF Take
  <2>5. /\ queue' \in [Run -> [Endpoint -> Seq(Tx)]]
        /\ hand' \in [Run -> [Endpoint -> Seq(Tx)]]
    BY <2>2, <2>3, <2>4
  <2>6. \A s \in Run, f \in Endpoint : Len(queue'[s][f]) <= QueueCap /\ Len(hand'[s][f]) <= 1
    BY <2>2, <2>3, <2>4
  <2>7. QED
    BY <1>a, <1>b, <2>4, <2>5, <2>6
<1>2. CASE Offer(r, e)
  <2>1. PICK h \in Seq(Tx) : h = hand[r][e] /\ h # <<>>
    BY <1>2 DEF Offer
  <2>2. h[1] \in Tx
    BY <2>1, EmptySeq, ElementOfSeq
  <2>3. <<>> \in Seq(Tx) /\ Len(<<>>) = 0
    BY EmptySeq
  <2>4. /\ hand' = [hand EXCEPT ![r][e] = <<>>]
        /\ queue' = queue
        /\ pool' = [pool EXCEPT ![e] = IF Valid(h[1], e) /\ ~ PoolIsFull(e)
                                       THEN pool[e] \cup {h[1]} ELSE pool[e]]
    BY <1>2, <2>1 DEF Offer
  <2>5. pool' \in [Endpoint -> SUBSET Tx]
    BY <2>2, <2>4
  <2>6. /\ hand' \in [Run -> [Endpoint -> Seq(Tx)]]
        /\ \A s \in Run, f \in Endpoint : Len(hand'[s][f]) <= 1
    BY <2>3, <2>4
  <2>7. QED
    BY <1>a, <1>b, <2>4, <2>5, <2>6
<1>3. QED
  BY <1>1, <1>2 DEF Emitter

(* A block keeps the types: there are more cells.                          *)
LEMMA CommitType ==
  ASSUME TypeOK, NEW e \in Endpoint, Commit(e)
  PROVE  TypeOK' /\ Cell \subseteq Cell'
<1> USE DEF TypeOK, mainVars, emitterVars, monitorVars, faultVars
<1>1. PICK t \in pool[e] :
        /\ spent' = spent \cup Range(t.inputs)
        /\ feed' = feed \o t.outputs
        /\ pool' = [f \in Endpoint |->
                      {u \in pool[f] : Range(u.inputs) \cap Range(t.inputs) = {}}]
        /\ fees' = fees + EstimateFee(Len(t.outputs))
        /\ UNCHANGED <<mainVars, metrics, emitterVars, monitorVars, faultVars>>
  BY DEF Commit
<1>2. t \in Tx /\ t.inputs \in Seq(Cell) /\ t.outputs \in Seq(Nat)
  BY DEF Tx
<1>3. /\ feed' \in Seq(Nat) /\ Len(feed') = Len(feed) + Len(t.outputs)
      /\ Len(feed) \in Nat /\ Len(t.outputs) \in Nat
  BY <1>1, <1>2, ConcatProperties
<1>4. Cell \subseteq Cell'
  BY <1>3 DEF Cell
<1>5. Seq(Cell) \subseteq Seq(Cell')
  BY <1>4, SeqMonotonic
<1>6. Tx \subseteq Tx'
  BY <1>5 DEF Tx
<1>7. Seq(Tx) \subseteq Seq(Tx')
  BY <1>6, SeqMonotonic
<1>8. Range(t.inputs) \subseteq Cell
  BY <1>2, RangeOfSeq
<1>9. /\ inputs' \in Seq(Cell') /\ chan' \in Seq(Cell') /\ tx' \in Tx'
      /\ spent' \subseteq Cell' /\ lost' \subseteq Cell'
  BY <1>1, <1>4, <1>5, <1>6, <1>8
<1>10. /\ queue' \in [Run -> [Endpoint -> Seq(Tx')]]
       /\ hand' \in [Run -> [Endpoint -> Seq(Tx')]]
  BY <1>1, <1>7
<1>11. pool' \in [Endpoint -> SUBSET Tx']
  BY <1>1, <1>6
<1>12. fees' \in Nat
  <2>1. EstimateFee(Len(t.outputs)) \in Nat
    BY <1>3, FeeType
  <2>2. QED
    BY <1>1, <2>1
<1>13. next' \in 0..Len(feed')
  BY <1>1, <1>3
<1>14. QED
  BY <1>1, <1>3, <1>4, <1>9, <1>10, <1>11, <1>12, <1>13

(* The other steps keep the types.                                         *)
LEMMA OtherType == TypeOK /\ (Measured \/ Deliver \/ Fault) => TypeOK'
<1> SUFFICES ASSUME TypeOK, Measured \/ Deliver \/ Fault
             PROVE  TypeOK'
  OBVIOUS
<1> USE DEF TypeOK, mainVars, emitterVars, monitorVars, nodeVars, faultVars
<1>a. feed' = feed /\ Cell' = Cell /\ Tx' = Tx /\ Len(feed) \in Nat
  <2>1. feed' = feed
    BY DEF Measured, Deliver, Fault, RollBack, LostInTransit, LostByNode, MonitorPanics,
       MeasurePanics
  <2>2. QED
    BY <2>1 DEF Cell, Tx
<1>b. \A k \in FaultKind : Fails(k) => faults' \in Nat
  BY Settings DEF Fails
<1>1. CASE Measured
  BY <1>1, <1>a DEF Measured
<1>2. CASE Deliver
  <2>1. next' = next + 1 /\ next' \in Cell /\ Len(chan) < ChanCap /\ chan' = Append(chan, next')
    BY <1>2, <1>a DEF Deliver, Cell
  <2>2. chan' \in Seq(Cell) /\ Len(chan') <= ChanCap
    BY <2>1, AppendProperties, Settings
  <2>3. next' \in 0..Len(feed')
    BY <1>a, <2>1 DEF Cell
  <2>4. chan' \in Seq(Cell') /\ Len(chan') <= ChanCap
    BY <1>a, <2>2
  <2>5. /\ spent' \subseteq Cell' /\ lost' \subseteq Cell' /\ inputs' \in Seq(Cell')
        /\ tx' \in Tx' /\ feed' \in Seq(Nat)
        /\ queue' \in [Run -> [Endpoint -> Seq(Tx')]]
        /\ hand' \in [Run -> [Endpoint -> Seq(Tx')]]
        /\ pool' \in [Endpoint -> SUBSET Tx']
    BY <1>2, <1>a DEF Deliver
  <2>6. QED
    BY <1>2, <2>3, <2>4, <2>5 DEF Deliver
<1>3. CASE RollBack
  <2>1. next' \in 0..Len(feed')
    BY <1>3, <1>a DEF RollBack
  <2>2. QED
    BY <1>3, <1>a, <1>b, <2>1 DEF RollBack, FaultKind
<1>4. ASSUME NEW r \in Run, NEW e \in Endpoint, LostInTransit(r, e)
      PROVE  TypeOK'
  <2>1. PICK h \in Seq(Tx) : h = hand[r][e] /\ h # <<>>
    BY <1>4 DEF LostInTransit
  <2>2. h[1] \in Tx
    BY <2>1, EmptySeq, ElementOfSeq
  <2>3. Range(h[1].inputs) \subseteq Cell
    BY <2>2, RangeOfSeq DEF Tx
  <2>4. <<>> \in Seq(Tx) /\ Len(<<>>) = 0
    BY EmptySeq
  <2>5. /\ hand' = [hand EXCEPT ![r][e] = <<>>]
        /\ lost' = lost \cup Range(h[1].inputs)
    BY <1>4, <2>1 DEF LostInTransit
  <2>6. /\ hand' \in [Run -> [Endpoint -> Seq(Tx)]]
        /\ \A s \in Run, f \in Endpoint : Len(hand'[s][f]) <= 1
    BY <2>4, <2>5
  <2>7. QED
    BY <1>4, <1>a, <1>b, <2>3, <2>5, <2>6 DEF LostInTransit, FaultKind
<1>5. ASSUME NEW e \in Endpoint, LostByNode(e)
      PROVE  TypeOK'
  <2>1. PICK t \in pool[e] : /\ lost' = lost \cup Range(t.inputs)
                             /\ pool' = [pool EXCEPT ![e] = pool[e] \ {t}]
    BY <1>5 DEF LostByNode
  <2>2. Range(t.inputs) \subseteq Cell
    BY RangeOfSeq DEF Tx
  <2>3. QED
    BY <1>5, <1>a, <1>b, <2>1, <2>2 DEF LostByNode, FaultKind
<1>6. CASE MonitorPanics
  BY <1>6, <1>a, <1>b DEF MonitorPanics, FaultKind
<1>7. CASE MeasurePanics
  BY <1>7, <1>a, <1>b DEF MeasurePanics, FaultKind
<1>8. QED
  BY <1>1, <1>2, <1>3, <1>4, <1>5, <1>6, <1>7 DEF Fault

LEMMA NextType == TypeOK /\ [Next]_vars => TypeOK'
<1> SUFFICES ASSUME TypeOK, [Next]_vars
             PROVE  TypeOK'
  OBVIOUS
<1>1. CASE UNCHANGED vars
  BY <1>1 DEF TypeOK, vars, mainVars, emitterVars, monitorVars, nodeVars, faultVars, Cell,
     Tx
<1>2. QED
  BY <1>1, MainType, EmitterType, CommitType, OtherType DEF Next

(* The variables of the benchmark have their types.                        *)
THEOREM TypeCorrect == Spec => []TypeOK
<1>1. Init => TypeOK
  BY InitType
<1>2. TypeOK /\ [Next]_vars => TypeOK'
  BY NextType
<1>3. QED
  BY <1>1, <1>2, PTL DEF Spec

-----------------------------------------------------------------------------
(* Where a transaction can be                                              *)

InQueue(t, r, e, i) ==
  r \in Run /\ e \in Endpoint /\ i \in 1..Len(queue[r][e]) /\ t = queue[r][e][i]

InHand(t, r, e) ==
  r \in Run /\ e \in Endpoint /\ hand[r][e] # <<>> /\ t = hand[r][e][1]

InPool(t, e) == e \in Endpoint /\ t \in pool[e]

Held(t) ==
  \/ t = tx
  \/ \E r, e, i : InQueue(t, r, e, i)
  \/ \E r, e : InHand(t, r, e)
  \/ \E e : InPool(t, e)

(* The transactions that are not settled are those at one of these places. *)
LEMMA HeldIsUnsettled ==
  ASSUME TypeOK
  PROVE  \A t : (t \in Unsettled <=> Held(t)) /\ (Held(t) => t \in Tx)
<1>1. ASSUME NEW r \in Run, NEW e \in Endpoint, NEW t
      PROVE  /\ (t \in Range(queue[r][e])) <=> (\E i : InQueue(t, r, e, i))
             /\ (t \in Range(hand[r][e])) <=> InHand(t, r, e)
             /\ (t \in Range(queue[r][e]) \cup Range(hand[r][e])) => t \in Tx
  <2>1. PICK q \in Seq(Tx), h \in Seq(Tx) :
          q = queue[r][e] /\ h = hand[r][e] /\ Len(h) <= 1
    BY DEF TypeOK
  <2>2. /\ Range(q) = {q[i] : i \in 1..Len(q)}
        /\ Range(h) = {h[i] : i \in 1..Len(h)}
        /\ \A i \in 1..Len(q) : q[i] \in Tx
        /\ \A i \in 1..Len(h) : h[i] \in Tx
    BY RangeEquality, ElementOfSeq
  <2>3. (h = <<>> => 1..Len(h) = {}) /\ (h # <<>> => 1..Len(h) = {1})
    <3>1. PICK n \in Nat : n = Len(h) /\ n <= 1 /\ (n = 0 <=> h = <<>>)
      BY <2>1, EmptySeq, LenProperties
    <3>2. (n = 0 => 1..n = {}) /\ (n # 0 => 1..n = {1})
      BY <3>1
    <3>3. QED
      BY <3>1, <3>2
  <2>4. (t \in Range(h)) <=> (h # <<>> /\ t = h[1])
    BY <2>2, <2>3
  <2>5. (t \in Range(q)) <=> (\E i \in 1..Len(q) : t = q[i])
    BY <2>2
  <2>6. (t \in Range(q) \cup Range(h)) => t \in Tx
    BY <2>2
  <2>7. (t \in Range(queue[r][e])) <=> (\E i : InQueue(t, r, e, i))
    BY <2>1, <2>5 DEF InQueue
  <2>8. (t \in Range(hand[r][e])) <=> InHand(t, r, e)
    BY <2>1, <2>4 DEF InHand
  <2>9. QED
    BY <2>1, <2>6, <2>7, <2>8
<1>2. ASSUME NEW t
      PROVE  (t \in Waiting) <=> (\/ t = tx
                                  \/ \E r, e, i : InQueue(t, r, e, i)
                                  \/ \E r, e : InHand(t, r, e))
  <2>1. (t \in Waiting) <=> (\/ t = tx
                             \/ \E r \in Run, e \in Endpoint :
                                  t \in Range(queue[r][e]) \cup Range(hand[r][e]))
    <3> DEFINE W(r, e) == Range(queue[r][e]) \cup Range(hand[r][e])
               U == UNION {W(r, e) : r \in Run, e \in Endpoint}
    <3>1. t \in U <=> \E r \in Run, e \in Endpoint : t \in W(r, e)
      <4>1. ASSUME t \in U
            PROVE  \E r \in Run, e \in Endpoint : t \in W(r, e)
        <5>1. PICK w \in {W(r, e) : r \in Run, e \in Endpoint} : t \in w
          BY <4>1
        <5>2. QED
          BY <5>1
      <4>2. ASSUME NEW r \in Run, NEW e \in Endpoint, t \in W(r, e)
            PROVE  t \in U
        <5>1. W(r, e) \in {W(a, b) : a \in Run, b \in Endpoint}
          OBVIOUS
        <5> HIDE DEF W
        <5>2. QED
          BY <4>2, <5>1
      <4>3. QED
        BY <4>1, <4>2
    <3>2. Waiting = {tx} \cup U
      BY DEF Waiting
    <3> HIDE DEF U
    <3>3. QED
      BY <3>1, <3>2
  <2>2. \A r \in Run, e \in Endpoint :
          /\ (t \in Range(queue[r][e])) <=> (\E i : InQueue(t, r, e, i))
          /\ (t \in Range(hand[r][e])) <=> InHand(t, r, e)
    BY <1>1
  <2>3. QED
    BY <2>1, <2>2 DEF InQueue, InHand
<1>3. \A t : t \in Unsettled <=> Held(t)
  BY <1>2 DEF Unsettled, Held, InPool
<1>4. ASSUME NEW t, Held(t)
      PROVE  t \in Tx
  <2>1. ASSUME NEW r, NEW e, NEW i, InQueue(t, r, e, i)
        PROVE  t \in Tx
    <3>1. r \in Run /\ e \in Endpoint
      BY <2>1 DEF InQueue
    <3>2. QED
      BY <1>1, <2>1, <3>1
  <2>2. ASSUME NEW r, NEW e, InHand(t, r, e)
        PROVE  t \in Tx
    <3>1. r \in Run /\ e \in Endpoint
      BY <2>2 DEF InHand
    <3>2. QED
      BY <1>1, <2>2, <3>1
  <2>3. ASSUME NEW e, InPool(t, e)
        PROVE  t \in Tx
    BY <2>3 DEF InPool, TypeOK
  <2>4. QED
    BY <1>4, <2>1, <2>2, <2>3 DEF Held, TypeOK
<1>5. QED
  BY <1>3, <1>4

(* try_send puts the transaction at the end of the queue of an emitter.    *)
LEMMA TryEmitMoves ==
  ASSUME TypeOK, TryEmit, UNCHANGED nodeVars
  PROVE  \/ UNCHANGED <<queue, hand, pool, tx>>
         \/ /\ tx' = NoTx
            /\ \E r \in Run, e \in Endpoint : \A t, s, f :
                 /\ \A i : InQueue(t, s, f, i)' <=>
                      \/ InQueue(t, s, f, i)
                      \/ s = r /\ f = e /\ i = Len(queue[r][e]) + 1 /\ t = tx
                 /\ InHand(t, s, f)' <=> InHand(t, s, f)
                 /\ InPool(t, f)' <=> InPool(t, f)
<1> DEFINE e == ((cursor + 1) % NE) + 1
<1>1. e \in Endpoint /\ run \in Run
  <2>1. NE \in Nat /\ NE > 0
    BY Settings
  <2>2. QED
    BY <2>1 DEF TypeOK, TryEmit, Endpoint
<1>2. UNCHANGED <<hand, pool>>
  BY DEF TryEmit, nodeVars
<1>3. CASE HasRoom(queue[run][e])
  <2>1. tx' = NoTx /\ queue' = [queue EXCEPT ![run][e] = Append(queue[run][e], tx)]
    BY <1>3 DEF TryEmit
  <2>2. PICK q \in Seq(Tx) : q = queue[run][e]
    BY <1>1 DEF TypeOK
  <2>3. /\ Len(Append(q, tx)) = Len(q) + 1 /\ Len(q) \in Nat
        /\ \A i \in 1..Len(q) : Append(q, tx)[i] = q[i]
        /\ Append(q, tx)[Len(q) + 1] = tx
    BY <2>2, AppendProperties DEF TypeOK
  <2>4. /\ queue'[run][e] = Append(q, tx)
        /\ \A s \in Run, f \in Endpoint : ~ (s = run /\ f = e) => queue'[s][f] = queue[s][f]
    BY <1>1, <2>1, <2>2 DEF TypeOK
  <2>5. ASSUME NEW t, NEW s, NEW f, NEW i
        PROVE  InQueue(t, s, f, i)' <=>
                 \/ InQueue(t, s, f, i)
                 \/ s = run /\ f = e /\ i = Len(queue[run][e]) + 1 /\ t = tx
    <3>1. CASE s = run /\ f = e
      <4>1. i \in 1..Len(queue'[run][e]) <=> (i \in 1..Len(q) \/ i = Len(q) + 1)
        BY <2>3, <2>4
      <4>2. i \in 1..Len(q) => i # Len(q) + 1
        BY <2>3
      <4>3. QED
        BY <1>1, <2>2, <2>3, <2>4, <3>1, <4>1, <4>2 DEF InQueue
    <3>2. CASE ~ (s = run /\ f = e)
      BY <2>4, <3>2 DEF InQueue
    <3>3. QED
      BY <3>1, <3>2
  <2>6. QED
    BY <1>1, <1>2, <2>1, <2>5 DEF InHand, InPool
<1>4. CASE ~ HasRoom(queue[run][e])
  BY <1>2, <1>4 DEF TryEmit
<1>5. QED
  BY <1>3, <1>4

(* An emitter takes the first transaction of its queue.                    *)
LEMMA TakeMoves ==
  ASSUME TypeOK, NEW r \in Run, NEW e \in Endpoint, Take(r, e)
  PROVE  /\ \E t : InQueue(t, r, e, 1)
         /\ \A t : ~ InHand(t, r, e)
         /\ \A t, s, f :
              /\ \A i : InQueue(t, s, f, i)' <=>
                   IF s = r /\ f = e THEN i \in Nat \ {0} /\ InQueue(t, r, e, i + 1)
                                     ELSE InQueue(t, s, f, i)
              /\ InHand(t, s, f)' <=>
                   IF s = r /\ f = e THEN InQueue(t, r, e, 1) ELSE InHand(t, s, f)
              /\ InPool(t, f)' <=> InPool(t, f)
<1>1. PICK q \in Seq(Tx) : q = queue[r][e] /\ q # <<>>
  BY DEF Take, TypeOK
<1>2. /\ queue' = [queue EXCEPT ![r][e] = Tail(q)]
      /\ hand' = [hand EXCEPT ![r][e] = <<Head(q)>>]
      /\ pool' = pool /\ hand[r][e] = <<>>
  BY <1>1 DEF Take
<1>3. /\ Len(q) \in Nat /\ Len(q) > 0 /\ Len(Tail(q)) = Len(q) - 1
      /\ \A i \in 1..Len(Tail(q)) : Tail(q)[i] = q[i + 1]
      /\ Head(q) = q[1]
  BY <1>1, EmptySeq, HeadTailProperties
<1>4. /\ queue'[r][e] = Tail(q) /\ hand'[r][e] = <<Head(q)>>
      /\ \A s \in Run, f \in Endpoint : ~ (s = r /\ f = e) =>
           queue'[s][f] = queue[s][f] /\ hand'[s][f] = hand[s][f]
  BY <1>2 DEF TypeOK
<1>5. ASSUME NEW t, NEW i
      PROVE  InQueue(t, r, e, i)' <=> i \in Nat \ {0} /\ InQueue(t, r, e, i + 1)
  <2>1. i \in 1..Len(Tail(q)) <=> i \in Nat \ {0} /\ i + 1 \in 1..Len(q)
    BY <1>3
  <2>2. QED
    BY <1>1, <1>3, <1>4, <2>1 DEF InQueue
<1>6. ASSUME NEW t
      PROVE  InHand(t, r, e)' <=> InQueue(t, r, e, 1)
  <2>1. 1 \in 1..Len(q) /\ <<Head(q)>> # <<>> /\ <<Head(q)>>[1] = q[1]
    BY <1>3
  <2>2. QED
    BY <1>1, <1>4, <2>1 DEF InQueue, InHand
<1>7. InQueue(q[1], r, e, 1)
  BY <1>1, <1>3 DEF InQueue
<1>8. ASSUME NEW t, NEW s, NEW f, ~ (s = r /\ f = e)
      PROVE  /\ \A i : InQueue(t, s, f, i)' <=> InQueue(t, s, f, i)
             /\ InHand(t, s, f)' <=> InHand(t, s, f)
  BY <1>4, <1>8 DEF InQueue, InHand
<1>9. QED
  BY <1>2, <1>5, <1>6, <1>7, <1>8 DEF InHand, InPool

(* It submits the transaction that it has taken, or drops it.              *)
LEMMA OfferMoves ==
  ASSUME TypeOK, NEW r \in Run, NEW e \in Endpoint, Offer(r, e)
  PROVE  \E h :
           /\ InHand(h, r, e) /\ ~ Again(h, e)
           /\ \A t, s, f :
                /\ \A i : InQueue(t, s, f, i)' <=> InQueue(t, s, f, i)
                /\ InHand(t, s, f)' <=> ~ (s = r /\ f = e) /\ InHand(t, s, f)
                /\ InPool(t, f)' <=> \/ InPool(t, f)
                                     \/ f = e /\ t = h /\ Valid(h, e)
<1> DEFINE h == hand[r][e][1]
<1>1. /\ hand[r][e] # <<>> /\ ~ Again(h, e)
      /\ hand' = [hand EXCEPT ![r][e] = <<>>]
      /\ pool' = [pool EXCEPT ![e] = IF Valid(h, e) /\ ~ PoolIsFull(e)
                                     THEN pool[e] \cup {h} ELSE pool[e]]
      /\ queue' = queue
  BY DEF Offer
<1>2. ~ PoolIsFull(e)
  BY <1>1 DEF Again
<1>3. /\ hand'[r][e] = <<>>
      /\ \A s \in Run, f \in Endpoint : ~ (s = r /\ f = e) => hand'[s][f] = hand[s][f]
  BY <1>1 DEF TypeOK
<1>4. /\ pool'[e] = IF Valid(h, e) THEN pool[e] \cup {h} ELSE pool[e]
      /\ \A f \in Endpoint : f # e => pool'[f] = pool[f]
  BY <1>1, <1>2 DEF TypeOK
<1>5. InHand(h, r, e)
  BY <1>1 DEF InHand
<1>6. \A t, s, f, i : InQueue(t, s, f, i)' <=> InQueue(t, s, f, i)
  BY <1>1 DEF InQueue
<1>7. \A t, s, f : InHand(t, s, f)' <=> ~ (s = r /\ f = e) /\ InHand(t, s, f)
  BY <1>3 DEF InHand
<1>8. \A t, f : InPool(t, f)' <=> InPool(t, f) \/ (f = e /\ t = h /\ Valid(h, e))
  BY <1>4 DEF InPool
<1>9. QED
  BY <1>1, <1>5, <1>6, <1>7, <1>8

(* A block takes a transaction, and what conflicts with it, out of the     *)
(* pools.                                                                  *)
LEMMA CommitMoves ==
  ASSUME NEW e \in Endpoint, Commit(e)
  PROVE  \E t :
           /\ InPool(t, e)
           /\ spent' = spent \cup Range(t.inputs)
           /\ feed' = feed \o t.outputs
           /\ fees' = fees + EstimateFee(Len(t.outputs))
           /\ UNCHANGED <<mainVars, metrics, emitterVars, monitorVars, faultVars>>
           /\ \A u, r, f :
                /\ \A i : InQueue(u, r, f, i)' <=> InQueue(u, r, f, i)
                /\ InHand(u, r, f)' <=> InHand(u, r, f)
                /\ InPool(u, f)' <=> /\ InPool(u, f)
                                     /\ Range(u.inputs) \cap Range(t.inputs) = {}
<1>1. PICK t \in pool[e] :
        /\ spent' = spent \cup Range(t.inputs)
        /\ feed' = feed \o t.outputs
        /\ pool' = [f \in Endpoint |->
                      {u \in pool[f] : Range(u.inputs) \cap Range(t.inputs) = {}}]
        /\ fees' = fees + EstimateFee(Len(t.outputs))
        /\ UNCHANGED <<mainVars, metrics, emitterVars, monitorVars, faultVars>>
  BY DEF Commit
<1>2. \A u, f : InPool(u, f)' <=> /\ InPool(u, f)
                                  /\ Range(u.inputs) \cap Range(t.inputs) = {}
  BY <1>1 DEF InPool
<1>3. \A u, r, f : /\ \A i : InQueue(u, r, f, i)' <=> InQueue(u, r, f, i)
                   /\ InHand(u, r, f)' <=> InHand(u, r, f)
  BY <1>1 DEF InQueue, InHand, emitterVars
<1>4. QED
  BY <1>1, <1>2, <1>3 DEF InPool

(* A transaction that is lost was in the hand of an emitter or in a pool.  *)
LEMMA LostMoves ==
  ASSUME TypeOK, NEW r \in Run, NEW e \in Endpoint, LostInTransit(r, e) \/ LostByNode(e)
  PROVE  /\ UNCHANGED <<mainVars, metrics, monitorVars, feed, spent, fees, rolledBack>>
         /\ \E t :
              /\ lost' = lost \cup Range(t.inputs)
              /\ \A u, s, f :
                   /\ \A i : InQueue(u, s, f, i)' <=> InQueue(u, s, f, i)
                   /\ InHand(u, s, f)' => InHand(u, s, f)
                   /\ InHand(u, s, f) => InHand(u, s, f)' \/ u = t
                   /\ InPool(u, f)' => InPool(u, f)
                   /\ InPool(u, f) => InPool(u, f)' \/ u = t
<1>1. CASE LostInTransit(r, e)
  <2> DEFINE t == hand[r][e][1]
  <2>1. /\ hand[r][e] # <<>> /\ lost' = lost \cup Range(t.inputs)
        /\ hand' = [hand EXCEPT ![r][e] = <<>>]
        /\ UNCHANGED <<mainVars, metrics, queue, monitorVars, nodeVars, rolledBack>>
    BY <1>1 DEF LostInTransit
  <2>2. /\ hand'[r][e] = <<>>
        /\ \A s \in Run, f \in Endpoint : ~ (s = r /\ f = e) => hand'[s][f] = hand[s][f]
    BY <2>1 DEF TypeOK
  <2>3. \A u, s, f : /\ InHand(u, s, f)' => InHand(u, s, f)
                     /\ InHand(u, s, f) => InHand(u, s, f)' \/ u = t
    BY <2>2 DEF InHand
  <2>4. \A u, s, f, i : InQueue(u, s, f, i)' <=> InQueue(u, s, f, i)
    BY <2>1 DEF InQueue
  <2>5. \A u, f : InPool(u, f)' <=> InPool(u, f)
    BY <2>1 DEF InPool, nodeVars
  <2>6. QED
    BY <2>1, <2>3, <2>4, <2>5 DEF nodeVars
<1>2. CASE LostByNode(e)
  <2>1. PICK t \in pool[e] :
          /\ lost' = lost \cup Range(t.inputs)
          /\ pool' = [pool EXCEPT ![e] = pool[e] \ {t}]
          /\ UNCHANGED <<mainVars, metrics, emitterVars, monitorVars, feed, spent, fees,
                         rolledBack>>
    BY <1>2 DEF LostByNode
  <2>2. /\ pool'[e] = pool[e] \ {t}
        /\ \A f \in Endpoint : f # e => pool'[f] = pool[f]
    BY <2>1 DEF TypeOK
  <2>3. \A u, f : /\ InPool(u, f)' => InPool(u, f)
                  /\ InPool(u, f) => InPool(u, f)' \/ u = t
    BY <2>2 DEF InPool
  <2>4. \A u, s, f : /\ \A i : InQueue(u, s, f, i)' <=> InQueue(u, s, f, i)
                     /\ InHand(u, s, f)' <=> InHand(u, s, f)
    BY <2>1 DEF InQueue, InHand, emitterVars
  <2>5. QED
    BY <2>1, <2>3, <2>4
<1>3. QED
  BY <1>1, <1>2

(* A step that leaves the queues, the hands and the pools alone.           *)
LEMMA NothingMoves ==
  ASSUME UNCHANGED <<queue, hand, pool>>
  PROVE  \A t, r, e :
           /\ \A i : InQueue(t, r, e, i)' <=> InQueue(t, r, e, i)
           /\ InHand(t, r, e)' <=> InHand(t, r, e)
           /\ InPool(t, e)' <=> InPool(t, e)
BY DEF InQueue, InHand, InPool

-----------------------------------------------------------------------------
(* The second layer: capacity.                                             *)

(* A transaction pays its outputs and its fee out of its inputs.           *)
Balanced(t) ==
  /\ SumFunction(t.outputs) + EstimateFee(Len(t.outputs)) = Capacity(t.inputs)
  /\ \A i \in 1..Len(t.outputs) : t.outputs[i] >= MinCell

(* What a pool holds spends live cells, each once.                         *)
Funded(t) == IsInjective(t.inputs) /\ Range(t.inputs) \subseteq Live

Balance ==
  /\ \A t : Held(t) => Balanced(t)
  /\ \A t, e : InPool(t, e) => Funded(t)
  /\ Len(InitialFeed) <= Len(feed)
  /\ Viable
  /\ CapacityConserved

(* The sum of one, two or three terms.                                     *)
LEMMA SumOfFew ==
  ASSUME NEW f, NEW n \in OutputsCount, \A i \in 1..n : f[i] \in Int
  PROVE  SumFunctionOnSet(f, 1..n) = IF n = 1 THEN f[1]
                                     ELSE IF n = 2 THEN f[1] + f[2]
                                     ELSE f[1] + f[2] + f[3]
<1>1. SumFunctionOnSet(f, {}) = 0 /\ IsFiniteSet({})
  BY SumOfNothing, FS_EmptySet
<1>2. /\ f[1] \in Int
      /\ n # 1 => f[2] \in Int
      /\ n = 3 => f[3] \in Int
  BY DEF OutputsCount
<1>3. /\ {} \cup {1} = 1..1 /\ (1..1) \cup {2} = 1..2 /\ (1..2) \cup {3} = 1..3
      /\ IsFiniteSet(1..1) /\ IsFiniteSet(1..2)
  <2>1. {} \cup {1} = 1..1 /\ (1..1) \cup {2} = 1..2 /\ (1..2) \cup {3} = 1..3
    OBVIOUS
  <2>2. \A k \in Int : IsFiniteSet(1..k)
    BY FS_Interval
  <2>3. 1 \in Int /\ 2 \in Int
    OBVIOUS
  <2>4. IsFiniteSet(1..1) /\ IsFiniteSet(1..2)
    BY <2>2, <2>3, Zenon
  <2>5. QED
    BY <2>1, <2>4
<1>4. SumFunctionOnSet(f, 1..1) = f[1]
  <2>1. SumFunctionOnSet(f, {} \cup {1}) = SumFunctionOnSet(f, {}) + f[1]
    BY <1>1, <1>2, SumOfOneMore
  <2>2. QED
    BY <1>1, <1>2, <1>3, <2>1
<1>5. ASSUME n # 1
      PROVE  SumFunctionOnSet(f, 1..2) = f[1] + f[2]
  <2>1. 2 \notin 1..1 /\ \A y \in (1..1) \cup {2} : f[y] \in Int
    BY <1>2, <1>5
  <2>2. SumFunctionOnSet(f, (1..1) \cup {2}) = SumFunctionOnSet(f, 1..1) + f[2]
    BY <1>3, <2>1, SumOfOneMore
  <2>3. QED
    BY <1>3, <1>4, <2>2
<1>6. ASSUME n = 3
      PROVE  SumFunctionOnSet(f, 1..3) = f[1] + f[2] + f[3]
  <2>1. 3 \notin 1..2 /\ \A y \in (1..2) \cup {3} : f[y] \in Int
    BY <1>2, <1>6
  <2>2. SumFunctionOnSet(f, (1..2) \cup {3}) = SumFunctionOnSet(f, 1..2) + f[3]
    BY <1>3, <2>1, SumOfOneMore
  <2>3. SumFunctionOnSet(f, 1..2) = f[1] + f[2]
    BY <1>5, <1>6
  <2>4. SumFunctionOnSet(f, 1..3) = SumFunctionOnSet(f, 1..2) + f[3]
    BY <1>3, <2>2
  <2>5. QED
    BY <2>3, <2>4
<1>7. n = 1 \/ n = 2 \/ n = 3
  BY DEF OutputsCount
<1>8. QED
  BY <1>4, <1>5, <1>6, <1>7

(* The transaction that bench builds is balanced.                          *)
LEMMA BuiltIsBalanced ==
  ASSUME TypeOK, NEW in \in Seq(Cell), NEW n \in OutputsCount,
         Capacity(in) >= MinInput(n)
  PROVE  Balanced(Transaction(in, n))
<1> DEFINE t == Transaction(in, n)
           total == Capacity(in)
<1>1. total \in Nat
  BY CapacityType DEF TypeOK
<1>2. /\ t.inputs = in /\ Len(t.outputs) = n /\ t.outputs \in Seq(Nat)
      /\ \A i \in 1..n : /\ t.outputs[i] = OutputCapacity(total, n, i - 1)
                         /\ t.outputs[i] \in Nat /\ t.outputs[i] >= MinCell
  BY BuiltTransaction DEF Tx
<1> HIDE DEF t
<1>3. PICK out \in Seq(Nat) : out = t.outputs
  BY <1>2
<1>4. SumFunction(out) = SumFunctionOnSet(out, 1..n)
  BY <1>2, <1>3 DEF SumFunction
<1>5. SumFunctionOnSet(out, 1..n) = IF n = 1 THEN out[1]
                                    ELSE IF n = 2 THEN out[1] + out[2]
                                    ELSE out[1] + out[2] + out[3]
  <2>1. \A i \in 1..n : out[i] \in Int
    BY <1>2, <1>3
  <2>2. QED
    BY <2>1, SumOfFew
<1>6. SumFunction(out) = total - EstimateFee(n)
  <2>1. \A i \in 1..n : out[i] = OutputCapacity(total, n, i - 1)
    BY <1>2, <1>3
  <2> HIDE DEF total
  <2>2. CASE n = 1
    <3>1. out[1] = OutputCapacity(total, 1, 0)
      BY <2>1, <2>2
    <3>2. QED
      BY <1>1, <1>4, <1>5, <2>2, <3>1, OutputsAddUp
  <2>3. CASE n = 2
    <3>1. out[1] = OutputCapacity(total, 2, 0) /\ out[2] = OutputCapacity(total, 2, 1)
      BY <2>1, <2>3
    <3>2. QED
      BY <1>1, <1>4, <1>5, <2>3, <3>1, OutputsAddUp DEF total
  <2>4. CASE n = 3
    <3>1. /\ out[1] = OutputCapacity(total, 3, 0) /\ out[2] = OutputCapacity(total, 3, 1)
          /\ out[3] = OutputCapacity(total, 3, 2)
      BY <2>1, <2>4
    <3>2. QED
      BY <1>1, <1>4, <1>5, <2>4, <3>1, OutputsAddUp DEF total
  <2>5. QED
    BY <2>2, <2>3, <2>4 DEF OutputsCount
<1>7. EstimateFee(n) \in Nat
  BY FeeType DEF OutputsCount
<1>8. SumFunction(t.outputs) + EstimateFee(Len(t.outputs)) = Capacity(t.inputs)
  BY <1>1, <1>2, <1>3, <1>6, <1>7
<1>9. QED
  BY <1>2, <1>8 DEF Balanced, t

(* An empty transaction is balanced.                                       *)
LEMMA NothingIsBalanced == Balanced(NoTx)
<1>1. SumFunction(<<>>) = 0
  <2>1. DOMAIN <<>> = {}
    BY EmptySeq
  <2>2. QED
    BY <2>1, SumOfNothing DEF SumFunction
<1>2. Capacity(<<>>) = 0
  <2>1. DOMAIN <<>> = {}
    BY EmptySeq
  <2>2. DOMAIN [i \in DOMAIN <<>> |-> feed[<<>>[i]]] = {}
    BY <2>1
  <2>3. QED
    BY <2>2, SumOfNothing DEF Capacity, SumFunction
<1>3. Len(<<>>) = 0 /\ EstimateFee(0) = 0
  BY EmptySeq, TransferAssumption DEF EstimateFee
<1>4. QED
  BY <1>1, <1>2, <1>3 DEF Balanced, NoTx

(* Cells keep their capacity.                                              *)
LEMMA CapacityKept ==
  ASSUME feed \in Seq(Nat), NEW s \in Seq(Cell), \A c \in Cell : feed'[c] = feed[c]
  PROVE  Capacity(s)' = Capacity(s)
<1>1. \A i \in DOMAIN s : s[i] \in Cell
  BY LenProperties, ElementOfSeq
<1>2. [i \in DOMAIN s |-> feed'[s[i]]] = [i \in DOMAIN s |-> feed[s[i]]]
  BY <1>1
<1>3. QED
  BY <1>2 DEF Capacity

(* The capacity of inputs that are different is that of a set of cells.    *)
LEMMA CapacityIsTotal ==
  ASSUME feed \in Seq(Nat), NEW s \in Seq(Cell), IsInjective(s)
  PROVE  Total(Range(s)) = Capacity(s)
<1> DEFINE f == [i \in DOMAIN s |-> feed[s[i]]]
<1>1. IsFiniteSet(DOMAIN s)
  BY LenProperties, FS_Interval
<1>2. /\ \A i \in DOMAIN s : feed[s[i]] \in Int
      /\ \A i, j \in DOMAIN s : s[i] = s[j] => i = j
  BY LenProperties, ElementOfSeq DEF Cell, IsInjective
<1>3. SumFunctionOnSet(feed, {s[i] : i \in DOMAIN s}) = SumFunctionOnSet(f, DOMAIN s)
  <2> DEFINE S == DOMAIN s
  <2>1. IsFiniteSet(S)
    BY <1>1
  <2>2. \A x, y \in S : s[x] = s[y] => x = y
    BY <1>2
  <2>3. \A x \in S : feed[s[x]] \in Int
    BY <1>2
  <2> HIDE DEF S
  <2>4. \A x \in S : f[x] = feed[s[x]]
    BY DEF S
  <2>5. PICK T : T = {s[x] : x \in S}
    OBVIOUS
  <2> HIDE DEF f
  <2>6. SumFunctionOnSet(feed, T) = SumFunctionOnSet(f, S)
    BY <2>1, <2>2, <2>3, <2>4, <2>5, SumOfImage
  <2>7. QED
    BY <2>5, <2>6 DEF S
<1>4. QED
  BY <1>3 DEF Total, Range, Capacity, SumFunction

LEMMA InitBalance == Init => Balance
<1> SUFFICES ASSUME Init
             PROVE  Balance
  OBVIOUS
<1>1. tx = NoTx /\ \A t, r, e : /\ \A i : ~ InQueue(t, r, e, i)
                                /\ ~ InHand(t, r, e) /\ ~ InPool(t, e)
  <2>1. Len(<<>>) = 0
    BY EmptySeq
  <2>2. QED
    BY <2>1 DEF Init, InQueue, InHand, InPool
<1>2. \A t : Held(t) => Balanced(t)
  BY <1>1, NothingIsBalanced DEF Held
<1>3. feed = InitialFeed /\ spent = {} /\ fees = 0
  BY DEF Init
<1>4. Viable /\ Len(feed) \in Nat
  BY <1>3, BenchAssumption DEF Viable, Cell
<1>5. CapacityConserved
  <2>1. Live = 1..Len(InitialFeed)
    BY <1>3 DEF Live, Cell
  <2>2. Total(1..Len(InitialFeed)) \in Nat
    <3> DEFINE S == 1..Len(InitialFeed)
    <3>1. IsFiniteSet(S)
      BY <1>3, <1>4, FS_Interval
    <3>2. \A x \in S : feed[x] \in Nat
      BY <1>3, BenchAssumption, ElementOfSeq
    <3> HIDE DEF S
    <3>3. SumFunctionOnSet(feed, S) \in Nat
      BY <3>1, <3>2, SumType
    <3>4. QED
      BY <3>3 DEF Total, S
  <2>3. QED
    BY <1>3, <2>1, <2>2 DEF CapacityConserved
<1>6. \A t, e : ~ InPool(t, e)
  BY <1>1
<1>7. Len(InitialFeed) <= Len(feed)
  BY <1>3, <1>4
<1>8. QED
  BY <1>2, <1>4, <1>5, <1>6, <1>7 DEF Balance

(* A step that leaves the chain alone, and brings only balanced            *)
(* transactions.                                                           *)
LEMMA BalanceKept ==
  ASSUME TypeOK, Balance, UNCHANGED <<feed, spent, fees>>,
         \A t : Held(t)' => Held(t) \/ Balanced(t),
         \A t, e : InPool(t, e)' => InPool(t, e) \/ Funded(t)
  PROVE  Balance'
<1>1. Cell' = Cell /\ Live' = Live
  BY DEF Cell, Live
<1>2. \A t : (Balanced(t)' <=> Balanced(t)) /\ (Funded(t)' <=> Funded(t))
  BY <1>1 DEF Balanced, Funded, Capacity
<1>3. Viable' /\ CapacityConserved'
  BY <1>1 DEF Balance, Viable, CapacityConserved, Total
<1>4. QED
  BY <1>2, <1>3 DEF Balance

(* A block takes the inputs of a transaction and gives its outputs.        *)
LEMMA CommitBalance ==
  ASSUME TypeOK, Balance, NEW e \in Endpoint, Commit(e)
  PROVE  Balance'
<1>1. PICK t :
        /\ InPool(t, e)
        /\ spent' = spent \cup Range(t.inputs)
        /\ feed' = feed \o t.outputs
        /\ fees' = fees + EstimateFee(Len(t.outputs))
        /\ UNCHANGED tx
        /\ \A u, r, f :
             /\ \A i : InQueue(u, r, f, i)' <=> InQueue(u, r, f, i)
             /\ InHand(u, r, f)' <=> InHand(u, r, f)
             /\ InPool(u, f)' <=> /\ InPool(u, f)
                                  /\ Range(u.inputs) \cap Range(t.inputs) = {}
  BY CommitMoves DEF mainVars
<1>2. Held(t) /\ t \in Tx /\ Balanced(t) /\ Funded(t)
  BY <1>1, HeldIsUnsettled DEF Held, Balance
<1>3. PICK in \in Seq(Cell), out \in Seq(Nat) : in = t.inputs /\ out = t.outputs
  BY <1>2 DEF Tx
<1> DEFINE n == Len(feed)
           new == (n + 1)..(n + Len(out))
           rest == Live \ Range(in)
<1>4. /\ n \in Nat /\ Len(out) \in Nat /\ feed \in Seq(Nat) /\ fees \in Nat
      /\ Range(in) \subseteq Live /\ IsInjective(in)
      /\ Len(InitialFeed) \in Nat /\ Len(InitialFeed) <= n
  BY <1>2, <1>3, BenchAssumption, LenProperties DEF TypeOK, Funded, Balance
<1>5. /\ Len(feed') = n + Len(out)
      /\ \A c \in Cell : feed'[c] = feed[c]
      /\ \A i \in 1..Len(out) : feed'[n + i] = out[i]
  <2>1. feed' = feed \o out
    BY <1>1, <1>3
  <2>2. QED
    BY <1>4, <2>1, ConcatProperties DEF Cell
<1>6. /\ Cell' = Cell \cup new /\ Cell \cap new = {}
      /\ Live' = rest \cup new
  <2>1. Cell' = Cell \cup new /\ Cell \cap new = {}
    BY <1>4, <1>5 DEF Cell
  <2>2. spent' = spent \cup Range(in) /\ spent \subseteq Cell
    BY <1>1, <1>3 DEF TypeOK
  <2>3. QED
    BY <1>4, <2>1, <2>2 DEF Live
<1>7. /\ IsFiniteSet(Cell) /\ IsFiniteSet(new) /\ IsFiniteSet(rest)
      /\ IsFiniteSet(Range(in))
      /\ \A c \in Cell : feed[c] \in Nat /\ feed'[c] \in Nat
      /\ \A c \in new : feed'[c] \in Nat
  <2>1. IsFiniteSet(Cell) /\ IsFiniteSet(new)
    BY <1>4, FS_Interval DEF Cell
  <2>2. rest \subseteq Cell /\ Range(in) \subseteq Cell
    BY <1>4 DEF Live
  <2>3. \A c \in Cell : feed[c] \in Nat /\ feed'[c] \in Nat
    BY <1>4, <1>5, ElementOfSeq DEF Cell
  <2>4. ASSUME NEW c \in new
        PROVE  feed'[c] \in Nat
    <3>1. c - n \in 1..Len(out) /\ c = n + (c - n)
      BY <1>4
    <3>2. QED
      BY <1>5, <3>1, ElementOfSeq
  <2> HIDE DEF new, rest
  <2>5. QED
    BY <2>1, <2>2, <2>3, <2>4, FS_Subset
<1>8. SumFunctionOnSet(feed', new) = SumFunction(out)
  <2> DEFINE S == 1..Len(out)
             h == [i \in S |-> n + i]
  <2>1. IsFiniteSet(S) /\ S = DOMAIN out
    BY <1>4, FS_Interval
  <2>2. new = {h[i] : i \in S}
    <3>1. \A i \in S : n + i \in new
      BY <1>4
    <3>2. \A c \in new : c - n \in S /\ c = n + (c - n)
      BY <1>4
    <3> HIDE DEF new, S
    <3>3. new = {n + i : i \in S}
      BY <3>1, <3>2
    <3>4. QED
      BY <3>3
  <2>3. /\ \A i, j \in S : h[i] = h[j] => i = j
        /\ \A i \in S : out[i] = feed'[h[i]] /\ out[i] \in Int
    BY <1>4, <1>5, ElementOfSeq
  <2>4. PICK g : g = feed'
    OBVIOUS
  <2>5. \A i \in S : out[i] = g[h[i]] /\ out[i] \in Int
    BY <2>3, <2>4
  <2> HIDE DEF S, h, new
  <2>6. PICK D, k : D = S /\ k = h
    OBVIOUS
  <2>7. PICK T : T = {k[i] : i \in D}
    OBVIOUS
  <2>8. SumFunctionOnSet(g, T) = SumFunctionOnSet(out, D)
    <3>1. IsFiniteSet(D)
      BY <2>1, <2>6
    <3>2. \A x, y \in D : k[x] = k[y] => x = y
      BY <2>3, <2>6
    <3>3. \A x \in D : out[x] = g[k[x]] /\ out[x] \in Int
      BY <2>5, <2>6
    <3>4. QED
      BY <3>1, <3>2, <3>3, <2>7, SumOfImage, SMTT(90)
  <2>9. QED
    BY <2>1, <2>2, <2>4, <2>6, <2>7, <2>8 DEF SumFunction
<1>9. /\ Total(Live) = SumFunctionOnSet(feed, rest) + Capacity(in)
      /\ SumFunctionOnSet(feed, rest) \in Nat
  <2>1. Live = rest \cup Range(in) /\ rest \cap Range(in) = {}
    BY <1>4
  <2>2. \A c \in rest \cup Range(in) : feed[c] \in Int
    BY <1>4, <1>7 DEF Live
  <2> HIDE DEF rest
  <2>3. SumFunctionOnSet(feed, rest \cup Range(in))
          = SumFunctionOnSet(feed, rest) + SumFunctionOnSet(feed, Range(in))
    BY <1>7, <2>1, <2>2, SumOfUnion
  <2>4. SumFunctionOnSet(feed, Range(in)) = Capacity(in)
    BY <1>4, CapacityIsTotal DEF Total
  <2>5. \A c \in rest : feed[c] \in Nat
    BY <1>7, <2>1 DEF Live
  <2>6. QED
    BY <1>7, <2>1, <2>3, <2>4, <2>5, SumType DEF Total
<1>10. Total(Live)' = SumFunctionOnSet(feed, rest) + SumFunction(out)
  <2>1. rest \subseteq Cell /\ rest \cap new = {}
    BY <1>6 DEF Live
  <2>2. PICK g : g = feed'
    OBVIOUS
  <2> HIDE DEF rest, new
  <2>3. \A c \in rest \cup new : g[c] \in Int
    BY <1>7, <2>1, <2>2
  <2>4. SumFunctionOnSet(g, rest \cup new)
          = SumFunctionOnSet(g, rest) + SumFunctionOnSet(g, new)
    BY <1>7, <2>1, <2>3, SumOfUnion
  <2>5. SumFunctionOnSet(g, rest) = SumFunctionOnSet(feed, rest)
    <3>1. \A c \in rest : g[c] = feed[c]
      BY <1>5, <2>1, <2>2
    <3>2. QED
      BY <1>7, <3>1, SumOfSame
  <2>6. QED
    BY <1>6, <1>8, <2>2, <2>4, <2>5 DEF Total
<1>11. Total(1..Len(InitialFeed))' = Total(1..Len(InitialFeed))
  <2> DEFINE S == 1..Len(InitialFeed)
  <2>1. S \subseteq Cell
    BY <1>4 DEF Cell
  <2>2. PICK g : g = feed'
    OBVIOUS
  <2> HIDE DEF S
  <2>3. IsFiniteSet(S) /\ \A c \in S : g[c] = feed[c]
    BY <1>5, <1>7, <2>1, <2>2, FS_Subset
  <2>4. SumFunctionOnSet(g, S) = SumFunctionOnSet(feed, S)
    BY <2>3, SumOfSame
  <2>5. QED
    BY <2>2, <2>4 DEF S, Total
<1>12. CapacityConserved'
  <2>1. SumFunction(out) + EstimateFee(Len(out)) = Capacity(in)
    BY <1>2, <1>3 DEF Balanced
  <2>2. fees' = fees + EstimateFee(Len(out)) /\ EstimateFee(Len(out)) \in Nat
    BY <1>1, <1>3, <1>4, FeeType
  <2>3. SumFunction(out) \in Nat
    <3>1. DOMAIN out = 1..Len(out)
      BY LenProperties
    <3>2. IsFiniteSet(DOMAIN out)
      BY <1>4, <3>1, FS_Interval
    <3>3. \A i \in DOMAIN out : out[i] \in Nat
      BY <3>1, ElementOfSeq
    <3>4. SumFunctionOnSet(out, DOMAIN out) \in Nat
      BY <3>2, <3>3, SumType
    <3>5. QED
      BY <3>4 DEF SumFunction
  <2>4. Total(Live) + fees = Total(1..Len(InitialFeed))
    BY DEF Balance, CapacityConserved
  <2>5. Total(Live)' + fees' = Total(Live) + fees
    BY <1>4, <1>9, <1>10, <2>1, <2>2, <2>3
  <2>6. QED
    BY <1>11, <2>4, <2>5 DEF CapacityConserved
<1>13. Viable'
  <2>1. \A c \in Cell : feed'[c] >= MinCell
    BY <1>5 DEF Balance, Viable
  <2>2. ASSUME NEW c \in new
        PROVE  feed'[c] >= MinCell
    <3>1. c - n \in 1..Len(out) /\ c = n + (c - n)
      BY <1>4
    <3>2. QED
      BY <1>2, <1>3, <1>5, <3>1 DEF Balanced
  <2>3. QED
    BY <1>6, <2>1, <2>2 DEF Viable
<1>14. \A u : Held(u)' => Held(u)
  BY <1>1 DEF Held
<1>15. ASSUME NEW u, Held(u)
       PROVE  Balanced(u)'
  <2>1. u \in Tx /\ Balanced(u)
    BY <1>15, HeldIsUnsettled DEF Balance
  <2>2. PICK s \in Seq(Cell) : s = u.inputs
    BY <2>1 DEF Tx
  <2>3. Capacity(s)' = Capacity(s)
    BY <1>4, <1>5, CapacityKept
  <2>4. QED
    BY <2>1, <2>2, <2>3 DEF Balanced
<1>16. ASSUME NEW u, NEW f, InPool(u, f)'
       PROVE  Funded(u)'
  <2>1. InPool(u, f) /\ Range(u.inputs) \cap Range(in) = {}
    BY <1>1, <1>3, <1>16
  <2>2. IsInjective(u.inputs) /\ Range(u.inputs) \subseteq Live
    BY <2>1 DEF Balance, Funded
  <2>3. Range(u.inputs) \subseteq Live'
    BY <1>6, <2>1, <2>2
  <2>4. QED
    BY <2>2, <2>3 DEF Funded
<1>17. Len(InitialFeed) <= Len(feed')
  BY <1>4, <1>5
<1>18. QED
  BY <1>12, <1>13, <1>14, <1>15, <1>16, <1>17 DEF Balance

(* What bench builds from the next cell.                                   *)
LEMMA RecvBuilds ==
  ASSUME TypeOK, Recv
  PROVE  /\ chan # <<>> /\ chan' = Tail(chan) /\ pc = "recv" /\ N \in OutputsCount
         /\ \E in \in Seq(Cell) :
              /\ in = Append(inputs, Head(chan))
              /\ \/ inputs' = in /\ UNCHANGED <<pc, tx>>
                 \/ /\ Capacity(in) >= MinInput(N)
                    /\ inputs' = <<>> /\ pc' = "emit"
                    /\ tx' = Transaction(in, N) /\ tx'.inputs = in
                    /\ Balanced(tx')
<1>1. /\ chan # <<>> /\ chan' = Tail(chan) /\ pc = "recv"
      /\ LET in == Append(inputs, Head(chan))
         IN  IF Capacity(in) < MinInput(N)
             THEN inputs' = in /\ UNCHANGED <<pc, tx>>
             ELSE inputs' = <<>> /\ tx' = Transaction(in, N) /\ pc' = "emit"
  BY DEF Recv, SplitOff
<1>2. PICK in \in Seq(Cell) : in = Append(inputs, Head(chan))
  BY <1>1, HeadTailProperties, AppendProperties DEF TypeOK
<1>3. N \in OutputsCount /\ MinInput(N) \in Nat /\ Capacity(in) \in Nat
  BY <1>1, Settings, MinInputType, CapacityType DEF TypeOK
<1>4. CASE Capacity(in) < MinInput(N)
  BY <1>1, <1>2, <1>3, <1>4
<1>5. CASE ~ (Capacity(in) < MinInput(N))
  <2>1. Capacity(in) >= MinInput(N)
    BY <1>3, <1>5
  <2>2. PICK t : t = Transaction(in, N)
    OBVIOUS
  <2>3. t.inputs = in /\ Balanced(t)
    BY <1>3, <2>1, <2>2, BuiltTransaction, BuiltIsBalanced
  <2>4. inputs' = <<>> /\ tx' = t /\ pc' = "emit"
    BY <1>1, <1>2, <1>5, <2>2
  <2>5. Balanced(tx') /\ tx'.inputs = in
    BY <2>3, <2>4 DEF Balanced, Capacity
  <2>6. QED
    BY <1>1, <1>2, <1>3, <2>1, <2>2, <2>4, <2>5
<1>6. QED
  BY <1>4, <1>5

LEMMA MainBalance == TypeOK /\ Balance /\ Main => Balance'
<1> SUFFICES ASSUME TypeOK, Balance, Main
             PROVE  Balance'
  OBVIOUS
<1>1. UNCHANGED <<feed, spent, fees, pool>> /\ UNCHANGED nodeVars
  BY DEF Main, nodeVars
<1>2. \A t, e : InPool(t, e)' => InPool(t, e)
  BY <1>1 DEF InPool
<1>3. CASE Wait \/ Start \/ Notify \/ Disconnected
  <2>1. UNCHANGED <<tx, queue, hand>>
    BY <1>3 DEF Wait, Start, Notify, Disconnected, emitterVars
  <2>2. \A t : Held(t)' => Held(t)
    BY <1>1, <2>1, NothingMoves DEF Held
  <2>3. QED
    BY <1>1, <1>2, <2>2, BalanceKept
<1>4. CASE Recv
  <2>1. UNCHANGED <<queue, hand>>
    BY <1>4 DEF Recv, emitterVars
  <2>2. tx' = tx \/ Balanced(tx')
    BY <1>4, RecvBuilds
  <2>3. \A t : Held(t)' => Held(t) \/ t = tx'
    BY <1>1, <2>1, NothingMoves DEF Held
  <2>4. \A t : Held(t)' => Held(t) \/ Balanced(t)
    BY <2>2, <2>3 DEF Held
  <2>5. QED
    BY <1>1, <1>2, <2>4, BalanceKept
<1>5. CASE TryEmit
  <2>1. CASE UNCHANGED <<queue, hand, pool, tx>>
    <3>1. \A t : Held(t)' => Held(t)
      BY <2>1, NothingMoves DEF Held
    <3>2. QED
      BY <1>1, <1>2, <3>1, BalanceKept
  <2>2. CASE ~ UNCHANGED <<queue, hand, pool, tx>>
    <3>1. PICK r \in Run, e \in Endpoint : \A t, s, f :
            /\ \A i : InQueue(t, s, f, i)' <=>
                 \/ InQueue(t, s, f, i)
                 \/ s = r /\ f = e /\ i = Len(queue[r][e]) + 1 /\ t = tx
            /\ InHand(t, s, f)' <=> InHand(t, s, f)
            /\ InPool(t, f)' <=> InPool(t, f)
      BY <1>1, <1>5, <2>2, TryEmitMoves
    <3>2. tx' = NoTx
      BY <1>1, <1>5, <2>2, TryEmitMoves
    <3>3. ASSUME NEW t, Held(t)'
          PROVE  Held(t) \/ t = NoTx
      <4>1. \/ t = NoTx
            \/ \E s, f, i : InQueue(t, s, f, i)'
            \/ \E s, f : InHand(t, s, f)'
            \/ \E f : InPool(t, f)'
        BY <3>2, <3>3 DEF Held
      <4>2. QED
        BY <3>1, <4>1 DEF Held
    <3>4. QED
      BY <1>1, <1>2, <3>3, NothingIsBalanced, BalanceKept
  <2>3. QED
    BY <2>1, <2>2
<1>6. QED
  BY <1>3, <1>4, <1>5 DEF Main

LEMMA EmitterBalance ==
  ASSUME TypeOK, Balance, NEW r \in Run, NEW e \in Endpoint, Emitter(r, e)
  PROVE  Balance'
<1>1. UNCHANGED <<feed, spent, fees, tx>>
  BY DEF Emitter, mainVars
<1>2. CASE Take(r, e)
  <2>1. \A t, s, f :
          /\ \A i : InQueue(t, s, f, i)' <=>
               IF s = r /\ f = e THEN i \in Nat \ {0} /\ InQueue(t, r, e, i + 1)
                                 ELSE InQueue(t, s, f, i)
          /\ InHand(t, s, f)' <=>
               IF s = r /\ f = e THEN InQueue(t, r, e, 1) ELSE InHand(t, s, f)
          /\ InPool(t, f)' <=> InPool(t, f)
    BY <1>2, TakeMoves
  <2>2. \A t, s, f : /\ \A i : InQueue(t, s, f, i)' => \E j : InQueue(t, s, f, j)
                     /\ InHand(t, s, f)' => InHand(t, s, f) \/ InQueue(t, s, f, 1)
    BY <2>1
  <2>3. \A t, f : InPool(t, f)' => InPool(t, f)
    BY <2>1
  <2>4. ASSUME NEW t, Held(t)'
        PROVE  Held(t)
    <3>1. \/ t = tx
          \/ \E s, f, i : InQueue(t, s, f, i)'
          \/ \E s, f : InHand(t, s, f)'
          \/ \E f : InPool(t, f)'
      BY <1>1, <2>4 DEF Held
    <3>2. QED
      BY <2>2, <2>3, <3>1 DEF Held
  <2>5. QED
    BY <1>1, <2>3, <2>4, BalanceKept
<1>3. CASE Offer(r, e)
  <2>1. PICK h :
          /\ InHand(h, r, e) /\ ~ Again(h, e)
          /\ \A t, s, f :
               /\ \A i : InQueue(t, s, f, i)' <=> InQueue(t, s, f, i)
               /\ InHand(t, s, f)' <=> ~ (s = r /\ f = e) /\ InHand(t, s, f)
               /\ InPool(t, f)' <=> \/ InPool(t, f)
                                    \/ f = e /\ t = h /\ Valid(h, e)
    BY <1>3, OfferMoves
  <2>2. \A t, f : InPool(t, f)' => InPool(t, f) \/ (t = h /\ Valid(h, e))
    BY <2>1
  <2>3. Valid(h, e) => Funded(h)
    BY DEF Valid, Funded
  <2>4. ASSUME NEW t, Held(t)'
        PROVE  Held(t)
    <3>1. \/ t = tx
          \/ \E s, f, i : InQueue(t, s, f, i)'
          \/ \E s, f : InHand(t, s, f)'
          \/ \E f : InPool(t, f)'
      BY <1>1, <2>4 DEF Held
    <3>2. \A s, f : /\ \A i : InQueue(t, s, f, i)' => InQueue(t, s, f, i)
                    /\ InHand(t, s, f)' => InHand(t, s, f)
      BY <2>1
    <3>3. \A f : InPool(t, f)' => InPool(t, f) \/ InHand(t, r, e)
      BY <2>1
    <3>4. QED
      BY <3>1, <3>2, <3>3 DEF Held
  <2>5. QED
    BY <1>1, <2>2, <2>3, <2>4, BalanceKept
<1>4. QED
  BY <1>2, <1>3 DEF Emitter

LEMMA FaultBalance == TypeOK /\ Balance /\ Fault => Balance'
<1> SUFFICES ASSUME TypeOK, Balance, Fault
             PROVE  Balance'
  OBVIOUS
<1>1. CASE RollBack \/ MonitorPanics \/ MeasurePanics
  <2>1. UNCHANGED <<feed, spent, fees, tx, queue, hand, pool>>
    BY <1>1 DEF RollBack, MonitorPanics, MeasurePanics, mainVars, emitterVars, nodeVars
  <2>2. \A t : Held(t)' => Held(t)
    BY <2>1, NothingMoves DEF Held
  <2>3. \A t, e : InPool(t, e)' => InPool(t, e)
    BY <2>1 DEF InPool
  <2>4. QED
    BY <2>1, <2>2, <2>3, BalanceKept
<1>2. ASSUME NEW r \in Run, NEW e \in Endpoint, LostInTransit(r, e) \/ LostByNode(e)
      PROVE  Balance'
  <2>1. UNCHANGED <<mainVars, metrics, monitorVars, feed, spent, fees, rolledBack>>
    BY <1>2, LostMoves
  <2>2. UNCHANGED <<feed, spent, fees, tx>>
    BY <2>1 DEF mainVars
  <2>3. PICK t : \A u, s, f :
          /\ \A i : InQueue(u, s, f, i)' <=> InQueue(u, s, f, i)
          /\ InHand(u, s, f)' => InHand(u, s, f)
          /\ InPool(u, f)' => InPool(u, f)
    BY <1>2, LostMoves
  <2>4. \A u, f : InPool(u, f)' => InPool(u, f)
    BY <2>3
  <2>5. ASSUME NEW u, Held(u)'
        PROVE  Held(u)
    <3>1. \/ u = tx
          \/ \E s, f, i : InQueue(u, s, f, i)'
          \/ \E s, f : InHand(u, s, f)'
          \/ \E f : InPool(u, f)'
      BY <2>2, <2>5 DEF Held
    <3>2. QED
      BY <2>3, <2>4, <3>1 DEF Held
  <2>6. QED
    BY <2>2, <2>4, <2>5, BalanceKept
<1>3. ASSUME NEW e \in Endpoint, LostByNode(e)
      PROVE  Balance'
  <2>1. PICK r : r \in Run
    BY <1>3 DEF LostByNode, Fails, TypeOK
  <2>2. QED
    BY <1>2, <1>3, <2>1
<1>4. QED
  BY <1>1, <1>2, <1>3 DEF Fault

LEMMA NextBalance == TypeOK /\ Balance /\ [Next]_vars => Balance'
<1> SUFFICES ASSUME TypeOK, Balance, [Next]_vars
             PROVE  Balance'
  OBVIOUS
<1>1. CASE UNCHANGED vars \/ Measured \/ Deliver
  <2>1. UNCHANGED <<feed, spent, fees, tx, queue, hand, pool>>
    BY <1>1 DEF vars, Measured, Deliver, mainVars, emitterVars, nodeVars
  <2>2. \A t : Held(t)' => Held(t)
    BY <2>1, NothingMoves DEF Held
  <2>3. \A t, e : InPool(t, e)' => InPool(t, e)
    BY <2>1 DEF InPool
  <2>4. QED
    BY <2>1, <2>2, <2>3, BalanceKept
<1>2. QED
  BY <1>1, MainBalance, EmitterBalance, CommitBalance, FaultBalance DEF Next

(* A cell of the bencher is always large enough to exist on chain: what    *)
(* Recv asks of the inputs leaves enough to each output.                   *)
THEOREM OutputsStayCells == Spec => []Viable
<1>1. Init => TypeOK /\ Balance
  BY InitType, InitBalance
<1>2. TypeOK /\ Balance /\ [Next]_vars => TypeOK' /\ Balance'
  BY NextType, NextBalance
<1>3. Balance => Viable
  BY DEF Balance
<1>4. QED
  BY <1>1, <1>2, <1>3, PTL DEF Spec

(* The live cells and the fees always add up to what the bencher had, also *)
(* after a re-organisation has made the program spend cells twice.         *)
THEOREM CapacityStaysConserved == Spec => []CapacityConserved
<1>1. Init => TypeOK /\ Balance
  BY InitType, InitBalance
<1>2. TypeOK /\ Balance /\ [Next]_vars => TypeOK' /\ Balance'
  BY NextType, NextBalance
<1>3. Balance => CapacityConserved
  BY DEF Balance
<1>4. QED
  BY <1>1, <1>2, <1>3, PTL DEF Spec

-----------------------------------------------------------------------------
(* The third layer                                                         *)

(* Between two benchmarks there are no inputs: split_off leaves none, and  *)
(* bench looks for its metrics only after it has sent a transaction.  So   *)
(* the fresh inputs of the next one leave nothing behind.                  *)
Emptied == pc # "recv" => inputs = <<>>

LEMMA InitEmptied == Init => Emptied
BY DEF Init, Emptied

LEMMA NextEmptied == Emptied /\ [Next]_vars => Emptied'
<1> SUFFICES ASSUME Emptied, [Next]_vars
             PROVE  Emptied'
  OBVIOUS
<1>1. CASE Main
  BY <1>1 DEF Main, Wait, Start, Recv, TryEmit, Notify, Disconnected, SplitOff, Emptied
<1>2. CASE ~ Main
  <2>1. UNCHANGED <<pc, inputs>>
    BY <1>2 DEF Next, vars, mainVars, Measured, Emitter, Deliver, Commit, Fault, RollBack,
       LostInTransit, LostByNode, MonitorPanics, MeasurePanics
  <2>2. QED
    BY <2>1 DEF Emptied
<1>3. QED
  BY <1>1, <1>2

-----------------------------------------------------------------------------
(* The fourth layer: as long as the chain is not re-organised, no cell is  *)
(* sent twice.                                                             *)

(* Bench has received the cells 1..Received, in order.                     *)
Received == next - Len(chan)

InOrder == Len(chan) <= next /\ \A i \in 1..Len(chan) : chan[i] = Received + i

Collected == IsInjective(inputs) /\ \A c \in Range(inputs) : c <= Received

Used(c) == c <= Received /\ c \notin Range(inputs)

Fresh(t) == IsInjective(t.inputs) /\ \A c \in Range(t.inputs) : Used(c) /\ c \notin spent

Apart(t, u) == Range(t.inputs) \cap Range(u.inputs) = {}

(* Transactions at different places spend different cells.                 *)
TxApart ==
  \A u, r, e :
    /\ \A i : InQueue(u, r, e, i) => Apart(tx, u)
    /\ InHand(u, r, e) => Apart(tx, u)
    /\ InPool(u, e) => Apart(tx, u)

QueuesApart ==
  \A t, r, e, i : InQueue(t, r, e, i) =>
    \A u, s, f :
      /\ \A j : InQueue(u, s, f, j) => (s = r /\ f = e /\ i = j) \/ Apart(t, u)
      /\ InHand(u, s, f) => Apart(t, u)
      /\ InPool(u, f) => Apart(t, u)

HandsApart ==
  \A t, r, e : InHand(t, r, e) =>
    \A u, s, f :
      /\ InHand(u, s, f) => (s = r /\ f = e) \/ Apart(t, u)
      /\ InPool(u, f) => Apart(t, u)

PoolsApart ==
  \A t, e, u, f : InPool(t, e) /\ InPool(u, f) => (t = u /\ e = f) \/ Apart(t, u)

AllApart == TxApart /\ QueuesApart /\ HandsApart /\ PoolsApart

Once ==
  /\ InOrder
  /\ Collected
  /\ \A c \in spent : Used(c)
  /\ \A t : Held(t) => Fresh(t)
  /\ AllApart

SentOnce == ~ rolledBack => Once

(* No cell is spent by an empty transaction.                               *)
LEMMA NothingIsApart ==
  /\ Fresh(NoTx)
  /\ \A t : Apart(NoTx, t) /\ Apart(t, NoTx)
<1>1. Range(<<>>) = {} /\ IsInjective(<<>>)
  <2>1. DOMAIN <<>> = {}
    BY EmptySeq
  <2>2. QED
    BY <2>1 DEF Range, IsInjective
<1>2. QED
  BY <1>1 DEF Fresh, Apart, NoTx

LEMMA ApartIsSymmetric == \A t, u : Apart(t, u) <=> Apart(u, t)
BY DEF Apart

LEMMA InitOnce == Init => SentOnce
<1> SUFFICES ASSUME Init
             PROVE  Once
  BY DEF SentOnce
<1>1. tx = NoTx /\ \A t, r, e : /\ \A i : ~ InQueue(t, r, e, i)
                                /\ ~ InHand(t, r, e)
  <2>1. Len(<<>>) = 0
    BY EmptySeq
  <2>2. QED
    BY <2>1 DEF Init, InQueue, InHand
<1>2. \A t, e : ~ InPool(t, e)
  BY DEF Init, InPool
<1>3. (\A t : Held(t) => Fresh(t)) /\ AllApart
  BY <1>1, <1>2, NothingIsApart DEF Held, AllApart, TxApart, QueuesApart, HandsApart,
     PoolsApart
<1>4. InOrder
  <2>1. Len(<<>>) = 0
    BY EmptySeq
  <2>2. QED
    BY <2>1 DEF Init, InOrder
<1>5. Collected
  BY NothingIsApart DEF Init, Collected, Fresh, NoTx, Range, IsInjective
<1>6. QED
  BY <1>3, <1>4, <1>5 DEF Once, Init

(* A step that adds nothing to the queues, the hands and the pools, and    *)
(* keeps the transaction to send or makes one of other cells.              *)
LEMMA ApartKept ==
  ASSUME AllApart,
         \A t, r, e : /\ \A i : InQueue(t, r, e, i)' => InQueue(t, r, e, i)
                      /\ InHand(t, r, e)' => InHand(t, r, e),
         \A t, e : InPool(t, e)' => InPool(t, e),
         tx' = tx \/ \A t : Held(t) => Apart(tx', t)
  PROVE  AllApart'
<1>1. QueuesApart' /\ HandsApart' /\ PoolsApart'
  <2>1. \A t, u : Apart(t, u)' <=> Apart(t, u)
    BY DEF Apart
  <2>2. QueuesApart'
    <3>1. ASSUME NEW t, NEW r, NEW e, NEW i, InQueue(t, r, e, i)', NEW u, NEW s, NEW f
          PROVE  /\ \A j : InQueue(u, s, f, j)' => (s = r /\ f = e /\ i = j) \/ Apart(t, u)
                 /\ InHand(u, s, f)' => Apart(t, u)
                 /\ InPool(u, f)' => Apart(t, u)
      <4>1. InQueue(t, r, e, i)
        BY <3>1
      <4>2. /\ \A j : InQueue(u, s, f, j) => (s = r /\ f = e /\ i = j) \/ Apart(t, u)
            /\ InHand(u, s, f) => Apart(t, u)
            /\ InPool(u, f) => Apart(t, u)
        BY <4>1 DEF AllApart, QueuesApart
      <4>3. \A j : InQueue(u, s, f, j)' => InQueue(u, s, f, j)
        OBVIOUS
      <4>4. InHand(u, s, f)' => InHand(u, s, f)
        OBVIOUS
      <4>5. InPool(u, f)' => InPool(u, f)
        OBVIOUS
      <4>6. QED
        BY <4>2, <4>3, <4>4, <4>5
    <3>2. QED
      BY <2>1, <3>1 DEF QueuesApart
  <2>3. HandsApart'
    BY <2>1 DEF AllApart, HandsApart
  <2>4. PoolsApart'
    BY <2>1 DEF AllApart, PoolsApart
  <2>5. QED
    BY <2>2, <2>3, <2>4
<1>2. TxApart'
  <2>1. ASSUME NEW u, NEW r, NEW e
        PROVE  /\ \A i : InQueue(u, r, e, i) => Apart(tx', u)
               /\ InHand(u, r, e) => Apart(tx', u)
               /\ InPool(u, e) => Apart(tx', u)
    <3>1. CASE tx' = tx
      BY <3>1 DEF AllApart, TxApart
    <3>2. CASE \A t : Held(t) => Apart(tx', t)
      BY <3>2 DEF Held
    <3>3. QED
      BY <3>1, <3>2
  <2>2. \A u : Apart(tx, u)' <=> Apart(tx', u)
    BY DEF Apart
  <2>3. \A u, r, e : \A i : InQueue(u, r, e, i)' => Apart(tx, u)'
    BY <2>1, <2>2
  <2>4. \A u, r, e : InHand(u, r, e)' => Apart(tx, u)'
    BY <2>1, <2>2
  <2>5. \A u, e : InPool(u, e)' => Apart(tx, u)'
    BY <2>1, <2>2
  <2>6. QED
    BY <2>3, <2>4, <2>5 DEF TxApart
<1>3. QED
  BY <1>1, <1>2 DEF AllApart

(* A step of which bench learns nothing about cells.                       *)
LEMMA OnceKept ==
  ASSUME Once, UNCHANGED <<chan, next, inputs, spent>>,
         \A t : Held(t)' => Held(t) \/ t = NoTx,
         AllApart'
  PROVE  Once'
<1>1. Received' = Received /\ \A c : Used(c)' <=> Used(c)
  BY DEF Received, Used
<1>2. InOrder' /\ Collected' /\ \A c \in spent' : Used(c)'
  BY <1>1 DEF Once, InOrder, Collected
<1>3. \A t : Fresh(t)' <=> Fresh(t)
  BY <1>1 DEF Fresh
<1>4. \A t : Held(t)' => Fresh(t)'
  BY <1>3, NothingIsApart DEF Once
<1>5. QED
  BY <1>2, <1>4 DEF Once

(* Bench takes the next cell: no transaction has it.                       *)
LEMMA RecvOnce ==
  ASSUME TypeOK, Once, Recv, UNCHANGED <<pool, spent>>
  PROVE  Once'
<1>1. PICK in \in Seq(Cell) :
        /\ in = Append(inputs, Head(chan))
        /\ \/ inputs' = in /\ UNCHANGED <<pc, tx>>
           \/ inputs' = <<>> /\ tx'.inputs = in
  BY RecvBuilds
<1>2. chan # <<>> /\ chan' = Tail(chan) /\ UNCHANGED <<queue, hand, next>>
  BY DEF Recv, emitterVars
<1>3. PICK k \in Nat, n \in Nat : k = Len(chan) /\ n = Received /\ k > 0 /\ next = n + k
  <2>1. Len(chan) \in Nat /\ Len(chan) > 0 /\ next \in Nat /\ Len(chan) <= next
    BY <1>2, EmptySeq DEF TypeOK, Once, InOrder
  <2>2. QED
    BY <2>1 DEF Received
<1>4. /\ Len(chan') = k - 1
      /\ \A i \in 1..(k - 1) : chan'[i] = chan[i + 1]
      /\ Head(chan) = n + 1
      /\ Received' = n + 1
  <2>1. /\ Len(Tail(chan)) = k - 1 /\ Head(chan) = chan[1]
        /\ \A i \in 1..(k - 1) : Tail(chan)[i] = chan[i + 1]
    BY <1>2, <1>3, HeadTailProperties DEF TypeOK
  <2>2. chan[1] = n + 1
    BY <1>3 DEF Once, InOrder
  <2>3. QED
    BY <1>2, <1>3, <2>1, <2>2 DEF Received
<1>5. InOrder'
  <2>1. \A i \in 1..(k - 1) : i + 1 \in 1..k /\ n + (i + 1) = (n + 1) + i
    BY <1>3
  <2>2. \A i \in 1..k : chan[i] = n + i
    BY <1>3 DEF Once, InOrder
  <2>3. \A i \in 1..(k - 1) : chan'[i] = (n + 1) + i
    BY <1>4, <2>1, <2>2
  <2>4. k - 1 <= next'
    BY <1>2, <1>3
  <2>5. QED
    BY <1>4, <2>3, <2>4 DEF InOrder
<1>6. /\ Range(in) = Range(inputs) \cup {n + 1}
      /\ IsInjective(in)
      /\ \A c \in Range(inputs) : c \in Nat /\ c <= n
  <2>1. PICK m \in Nat : /\ m = Len(inputs) /\ DOMAIN inputs = 1..m
                         /\ DOMAIN in = 1..(m + 1)
                         /\ \A i \in 1..m : in[i] = inputs[i]
                         /\ in[m + 1] = n + 1
    <3>1. Head(chan) \in Cell /\ inputs \in Seq(Cell)
      BY <1>2, HeadTailProperties DEF TypeOK
    <3>2. /\ Len(inputs) \in Nat /\ DOMAIN inputs = 1..Len(inputs)
          /\ Len(in) = Len(inputs) + 1 /\ DOMAIN in = 1..Len(in)
      BY <1>1, <3>1, AppendProperties, LenProperties
    <3>3. /\ \A i \in 1..Len(inputs) : in[i] = inputs[i]
          /\ in[Len(inputs) + 1] = n + 1
      BY <1>1, <1>4, <3>1, AppendProperties
    <3>4. QED
      BY <3>2, <3>3
  <2>2. 1..(m + 1) = (1..m) \cup {m + 1} /\ m + 1 \notin 1..m
    OBVIOUS
  <2>3. \A c \in Range(inputs) : c \in Nat /\ c <= n
    <3>1. Range(inputs) \subseteq Cell
      BY RangeOfSeq DEF TypeOK
    <3>2. QED
      BY <1>3, <3>1 DEF Once, Collected, Cell
  <2>4. Range(in) = Range(inputs) \cup {n + 1}
    BY <2>1, <2>2 DEF Range
  <2>5. \A i \in 1..m : in[i] # n + 1
    BY <2>1, <2>3 DEF Range
  <2>6. \A i, j \in 1..m : inputs[i] = inputs[j] => i = j
    BY <2>1 DEF Once, Collected, IsInjective
  <2>7. \A i, j \in (1..m) \cup {m + 1} : in[i] = in[j] => i = j
    BY <2>1, <2>2, <2>5, <2>6
  <2>8. QED
    BY <2>1, <2>2, <2>3, <2>4, <2>7 DEF IsInjective
<1>7. \A t : Held(t) => t \in Tx /\ Fresh(t)
  BY HeldIsUnsettled DEF Once
<1>8. \A t, c : Held(t) /\ c \in Range(t.inputs) =>
        c \in Nat /\ c <= n /\ c \notin Range(in) /\ c \notin spent
  <2>1. ASSUME NEW t, Held(t), NEW c \in Range(t.inputs)
        PROVE  c \in Nat /\ c <= n /\ c \notin Range(in) /\ c \notin spent
    <3>1. Used(c) /\ c \notin spent
      BY <1>7, <2>1 DEF Fresh
    <3>2. c \in Nat
      <4>1. Range(t.inputs) \subseteq Cell
        BY <1>7, <2>1, RangeOfSeq DEF Tx
      <4>2. QED
        BY <4>1 DEF Cell
    <3>3. c <= n /\ c \notin Range(inputs)
      BY <1>3, <3>1 DEF Used
    <3>4. c # n + 1
      BY <3>2, <3>3
    <3>5. QED
      BY <1>6, <3>1, <3>2, <3>3, <3>4
  <2>2. QED
    BY <2>1
<1>9. \A c \in spent : c \in Nat /\ c <= n /\ c \notin Range(in)
  <2>1. \A c \in spent : c \in Nat /\ c <= n /\ c \notin Range(inputs)
    BY <1>3 DEF Once, Used, TypeOK, Cell
  <2>2. \A c \in spent : c # n + 1
    BY <2>1
  <2>3. QED
    BY <1>6, <2>1, <2>2
<1>10. Range(inputs') \subseteq Range(in) /\ IsInjective(inputs')
  <2>1. Range(<<>>) = {} /\ IsInjective(<<>>)
    BY NothingIsApart DEF Fresh, NoTx, Range, IsInjective
  <2>2. QED
    BY <1>1, <1>6, <2>1
<1>11. \A c : c \in Nat /\ c <= n /\ c \notin Range(in) => Used(c)'
  BY <1>4, <1>10 DEF Used
<1>12. Collected'
  <2>1. \A c \in Range(in) : c <= n + 1
    BY <1>6
  <2>2. QED
    BY <1>4, <1>10, <2>1 DEF Collected
<1>13. \A c \in spent' : Used(c)'
  BY <1>9, <1>11
<1>14. \A t : Held(t)' => Held(t) \/ t = tx'
  <2>1. \A t, r, e :
           /\ \A i : InQueue(t, r, e, i)' <=> InQueue(t, r, e, i)
           /\ InHand(t, r, e)' <=> InHand(t, r, e)
           /\ InPool(t, e)' <=> InPool(t, e)
    BY <1>2, NothingMoves
  <2>2. QED
    BY <2>1 DEF Held
<1>15. ASSUME NEW t, Held(t)
       PROVE  Fresh(t)'
  BY <1>7, <1>8, <1>11, <1>15 DEF Fresh
<1>16. Fresh(tx)'
  <2>1. CASE tx' = tx
    BY <1>15, <2>1 DEF Held, Fresh
  <2>2. CASE inputs' = <<>> /\ tx'.inputs = in
    <3>1. ASSUME NEW c \in Range(in)
          PROVE  Used(c)' /\ c \notin spent
      <4>1. c <= n + 1
        BY <1>6
      <4>2. c \notin Range(inputs')
        BY <2>2 DEF Range
      <4>3. c \notin spent
        BY <1>9
      <4>4. QED
        BY <1>4, <4>1, <4>2, <4>3 DEF Used
    <3>2. QED
      BY <1>6, <2>2, <3>1 DEF Fresh
  <2>3. QED
    BY <1>1, <2>1, <2>2
<1>17. AllApart'
  <2>1. tx' = tx \/ \A t : Held(t) => Apart(tx', t)
    BY <1>1, <1>8 DEF Apart
  <2>2. \A t, r, e :
           /\ \A i : InQueue(t, r, e, i)' => InQueue(t, r, e, i)
           /\ InHand(t, r, e)' => InHand(t, r, e)
    BY <1>2, NothingMoves
  <2>3. \A t, e : InPool(t, e)' => InPool(t, e)
    BY DEF InPool
  <2>4. QED
    BY <2>1, <2>2, <2>3, ApartKept DEF Once
<1>18. \A t : Held(t)' => Fresh(t)'
  <2>1. ASSUME NEW t, Held(t)'
        PROVE  Fresh(t)'
    <3>1. CASE Held(t)
      BY <1>15, <3>1
    <3>2. CASE t = tx'
      BY <1>16, <3>2 DEF Fresh
    <3>3. QED
      BY <1>14, <2>1, <3>1, <3>2
  <2>2. QED
    BY <2>1
<1>19. QED
  BY <1>5, <1>12, <1>13, <1>17, <1>18 DEF Once

(* try_send hands the transaction over.                                    *)
LEMMA TryEmitOnce ==
  ASSUME TypeOK, Once, TryEmit, UNCHANGED nodeVars
  PROVE  Once'
<1>1. UNCHANGED <<chan, next, inputs, spent>>
  BY DEF TryEmit, monitorVars, nodeVars
<1>2. CASE UNCHANGED <<queue, hand, pool, tx>>
  <2>1. AllApart'
    BY <1>2, NothingMoves, ApartKept DEF Once
  <2>2. \A t : Held(t)' => Held(t)
    BY <1>2, NothingMoves DEF Held
  <2>3. QED
    BY <1>1, <2>1, <2>2, OnceKept
<1>3. CASE ~ UNCHANGED <<queue, hand, pool, tx>>
  <2>1. tx' = NoTx
    BY <1>3, TryEmitMoves
  <2>2. PICK r \in Run, e \in Endpoint : \A t, s, f :
          /\ \A i : InQueue(t, s, f, i)' <=>
               \/ InQueue(t, s, f, i)
               \/ s = r /\ f = e /\ i = Len(queue[r][e]) + 1 /\ t = tx
          /\ InHand(t, s, f)' <=> InHand(t, s, f)
          /\ InPool(t, f)' <=> InPool(t, f)
    BY <1>3, TryEmitMoves
  <2>3. PICK k : k = Len(queue[r][e]) + 1
    OBVIOUS
  <2>4. \A t, s, f, i : InQueue(t, s, f, i)' =>
          InQueue(t, s, f, i) \/ (s = r /\ f = e /\ i = k /\ t = tx)
    <3>1. ASSUME NEW t, NEW s, NEW f, NEW i, InQueue(t, s, f, i)', ~ InQueue(t, s, f, i)
          PROVE  s = r /\ f = e /\ i = Len(queue[r][e]) + 1 /\ t = tx
      BY <2>2, <3>1
    <3>2. QED
      BY <2>3, <3>1
  <2>5. \A t, s, f : InHand(t, s, f)' => InHand(t, s, f)
    BY <2>2
  <2>6. \A t, f : InPool(t, f)' => InPool(t, f)
    BY <2>2
  <2>7. \A t, u : (Apart(t, u)' <=> Apart(t, u)) /\ (Apart(t, u) <=> Apart(u, t))
    BY DEF Apart
  <2>8. TxApart'
    <3>1. \A u : Apart(tx, u)'
      BY <2>1, NothingIsApart DEF Apart
    <3>2. QED
      BY <3>1 DEF TxApart
  <2>9. QueuesApart'
    <3>1. ASSUME NEW t, NEW s, NEW f, NEW i, InQueue(t, s, f, i)',
                 NEW u, NEW a, NEW b, NEW j, InQueue(u, a, b, j)'
          PROVE  (a = s /\ b = f /\ i = j) \/ Apart(t, u)
      <4>1. CASE InQueue(t, s, f, i) /\ InQueue(u, a, b, j)
        BY <4>1 DEF Once, AllApart, QueuesApart
      <4>2. CASE InQueue(t, s, f, i) /\ u = tx
        BY <2>7, <4>2 DEF Once, AllApart, TxApart
      <4>3. CASE t = tx /\ InQueue(u, a, b, j)
        BY <2>7, <4>3 DEF Once, AllApart, TxApart
      <4>4. CASE s = r /\ f = e /\ i = k /\ a = r /\ b = e /\ j = k
        BY <4>4
      <4>5. QED
        BY <2>4, <3>1, <4>1, <4>2, <4>3, <4>4
    <3>2. ASSUME NEW t, NEW s, NEW f, NEW i, InQueue(t, s, f, i)',
                 NEW u, NEW a, NEW b
          PROVE  (InHand(u, a, b)' => Apart(t, u)) /\ (InPool(u, b)' => Apart(t, u))
      <4>1. CASE InQueue(t, s, f, i)
        <5>1. (InHand(u, a, b) => Apart(t, u)) /\ (InPool(u, b) => Apart(t, u))
          BY <4>1 DEF Once, AllApart, QueuesApart
        <5>2. QED
          BY <2>5, <2>6, <5>1
      <4>2. CASE t = tx
        <5>1. (InHand(u, a, b) => Apart(t, u)) /\ (InPool(u, b) => Apart(t, u))
          BY <4>2 DEF Once, AllApart, TxApart
        <5>2. QED
          BY <2>5, <2>6, <5>1
      <4>3. QED
        BY <2>4, <3>2, <4>1, <4>2
    <3>3. QED
      BY <2>7, <3>1, <3>2 DEF QueuesApart
  <2>10. HandsApart'
    BY <2>5, <2>6, <2>7 DEF Once, AllApart, HandsApart
  <2>11. PoolsApart'
    BY <2>6, <2>7 DEF Once, AllApart, PoolsApart
  <2>12. AllApart'
    BY <2>8, <2>9, <2>10, <2>11 DEF AllApart
  <2>13. ASSUME NEW t, Held(t)'
         PROVE  Held(t) \/ t = NoTx
    <3>1. \/ t = NoTx
          \/ \E s, f, i : InQueue(t, s, f, i)'
          \/ \E s, f : InHand(t, s, f)'
          \/ \E f : InPool(t, f)'
      BY <2>1, <2>13 DEF Held
    <3>2. QED
      BY <2>4, <2>5, <2>6, <3>1 DEF Held
  <2>14. QED
    BY <1>1, <2>12, <2>13, OnceKept
<1>4. QED
  BY <1>2, <1>3

(* An emitter takes the head of its queue.                                 *)
LEMMA TakeOnce ==
  ASSUME TypeOK, Once, NEW r \in Run, NEW e \in Endpoint, Take(r, e),
         UNCHANGED <<tx, chan, next, inputs, spent>>
  PROVE  Once'
<1>1. /\ \A t, s, f :
           /\ \A i : InQueue(t, s, f, i)' <=>
                IF s = r /\ f = e THEN i \in Nat \ {0} /\ InQueue(t, r, e, i + 1)
                                  ELSE InQueue(t, s, f, i)
           /\ InHand(t, s, f)' <=>
                IF s = r /\ f = e THEN InQueue(t, r, e, 1) ELSE InHand(t, s, f)
           /\ InPool(t, f)' <=> InPool(t, f)
  BY TakeMoves
<1>2. \A t, s, f, i : InQueue(t, s, f, i)' =>
         \E j : InQueue(t, s, f, j) /\ j = (IF s = r /\ f = e THEN i + 1 ELSE i)
  BY <1>1
<1>a. \A t, s, f, i : InQueue(t, s, f, i)' => i \in Nat \ {0}
  <2>1. ASSUME NEW t, NEW s, NEW f, NEW i, InQueue(t, s, f, i)'
        PROVE  i \in Nat \ {0}
    <3>1. CASE s = r /\ f = e
      BY <1>1, <2>1, <3>1
    <3>2. CASE ~ (s = r /\ f = e)
      <4>1. InQueue(t, s, f, i)
        BY <1>1, <2>1, <3>2
      <4>2. s \in Run /\ f \in Endpoint /\ i \in 1..Len(queue[s][f])
        BY <4>1 DEF InQueue
      <4>3. Len(queue[s][f]) \in Nat
        BY <4>2 DEF TypeOK
      <4>4. QED
        BY <4>2, <4>3
    <3>3. QED
      BY <3>1, <3>2
  <2>2. QED
    BY <2>1
<1>3. \A t, s, f : InHand(t, s, f)' =>
         InHand(t, s, f) \/ (s = r /\ f = e /\ InQueue(t, r, e, 1))
  BY <1>1
<1>4. \A t, f : InPool(t, f)' => InPool(t, f)
  BY <1>1
<1>5. \A t : ~ InHand(t, r, e)
  BY TakeMoves
<1>6. \A t, u : (Apart(t, u)' <=> Apart(t, u)) /\ (Apart(t, u) <=> Apart(u, t))
  BY DEF Apart
<1>7. TxApart'
  <2>1. \A u : Apart(tx, u)' <=> Apart(tx, u)
    BY DEF Apart
  <2>2. \A u, s, f, i : InQueue(u, s, f, i)' => Apart(tx, u)
    BY <1>2 DEF Once, AllApart, TxApart
  <2>3. \A u, s, f : InHand(u, s, f)' => Apart(tx, u)
    BY <1>3 DEF Once, AllApart, TxApart
  <2>4. \A u, f : InPool(u, f)' => Apart(tx, u)
    BY <1>4 DEF Once, AllApart, TxApart
  <2>5. QED
    BY <2>1, <2>2, <2>3, <2>4 DEF TxApart
<1>8. QueuesApart'
  <2>1. ASSUME NEW t, NEW s, NEW f, NEW i, InQueue(t, s, f, i)',
               NEW u, NEW a, NEW b, NEW j, InQueue(u, a, b, j)'
        PROVE  (a = s /\ b = f /\ i = j) \/ Apart(t, u)
    <3>1. PICK k : InQueue(t, s, f, k) /\ k = (IF s = r /\ f = e THEN i + 1 ELSE i)
      BY <1>2, <2>1
    <3>2. PICK l : InQueue(u, a, b, l) /\ l = (IF a = r /\ b = e THEN j + 1 ELSE j)
      BY <1>2, <2>1
    <3>3. (a = s /\ b = f /\ k = l) \/ Apart(t, u)
      <4>1. InQueue(t, s, f, k) /\ InQueue(u, a, b, l)
        BY <3>1, <3>2
      <4>2. QED
        BY <4>1 DEF Once, AllApart, QueuesApart
    <3>4. a = s /\ b = f /\ k = l => i = j
      <4>1. i \in Nat /\ j \in Nat
        BY <1>a, <2>1
      <4>2. QED
        BY <3>1, <3>2, <4>1
    <3>5. QED
      BY <3>3, <3>4
  <2>2. ASSUME NEW t, NEW s, NEW f, NEW i, InQueue(t, s, f, i)', NEW u, NEW a, NEW b,
               InHand(u, a, b)'
        PROVE  Apart(t, u)
    <3>1. PICK k : InQueue(t, s, f, k) /\ k = (IF s = r /\ f = e THEN i + 1 ELSE i)
      BY <1>2, <2>2
    <3>2. CASE InHand(u, a, b)
      BY <3>1, <3>2 DEF Once, AllApart, QueuesApart
    <3>3. CASE a = r /\ b = e /\ InQueue(u, r, e, 1)
      <4>1. (s = r /\ f = e /\ k = 1) \/ Apart(t, u)
        BY <3>1, <3>3 DEF Once, AllApart, QueuesApart
      <4>2. i \in Nat \ {0}
        BY <1>a, <2>2
      <4>3. s = r /\ f = e => k # 1
        BY <3>1, <4>2
      <4>4. QED
        BY <4>1, <4>3
    <3>4. QED
      BY <1>3, <2>2, <3>2, <3>3
  <2>3. ASSUME NEW t, NEW s, NEW f, NEW i, InQueue(t, s, f, i)', NEW u, NEW b,
               InPool(u, b)'
        PROVE  Apart(t, u)
    <3>1. PICK k : InQueue(t, s, f, k)
      BY <1>2, <2>3
    <3>2. InPool(u, b)
      BY <1>4, <2>3
    <3>3. QED
      BY <3>1, <3>2 DEF Once, AllApart, QueuesApart
  <2>4. QED
    BY <1>6, <2>1, <2>2, <2>3 DEF QueuesApart
<1>9. HandsApart'
  <2>1. ASSUME NEW t, NEW s, NEW f, InHand(t, s, f)', NEW u, NEW a, NEW b, InHand(u, a, b)'
        PROVE  (a = s /\ b = f) \/ Apart(t, u)
    <3>1. CASE InHand(t, s, f) /\ InHand(u, a, b)
      BY <3>1 DEF Once, AllApart, HandsApart
    <3>2. CASE InHand(t, s, f) /\ InQueue(u, r, e, 1)
      BY <1>6, <3>2 DEF Once, AllApart, QueuesApart
    <3>3. CASE InQueue(t, r, e, 1) /\ InHand(u, a, b)
      BY <3>3 DEF Once, AllApart, QueuesApart
    <3>4. QED
      BY <1>3, <2>1, <3>1, <3>2, <3>3
  <2>2. ASSUME NEW t, NEW s, NEW f, InHand(t, s, f)', NEW u, NEW b, InPool(u, b)'
        PROVE  Apart(t, u)
    <3>1. InPool(u, b)
      BY <1>4, <2>2
    <3>2. CASE InHand(t, s, f)
      BY <3>1, <3>2 DEF Once, AllApart, HandsApart
    <3>3. CASE InQueue(t, r, e, 1)
      BY <3>1, <3>3 DEF Once, AllApart, QueuesApart
    <3>4. QED
      BY <1>3, <2>2, <3>2, <3>3
  <2>3. QED
    BY <1>6, <2>1, <2>2 DEF HandsApart
<1>10. PoolsApart'
  BY <1>4, <1>6 DEF Once, AllApart, PoolsApart
<1>11. AllApart'
  BY <1>7, <1>8, <1>9, <1>10 DEF AllApart
<1>12. ASSUME NEW t, Held(t)'
       PROVE  Held(t)
  <2>1. \/ t = tx
        \/ \E s, f, i : InQueue(t, s, f, i)'
        \/ \E s, f : InHand(t, s, f)'
        \/ \E f : InPool(t, f)'
    BY <1>12 DEF Held
  <2>2. QED
    BY <1>2, <1>3, <1>4, <2>1 DEF Held
<1>13. QED
  BY <1>11, <1>12, OnceKept

(* An emitter submits a transaction: it goes into the pool, or nowhere.    *)
LEMMA OfferOnce ==
  ASSUME TypeOK, Once, NEW r \in Run, NEW e \in Endpoint, Offer(r, e),
         UNCHANGED <<tx, chan, next, inputs, spent>>
  PROVE  Once'
<1>1. PICK h :
        /\ InHand(h, r, e) /\ ~ Again(h, e)
        /\ \A t, s, f :
             /\ \A i : InQueue(t, s, f, i)' <=> InQueue(t, s, f, i)
             /\ InHand(t, s, f)' <=> ~ (s = r /\ f = e) /\ InHand(t, s, f)
             /\ InPool(t, f)' <=> \/ InPool(t, f)
                                  \/ f = e /\ t = h /\ Valid(h, e)
  BY OfferMoves
<1>2. \A t, s, f, i : InQueue(t, s, f, i)' => InQueue(t, s, f, i)
  BY <1>1
<1>3. \A t, s, f : InHand(t, s, f)' => ~ (s = r /\ f = e) /\ InHand(t, s, f)
  BY <1>1
<1>4. \A t, f : InPool(t, f)' => InPool(t, f) \/ (f = e /\ t = h)
  BY <1>1
<1>5. \A t, u : (Apart(t, u)' <=> Apart(t, u)) /\ (Apart(t, u) <=> Apart(u, t))
  BY DEF Apart
<1>6. TxApart'
  <2>1. \A u : Apart(tx, u)' <=> Apart(tx, u)
    BY DEF Apart
  <2>2. \A u, s, f, i : InQueue(u, s, f, i)' => Apart(tx, u)
    BY <1>2 DEF Once, AllApart, TxApart
  <2>3. \A u, s, f : InHand(u, s, f)' => Apart(tx, u)
    BY <1>3 DEF Once, AllApart, TxApart
  <2>4. \A u, f : InPool(u, f)' => Apart(tx, u)
    BY <1>1, <1>4 DEF Once, AllApart, TxApart
  <2>5. QED
    BY <2>1, <2>2, <2>3, <2>4 DEF TxApart
<1>7. QueuesApart'
  <2>1. ASSUME NEW t, NEW s, NEW f, NEW i, InQueue(t, s, f, i)', NEW u, NEW a, NEW b
        PROVE  /\ \A j : InQueue(u, a, b, j)' => (a = s /\ b = f /\ i = j) \/ Apart(t, u)
               /\ InHand(u, a, b)' => Apart(t, u)
               /\ InPool(u, b)' => Apart(t, u)
    <3>1. InQueue(t, s, f, i)
      BY <1>2, <2>1
    <3>2. \A j : InQueue(u, a, b, j)' => (a = s /\ b = f /\ i = j) \/ Apart(t, u)
      <4>1. \A j : InQueue(u, a, b, j) => (a = s /\ b = f /\ i = j) \/ Apart(t, u)
        BY <3>1 DEF Once, AllApart, QueuesApart
      <4>2. QED
        BY <1>2, <4>1
    <3>3. InHand(u, a, b)' => Apart(t, u)
      BY <1>3, <3>1 DEF Once, AllApart, QueuesApart
    <3>4. InPool(u, b)' => Apart(t, u)
      <4>1. CASE InPool(u, b)
        BY <3>1, <4>1 DEF Once, AllApart, QueuesApart
      <4>2. CASE u = h
        BY <1>1, <3>1, <4>2 DEF Once, AllApart, QueuesApart
      <4>3. QED
        BY <1>4, <4>1, <4>2
    <3>5. QED
      BY <3>2, <3>3, <3>4
  <2>2. QED
    BY <1>5, <2>1 DEF QueuesApart
<1>8. HandsApart'
  <2>1. ASSUME NEW t, NEW s, NEW f, InHand(t, s, f)', NEW u, NEW a, NEW b
        PROVE  /\ InHand(u, a, b)' => (a = s /\ b = f) \/ Apart(t, u)
               /\ InPool(u, b)' => Apart(t, u)
    <3>1. ~ (s = r /\ f = e) /\ InHand(t, s, f)
      BY <1>3, <2>1
    <3>2. InHand(u, a, b)' => (a = s /\ b = f) \/ Apart(t, u)
      BY <1>3, <3>1 DEF Once, AllApart, HandsApart
    <3>3. InPool(u, b)' => Apart(t, u)
      <4>1. CASE InPool(u, b)
        BY <3>1, <4>1 DEF Once, AllApart, HandsApart
      <4>2. CASE u = h
        <5>1. InHand(u, r, e)
          BY <1>1, <4>2
        <5>2. QED
          BY <3>1, <5>1 DEF Once, AllApart, HandsApart
      <4>3. QED
        BY <1>4, <4>1, <4>2
    <3>4. QED
      BY <3>2, <3>3
  <2>2. QED
    BY <1>5, <2>1 DEF HandsApart
<1>9. PoolsApart'
  <2>1. ASSUME NEW t, NEW f, NEW u, NEW b, InPool(t, f)', InPool(u, b)'
        PROVE  (t = u /\ f = b) \/ Apart(t, u)
    <3>1. CASE InPool(t, f) /\ InPool(u, b)
      BY <3>1 DEF Once, AllApart, PoolsApart
    <3>2. CASE t = h /\ InPool(u, b)
      BY <1>1, <3>2 DEF Once, AllApart, HandsApart
    <3>3. CASE u = h /\ InPool(t, f)
      <4>1. Apart(h, t)
        BY <1>1, <3>3 DEF Once, AllApart, HandsApart
      <4>2. QED
        BY <1>5, <3>3, <4>1
    <3>4. CASE t = h /\ u = h /\ f = e /\ b = e
      BY <3>4
    <3>5. QED
      BY <1>4, <2>1, <3>1, <3>2, <3>3, <3>4
  <2>2. QED
    BY <1>5, <2>1 DEF PoolsApart
<1>10. AllApart'
  BY <1>6, <1>7, <1>8, <1>9 DEF AllApart
<1>11. ASSUME NEW t, Held(t)'
       PROVE  Held(t)
  <2>1. \/ t = tx
        \/ \E s, f, i : InQueue(t, s, f, i)'
        \/ \E s, f : InHand(t, s, f)'
        \/ \E f : InPool(t, f)'
    BY <1>11 DEF Held
  <2>2. \A f : InPool(t, f)' => InPool(t, f) \/ InHand(t, r, e)
    BY <1>1, <1>4
  <2>3. QED
    BY <1>2, <1>3, <2>1, <2>2 DEF Held
<1>12. QED
  BY <1>10, <1>11, OnceKept

(* A block spends the cells of one transaction, which no other has.        *)
LEMMA CommitOnce ==
  ASSUME TypeOK, Once, NEW e \in Endpoint, Commit(e)
  PROVE  Once'
<1>1. PICK t :
        /\ InPool(t, e)
        /\ spent' = spent \cup Range(t.inputs)
        /\ UNCHANGED <<tx, chan, next, inputs>>
        /\ \A u, r, f :
             /\ \A i : InQueue(u, r, f, i)' <=> InQueue(u, r, f, i)
             /\ InHand(u, r, f)' <=> InHand(u, r, f)
             /\ InPool(u, f)' <=> /\ InPool(u, f)
                                  /\ Range(u.inputs) \cap Range(t.inputs) = {}
  BY CommitMoves DEF mainVars, monitorVars
<1>2. /\ \A u, r, f : /\ \A i : InQueue(u, r, f, i)' => InQueue(u, r, f, i)
                      /\ InHand(u, r, f)' => InHand(u, r, f)
      /\ \A u, f : InPool(u, f)' => InPool(u, f)
  BY <1>1
<1>3. AllApart'
  BY <1>1, <1>2, ApartKept DEF Once
<1>4. Received' = Received /\ \A c : Used(c)' <=> Used(c)
  BY <1>1 DEF Received, Used
<1>5. InOrder' /\ Collected'
  BY <1>1, <1>4 DEF Once, InOrder, Collected
<1>6. Fresh(t)
  BY <1>1 DEF Once, Held
<1>7. \A c \in spent' : Used(c)'
  BY <1>1, <1>4, <1>6 DEF Once, Fresh
<1>8. ASSUME NEW u, Held(u)'
      PROVE  Held(u) /\ Apart(t, u)
  <2>1. CASE u = tx'
    BY <1>1, <2>1 DEF Held, Once, AllApart, TxApart, Apart
  <2>2. ASSUME NEW r, NEW f, NEW i, InQueue(u, r, f, i)'
        PROVE  Held(u) /\ Apart(t, u)
    <3>1. InQueue(u, r, f, i)
      BY <1>2, <2>2
    <3>2. QED
      BY <1>1, <3>1 DEF Held, Once, AllApart, QueuesApart, Apart
  <2>3. ASSUME NEW r, NEW f, InHand(u, r, f)'
        PROVE  Held(u) /\ Apart(t, u)
    <3>1. InHand(u, r, f)
      BY <1>2, <2>3
    <3>2. QED
      BY <1>1, <3>1 DEF Held, Once, AllApart, HandsApart, Apart
  <2>4. ASSUME NEW f, InPool(u, f)'
        PROVE  Held(u) /\ Apart(t, u)
    <3>1. InPool(u, f) /\ Range(u.inputs) \cap Range(t.inputs) = {}
      BY <1>1, <2>4
    <3>2. QED
      BY <3>1 DEF Held, Apart
  <2>5. QED
    BY <1>8, <2>1, <2>2, <2>3, <2>4 DEF Held
<1>9. ASSUME NEW u, Held(u)'
      PROVE  Fresh(u)'
  <2>1. Fresh(u) /\ Apart(t, u)
    BY <1>8, <1>9 DEF Once
  <2>2. \A c \in Range(u.inputs) : c \notin spent'
    BY <1>1, <2>1 DEF Fresh, Apart
  <2>3. QED
    BY <1>4, <2>1, <2>2 DEF Fresh
<1>10. QED
  BY <1>3, <1>5, <1>7, <1>9 DEF Once

(* The chain monitor sends the next cell.                                  *)
LEMMA DeliverOnce ==
  ASSUME TypeOK, Once, Deliver
  PROVE  Once'
<1>1. /\ chan' = Append(chan, next + 1) /\ next' = next + 1
      /\ UNCHANGED <<tx, inputs, spent, queue, hand, pool>>
  BY DEF Deliver, mainVars, emitterVars, nodeVars
<1>2. PICK k \in Nat, n \in Nat : k = Len(chan) /\ n = Received /\ next = n + k
  <2>1. Len(chan) \in Nat /\ next \in Nat /\ Len(chan) <= next
    BY DEF TypeOK, Once, InOrder
  <2>2. QED
    BY <2>1 DEF Received
<1>3. /\ Len(chan') = k + 1
      /\ \A i \in 1..k : chan'[i] = chan[i]
      /\ chan'[k + 1] = n + k + 1
      /\ Received' = n
  <2>1. next + 1 \in Cell /\ chan \in Seq(Cell)
    BY <1>2 DEF Deliver, TypeOK, Cell
  <2>3. /\ Len(chan') = k + 1
        /\ \A i \in 1..k : chan'[i] = chan[i]
        /\ chan'[k + 1] = next + 1
    BY <1>1, <1>2, <2>1, AppendProperties
  <2>4. QED
    BY <1>1, <1>2, <2>3 DEF Received
<1>4. InOrder'
  <2>1. \A i \in 1..k : chan'[i] = n + i
    BY <1>2, <1>3 DEF Once, InOrder
  <2>2. \A i \in 1..(k + 1) : i \in 1..k \/ i = k + 1
    BY <1>2
  <2>3. \A i \in 1..(k + 1) : chan'[i] = n + i
    BY <1>2, <1>3, <2>1, <2>2
  <2>4. k + 1 <= next'
    BY <1>1, <1>2
  <2>5. QED
    BY <1>3, <2>3, <2>4 DEF InOrder
<1>5. \A c : Used(c)' <=> Used(c)
  BY <1>1, <1>2, <1>3 DEF Used
<1>6. Collected' /\ \A c \in spent' : Used(c)'
  BY <1>1, <1>2, <1>3, <1>5 DEF Once, Collected
<1>7. \A t : (Held(t)' <=> Held(t)) /\ (Fresh(t)' <=> Fresh(t))
  BY <1>1, <1>5, NothingMoves DEF Held, Fresh
<1>8. AllApart'
  BY <1>1, NothingMoves, ApartKept DEF Once
<1>9. QED
  BY <1>4, <1>6, <1>7, <1>8 DEF Once

(* A lost transaction leaves the others where they were.                   *)
LEMMA LostOnce ==
  ASSUME TypeOK, Once, NEW r \in Run, NEW e \in Endpoint,
         LostInTransit(r, e) \/ LostByNode(e)
  PROVE  Once'
<1>1. UNCHANGED <<tx, chan, next, inputs, spent>>
  BY LostMoves DEF mainVars, monitorVars
<1>2. /\ \A u, s, f : /\ \A i : InQueue(u, s, f, i)' => InQueue(u, s, f, i)
                      /\ InHand(u, s, f)' => InHand(u, s, f)
      /\ \A u, f : InPool(u, f)' => InPool(u, f)
  <2>1. PICK t : \A u, s, f :
          /\ \A i : InQueue(u, s, f, i)' <=> InQueue(u, s, f, i)
          /\ InHand(u, s, f)' => InHand(u, s, f)
          /\ InPool(u, f)' => InPool(u, f)
    BY LostMoves
  <2>2. QED
    BY <2>1
<1>3. AllApart'
  BY <1>1, <1>2, ApartKept DEF Once
<1>4. ASSUME NEW u, Held(u)'
      PROVE  Held(u)
  <2>1. \/ u = tx
        \/ \E s, f, i : InQueue(u, s, f, i)'
        \/ \E s, f : InHand(u, s, f)'
        \/ \E f : InPool(u, f)'
    BY <1>1, <1>4 DEF Held
  <2>2. QED
    BY <1>2, <2>1 DEF Held
<1>5. QED
  BY <1>1, <1>3, <1>4, OnceKept

(* Bench drops the cells that it has collected.                            *)
LEMMA DisconnectedOnce ==
  ASSUME TypeOK, Once, Disconnected, UNCHANGED <<pool, spent>>
  PROVE  Once'
<1>1. /\ inputs' = <<>>
      /\ UNCHANGED <<tx, queue, hand, chan, next>>
  BY DEF Disconnected, emitterVars, monitorVars
<1>2. Range(inputs') = {} /\ IsInjective(inputs')
  BY <1>1, NothingIsApart DEF Fresh, NoTx, Range, IsInjective
<1>3. Received' = Received /\ \A c : Used(c) => Used(c)'
  BY <1>1, <1>2 DEF Received, Used
<1>4. InOrder' /\ Collected' /\ \A c \in spent' : Used(c)'
  BY <1>1, <1>2, <1>3 DEF Once, InOrder, Collected
<1>5. \A t : Fresh(t) => Fresh(t)'
  BY <1>3 DEF Fresh
<1>6. \A t : Held(t)' => Held(t)
  BY <1>1, NothingMoves DEF Held
<1>7. AllApart'
  BY <1>1, NothingMoves, ApartKept DEF Once
<1>8. QED
  BY <1>4, <1>5, <1>6, <1>7 DEF Once

LEMMA NextOnce == TypeOK /\ Emptied /\ SentOnce /\ [Next]_vars => SentOnce'
<1> SUFFICES ASSUME TypeOK, Emptied, [Next]_vars, SentOnce, ~ rolledBack'
             PROVE  Once'
  BY DEF SentOnce
<1>1. ~ rolledBack /\ ~ RollBack
  <2>1. ~ RollBack
    BY DEF RollBack
  <2>2. UNCHANGED rolledBack
    BY <2>1 DEF Next, vars, faultVars, Main, Measured, Emitter, Deliver, Commit, Fault,
       LostInTransit, LostByNode, MonitorPanics, MeasurePanics
  <2>3. QED
    BY <2>1, <2>2
<1>2. Once
  BY <1>1 DEF SentOnce
<1>3. ASSUME UNCHANGED <<tx, inputs, queue, hand, pool, chan, next, spent>>
      PROVE  Once'
  <2>1. AllApart'
    BY <1>2, <1>3, NothingMoves, ApartKept DEF Once
  <2>2. \A t : Held(t)' => Held(t)
    BY <1>3, NothingMoves DEF Held
  <2>3. QED
    BY <1>2, <1>3, <2>1, <2>2, OnceKept
<1>4. CASE UNCHANGED vars \/ Measured \/ MonitorPanics \/ MeasurePanics
  BY <1>3, <1>4 DEF vars, Measured, MonitorPanics, MeasurePanics, mainVars, emitterVars,
     monitorVars, nodeVars
<1>5. CASE Main
  <2>1. UNCHANGED nodeVars /\ UNCHANGED <<pool, spent>>
    BY <1>5 DEF Main, nodeVars
  <2>2. CASE Wait \/ Start \/ Notify
    BY <1>3, <2>1, <2>2 DEF Wait, Start, Notify, Emptied, emitterVars, monitorVars
  <2>3. QED
    BY <1>2, <1>5, <2>1, <2>2, RecvOnce, TryEmitOnce, DisconnectedOnce DEF Main
<1>6. ASSUME NEW r \in Run, NEW e \in Endpoint, Emitter(r, e)
      PROVE  Once'
  <2>1. UNCHANGED <<tx, chan, next, inputs, spent>>
    BY <1>6 DEF Emitter, mainVars, monitorVars
  <2>2. QED
    BY <1>2, <1>6, <2>1, TakeOnce, OfferOnce DEF Emitter
<1>7. ASSUME NEW r \in Run, NEW e \in Endpoint, LostInTransit(r, e)
      PROVE  Once'
  BY <1>2, <1>7, LostOnce
<1>8. ASSUME NEW e \in Endpoint, LostByNode(e)
      PROVE  Once'
  <2>1. PICK r : r \in Run
    BY <1>8 DEF LostByNode, Fails, TypeOK
  <2>2. QED
    BY <1>2, <1>8, <2>1, LostOnce
<1>9. CASE Fault
  BY <1>1, <1>4, <1>7, <1>8, <1>9 DEF Fault
<1>10. QED
  BY <1>2, <1>4, <1>5, <1>6, <1>9, CommitOnce, DeliverOnce DEF Next

(* The transactions of different places are different ones, unless they    *)
(* spend nothing.                                                          *)
LEMMA OnceIsNoDoubleSpend == TypeOK /\ SentOnce => NoDoubleSpend
<1> SUFFICES ASSUME TypeOK, Once, NEW t \in Unsettled
             PROVE  /\ IsInjective(t.inputs)
                    /\ Range(t.inputs) \subseteq Live
                    /\ \A u \in Unsettled \ {t} : Range(t.inputs) \cap Range(u.inputs) = {}
  BY DEF SentOnce, NoDoubleSpend
<1>1. Held(t) /\ t \in Tx /\ Fresh(t)
  BY HeldIsUnsettled DEF Once
<1>2. IsInjective(t.inputs)
  BY <1>1 DEF Fresh
<1>3. Range(t.inputs) \subseteq Live
  <2>1. Range(t.inputs) \subseteq Cell
    BY <1>1, RangeOfSeq DEF Tx
  <2>2. QED
    BY <1>1, <2>1 DEF Fresh, Live
<1>4. ASSUME NEW u \in Unsettled, u # t
      PROVE  Apart(t, u)
  <2>1. Held(u)
    BY HeldIsUnsettled
  <2>2. \A v, w : Apart(v, w) <=> Apart(w, v)
    BY ApartIsSymmetric
  <2>3. CASE t = tx
    BY <1>4, <2>1, <2>3 DEF Held, Once, AllApart, TxApart
  <2>4. CASE u = tx
    <3>1. Apart(u, t)
      BY <1>1, <1>4, <2>4 DEF Held, Once, AllApart, TxApart
    <3>2. QED
      BY <2>2, <3>1
  <2>5. ASSUME NEW r, NEW e, NEW i, InQueue(t, r, e, i)
        PROVE  Apart(t, u)
    <3>1. ASSUME NEW s, NEW f, NEW j, InQueue(u, s, f, j)
          PROVE  Apart(t, u)
      <4>1. (s = r /\ f = e /\ i = j) \/ Apart(t, u)
        BY <2>5, <3>1 DEF Once, AllApart, QueuesApart
      <4>2. QED
        BY <1>4, <2>5, <3>1, <4>1 DEF InQueue
    <3>2. ASSUME NEW s, NEW f, InHand(u, s, f)
          PROVE  Apart(t, u)
      BY <2>5, <3>2 DEF Once, AllApart, QueuesApart
    <3>3. ASSUME NEW f, InPool(u, f)
          PROVE  Apart(t, u)
      BY <2>5, <3>3 DEF Once, AllApart, QueuesApart
    <3>4. QED
      BY <2>1, <2>4, <3>1, <3>2, <3>3 DEF Held
  <2>6. ASSUME NEW r, NEW e, InHand(t, r, e)
        PROVE  Apart(t, u)
    <3>1. ASSUME NEW s, NEW f, NEW j, InQueue(u, s, f, j)
          PROVE  Apart(t, u)
      <4>1. Apart(u, t)
        BY <2>6, <3>1 DEF Once, AllApart, QueuesApart
      <4>2. QED
        BY <2>2, <4>1
    <3>2. ASSUME NEW s, NEW f, InHand(u, s, f)
          PROVE  Apart(t, u)
      <4>1. (s = r /\ f = e) \/ Apart(t, u)
        BY <2>6, <3>2 DEF Once, AllApart, HandsApart
      <4>2. QED
        BY <1>4, <2>6, <3>2, <4>1 DEF InHand
    <3>3. ASSUME NEW f, InPool(u, f)
          PROVE  Apart(t, u)
      BY <2>6, <3>3 DEF Once, AllApart, HandsApart
    <3>4. QED
      BY <2>1, <2>4, <3>1, <3>2, <3>3 DEF Held
  <2>7. ASSUME NEW e, InPool(t, e)
        PROVE  Apart(t, u)
    <3>1. ASSUME NEW s, NEW f, NEW j, InQueue(u, s, f, j)
          PROVE  Apart(t, u)
      <4>1. Apart(u, t)
        BY <2>7, <3>1 DEF Once, AllApart, QueuesApart
      <4>2. QED
        BY <2>2, <4>1
    <3>2. ASSUME NEW s, NEW f, InHand(u, s, f)
          PROVE  Apart(t, u)
      <4>1. Apart(u, t)
        BY <2>7, <3>2 DEF Once, AllApart, HandsApart
      <4>2. QED
        BY <2>2, <4>1
    <3>3. ASSUME NEW f, InPool(u, f)
          PROVE  Apart(t, u)
      BY <1>4, <2>7, <3>3 DEF Once, AllApart, PoolsApart
    <3>4. QED
      BY <2>1, <2>4, <3>1, <3>2, <3>3 DEF Held
  <2>8. QED
    BY <1>1, <2>3, <2>5, <2>6, <2>7 DEF Held
<1>5. QED
  BY <1>2, <1>3, <1>4 DEF Apart

(* As long as the chain is not re-organised, the program never sends two   *)
(* transactions that spend the same cell, nor one that spends it twice.    *)
THEOREM NothingIsSpentTwice == Spec => []NoDoubleSpend
<1>1. Init => TypeOK /\ Emptied /\ SentOnce
  BY InitType, InitEmptied, InitOnce
<1>2. TypeOK /\ Emptied /\ SentOnce /\ [Next]_vars => TypeOK' /\ Emptied' /\ SentOnce'
  BY NextType, NextEmptied, NextOnce
<1>3. TypeOK /\ SentOnce => NoDoubleSpend
  BY OnceIsNoDoubleSpend
<1>4. QED
  BY <1>1, <1>2, <1>3, PTL DEF Spec

-----------------------------------------------------------------------------
(* The fifth layer: as long as the chain is not re-organised, no cell is   *)
(* left behind.                                                            *)

Accounted(c) ==
  \/ c \in spent \cup lost
  \/ c > next
  \/ c \in Range(chan) \cup Range(inputs)
  \/ \E t : Held(t) /\ c \in Range(t.inputs)

Carried ==
  /\ pc # "emit" => tx = NoTx
  /\ ~ rolledBack => \A c \in Cell : Accounted(c)

LEMMA InitCarried == Init => Carried
BY DEF Init, Carried, Accounted, Cell

(* A step of an emitter or of a node: the cells of a transaction that goes *)
(* are spent, or counted as lost.                                          *)
LEMMA AccountedKept ==
  ASSUME \A c \in Cell : Accounted(c),
         UNCHANGED <<feed, next, chan, inputs>>,
         spent \subseteq spent', lost \subseteq lost',
         \A t : Held(t) => Held(t)' \/ Range(t.inputs) \subseteq spent' \cup lost'
  PROVE  \A c \in Cell' : Accounted(c)'
<1>1. Cell' = Cell
  BY DEF Cell
<1>2. ASSUME NEW c \in Cell
      PROVE  Accounted(c)'
  <2>1. CASE c \in spent \cup lost \/ c > next \/ c \in Range(chan) \cup Range(inputs)
    BY <2>1 DEF Accounted
  <2>2. ASSUME NEW t, Held(t), c \in Range(t.inputs)
        PROVE  Accounted(c)'
    <3>1. CASE Held(t)'
      BY <2>2, <3>1 DEF Accounted
    <3>2. CASE Range(t.inputs) \subseteq spent' \cup lost'
      BY <2>2, <3>2 DEF Accounted
    <3>3. QED
      BY <2>2, <3>1, <3>2
  <2>3. QED
    BY <2>1, <2>2 DEF Accounted
<1>3. QED
  BY <1>1, <1>2

(* The cell that bench takes is among the inputs, or in the transaction.   *)
LEMMA RecvCarried ==
  ASSUME TypeOK, Carried, Recv, UNCHANGED <<feed, pool, spent, rolledBack>>
  PROVE  Carried'
<1>1. PICK in \in Seq(Cell) :
        /\ in = Append(inputs, Head(chan))
        /\ \/ inputs' = in /\ UNCHANGED <<pc, tx>>
           \/ inputs' = <<>> /\ tx'.inputs = in /\ pc' = "emit"
  BY RecvBuilds
<1>2. /\ chan # <<>> /\ chan' = Tail(chan) /\ pc = "recv"
      /\ UNCHANGED <<queue, hand, next, lost>>
  BY DEF Recv, emitterVars
<1>3. tx = NoTx /\ Range(tx.inputs) = {}
  BY <1>2, NothingIsApart DEF Carried, Apart, NoTx
<1>4. /\ Range(chan) = {Head(chan)} \cup Range(chan')
      /\ Range(in) = Range(inputs) \cup {Head(chan)}
  <2>1. PICK k \in Nat, m \in Nat : k = Len(chan) /\ k > 0 /\ m = Len(inputs)
    BY <1>2, EmptySeq DEF TypeOK
  <2>2. /\ Head(chan) \in Cell /\ Tail(chan) \in Seq(Cell) /\ Head(chan) = chan[1]
        /\ Len(Tail(chan)) = k - 1
        /\ \A i \in 1..(k - 1) : Tail(chan)[i] = chan[i + 1]
    BY <1>2, <2>1, HeadTailProperties DEF TypeOK
  <2>3. /\ Range(chan) = {chan[i] : i \in 1..k}
        /\ Range(Tail(chan)) = {Tail(chan)[i] : i \in 1..(k - 1)}
        /\ Range(inputs) = {inputs[i] : i \in 1..m}
    <3>1. chan \in Seq(Cell) /\ Tail(chan) \in Seq(Cell) /\ inputs \in Seq(Cell)
      BY <2>2 DEF TypeOK
    <3>2. Range(chan) = {chan[i] : i \in 1..k}
      BY <2>1, <3>1, RangeEquality
    <3>3. Range(Tail(chan)) = {Tail(chan)[i] : i \in 1..(k - 1)}
      BY <2>2, <3>1, RangeEquality
    <3>4. Range(inputs) = {inputs[i] : i \in 1..m}
      BY <2>1, <3>1, RangeEquality
    <3>5. QED
      BY <3>2, <3>3, <3>4
  <2>4. \A i \in 1..k : i = 1 \/ (i - 1 \in 1..(k - 1) /\ i = (i - 1) + 1)
    BY <2>1
  <2>5. 1 \in 1..k /\ \A i \in 1..(k - 1) : i + 1 \in 1..k
    BY <2>1
  <2>6. Range(chan) \subseteq {Head(chan)} \cup Range(Tail(chan))
    <3>1. ASSUME NEW i \in 1..k
          PROVE  chan[i] \in {Head(chan)} \cup Range(Tail(chan))
      <4>1. CASE i = 1
        BY <2>2, <4>1
      <4>2. ASSUME NEW j \in 1..(k - 1), i = j + 1
            PROVE  chan[i] \in Range(Tail(chan))
        <5>1. chan[i] = Tail(chan)[j]
          BY <2>2, <4>2
        <5>2. QED
          BY <2>3, <5>1
      <4>3. QED
        BY <2>4, <4>1, <4>2
    <3>2. QED
      BY <2>3, <3>1
  <2>7. {Head(chan)} \cup Range(Tail(chan)) \subseteq Range(chan)
    BY <2>2, <2>3, <2>5
  <2>8. /\ Len(in) = m + 1 /\ \A i \in 1..m : in[i] = inputs[i]
        /\ in[m + 1] = Head(chan)
    BY <1>1, <2>1, <2>2, AppendProperties DEF TypeOK
  <2>9. Range(in) = {in[i] : i \in 1..(m + 1)}
    BY <2>8, RangeEquality
  <2>10. 1..(m + 1) = (1..m) \cup {m + 1}
    OBVIOUS
  <2>11. Range(in) = Range(inputs) \cup {Head(chan)}
    BY <2>3, <2>8, <2>9, <2>10
  <2>12. QED
    BY <1>2, <2>6, <2>7, <2>11
<1>5. \A t : Held(t) => t = NoTx \/ Held(t)'
  <2>1. \A t, r, e :
           /\ \A i : InQueue(t, r, e, i)' <=> InQueue(t, r, e, i)
           /\ InHand(t, r, e)' <=> InHand(t, r, e)
           /\ InPool(t, e)' <=> InPool(t, e)
    BY <1>2, NothingMoves
  <2>2. QED
    BY <1>3, <2>1 DEF Held
<1>6. Range(inputs) \cup {Head(chan)} \subseteq Range(inputs') \cup Range(tx'.inputs)
  BY <1>1, <1>4
<1>7. \A c \in Range(tx'.inputs) : \E t : Held(t)' /\ c \in Range(t.inputs)
  BY DEF Held
<1>8. ASSUME NEW c, Accounted(c)
      PROVE  Accounted(c)'
  <2>1. CASE c \in spent \cup lost \/ c > next
    BY <1>2, <2>1 DEF Accounted
  <2>2. CASE c \in Range(chan) \cup Range(inputs)
    BY <1>4, <1>6, <1>7, <2>2 DEF Accounted
  <2>3. ASSUME NEW t, Held(t), c \in Range(t.inputs)
        PROVE  Accounted(c)'
    BY <1>3, <1>5, <2>3 DEF Accounted
  <2>4. QED
    BY <1>8, <2>1, <2>2, <2>3 DEF Accounted
<1>9. pc' # "emit" => tx' = NoTx
  BY <1>1, <1>3
<1>10. Cell' = Cell
  BY DEF Cell
<1>11. QED
  BY <1>8, <1>9, <1>10 DEF Carried

LEMMA MainCarried == TypeOK /\ Emptied /\ Carried /\ Main => Carried'
<1> SUFFICES ASSUME TypeOK, Emptied, Carried, Main
             PROVE  Carried'
  OBVIOUS
<1>1. /\ UNCHANGED <<feed, pool, spent, fees, rolledBack>> /\ UNCHANGED nodeVars
      /\ Cell' = Cell
  BY DEF Main, nodeVars, Cell
<1>2. CASE Wait \/ Start \/ Notify
  <2>1. /\ UNCHANGED <<tx, inputs, queue, hand, chan, next, lost>>
        /\ pc # "emit" /\ pc' # "emit"
    BY <1>2 DEF Wait, Start, Notify, Return, Emptied, emitterVars, monitorVars
  <2>2. \A t : Held(t) => Held(t)'
    BY <1>1, <2>1, NothingMoves DEF Held
  <2>3. \A c : Accounted(c) => Accounted(c)'
    BY <1>1, <2>1, <2>2 DEF Accounted
  <2>4. QED
    BY <1>1, <2>1, <2>3 DEF Carried
<1>3. CASE Recv
  BY <1>1, <1>3, RecvCarried
<1>4. CASE Disconnected
  <2>1. /\ UNCHANGED <<tx, queue, hand, chan, next>>
        /\ lost' = lost \cup Range(inputs)
        /\ pc # "emit"
    BY <1>4 DEF Disconnected, emitterVars, monitorVars
  <2>2. \A t : Held(t) => Held(t)'
    BY <1>1, <2>1, NothingMoves DEF Held
  <2>3. \A c : Accounted(c) => Accounted(c)'
    BY <1>1, <2>1, <2>2 DEF Accounted
  <2>4. QED
    BY <1>1, <2>1, <2>3 DEF Carried
<1>5. CASE TryEmit
  <2>1. UNCHANGED <<inputs, chan, next, lost>>
    BY <1>5 DEF TryEmit, monitorVars
  <2>2. (pc' # "emit" => tx' = NoTx) /\ \A t : Held(t) => Held(t)'
    <3>1. CASE UNCHANGED <<queue, hand, pool, tx>>
      <4>1. \A t : Held(t) => Held(t)'
        BY <3>1, NothingMoves DEF Held
      <4>2. pc' # "emit" => tx' = NoTx
        BY <1>5 DEF TryEmit
      <4>3. QED
        BY <4>1, <4>2
    <3>2. CASE ~ UNCHANGED <<queue, hand, pool, tx>>
      <4>1. tx' = NoTx
        BY <1>1, <1>5, <3>2, TryEmitMoves
      <4>2. PICK r \in Run, e \in Endpoint : \A t, s, f :
              /\ \A i : InQueue(t, s, f, i)' <=>
                   \/ InQueue(t, s, f, i)
                   \/ s = r /\ f = e /\ i = Len(queue[r][e]) + 1 /\ t = tx
              /\ InHand(t, s, f)' <=> InHand(t, s, f)
              /\ InPool(t, f)' <=> InPool(t, f)
        BY <1>1, <1>5, <3>2, TryEmitMoves
      <4>3. PICK u, k : u = tx /\ k = Len(queue[r][e]) + 1
        OBVIOUS
      <4>4. InQueue(u, r, e, k)'
        <5>1. ASSUME NEW t, NEW i, i = Len(queue[r][e]) + 1, t = tx
              PROVE  InQueue(t, r, e, i)'
          BY <4>2, <5>1
        <5>2. QED
          BY <4>3, <5>1
      <4>5. Held(u)'
        BY <4>4 DEF Held
      <4>6. ASSUME NEW t, Held(t)
            PROVE  Held(t)'
        <5>1. CASE t = tx
          BY <4>3, <4>5, <5>1
        <5>2. CASE \E s, f, i : InQueue(t, s, f, i)
          BY <4>2, <5>2 DEF Held
        <5>3. CASE \E s, f : InHand(t, s, f)
          BY <4>2, <5>3 DEF Held
        <5>4. CASE \E f : InPool(t, f)
          BY <4>2, <5>4 DEF Held
        <5>5. QED
          BY <4>6, <5>1, <5>2, <5>3, <5>4 DEF Held
      <4>7. QED
        BY <4>1, <4>6
    <3>3. QED
      BY <3>1, <3>2
  <2>3. \A c : Accounted(c) => Accounted(c)'
    BY <1>1, <2>1, <2>2 DEF Accounted
  <2>4. QED
    BY <1>1, <2>2, <2>3 DEF Carried
<1>6. QED
  BY <1>2, <1>3, <1>4, <1>5 DEF Main

(* What an emitter takes it holds; what it submits the node accepts, since *)
(* no cell of it is spent or in another transaction of the pool.           *)
LEMMA EmitterCarried ==
  ASSUME TypeOK, Carried, ~ rolledBack, Once, NEW r \in Run, NEW e \in Endpoint,
         Emitter(r, e)
  PROVE  Carried'
<1>1. UNCHANGED <<pc, tx, inputs, chan, feed, next, spent, lost, rolledBack>>
  BY DEF Emitter, mainVars, monitorVars, faultVars
<1>2. CASE Take(r, e)
  <2>1. \A t, s, f :
          /\ \A i : InQueue(t, s, f, i)' <=>
               IF s = r /\ f = e THEN i \in Nat \ {0} /\ InQueue(t, r, e, i + 1)
                                 ELSE InQueue(t, s, f, i)
          /\ InHand(t, s, f)' <=>
               IF s = r /\ f = e THEN InQueue(t, r, e, 1) ELSE InHand(t, s, f)
          /\ InPool(t, f)' <=> InPool(t, f)
    BY <1>2, TakeMoves
  <2>2. ASSUME NEW t, NEW s, NEW f, NEW i, InQueue(t, s, f, i)
        PROVE  Held(t)'
    <3>1. CASE ~ (s = r /\ f = e)
      <4>1. InQueue(t, s, f, i)'
        BY <2>1, <2>2, <3>1
      <4>2. QED
        BY <4>1 DEF Held
    <3>2. CASE s = r /\ f = e /\ i = 1
      <4>1. InHand(t, r, e)'
        BY <2>1, <2>2, <3>2
      <4>2. QED
        BY <4>1 DEF Held
    <3>3. CASE s = r /\ f = e /\ i # 1
      <4>1. i \in 1..Len(queue[r][e]) /\ Len(queue[r][e]) \in Nat
        BY <2>2, <3>3 DEF InQueue, TypeOK
      <4>2. PICK j : j \in Nat \ {0} /\ i = j + 1
        <5>1. i - 1 \in Nat \ {0} /\ i = (i - 1) + 1
          BY <3>3, <4>1
        <5>2. QED
          BY <5>1
      <4>3. InQueue(t, r, e, j + 1)
        BY <2>2, <3>3, <4>2
      <4>4. InQueue(t, r, e, j)'
        BY <2>1, <4>2, <4>3
      <4>5. QED
        BY <4>4 DEF Held
    <3>4. QED
      BY <3>1, <3>2, <3>3
  <2>3. ASSUME NEW t, NEW s, NEW f, InHand(t, s, f)
        PROVE  Held(t)'
    <3>1. ~ (s = r /\ f = e)
      BY <1>2, <2>3, TakeMoves
    <3>2. InHand(t, s, f)'
      BY <2>1, <2>3, <3>1
    <3>3. QED
      BY <3>2 DEF Held
  <2>4. ASSUME NEW t, NEW f, InPool(t, f)
        PROVE  Held(t)'
    <3>1. InPool(t, f)'
      BY <2>1, <2>4
    <3>2. QED
      BY <3>1 DEF Held
  <2>5. \A t : Held(t) => Held(t)'
    <3>1. \A t : t = tx => Held(t)'
      BY <1>1 DEF Held
    <3>2. QED
      BY <2>2, <2>3, <2>4, <3>1 DEF Held
  <2>6. QED
    BY <1>1, <2>5, AccountedKept DEF Carried
<1>3. CASE Offer(r, e)
  <2>1. PICK h :
          /\ InHand(h, r, e) /\ ~ Again(h, e)
          /\ \A t, s, f :
               /\ \A i : InQueue(t, s, f, i)' <=> InQueue(t, s, f, i)
               /\ InHand(t, s, f)' <=> ~ (s = r /\ f = e) /\ InHand(t, s, f)
               /\ InPool(t, f)' <=> \/ InPool(t, f)
                                    \/ f = e /\ t = h /\ Valid(h, e)
    BY <1>3, OfferMoves
  <2>2. Valid(h, e)
    <3>1. Held(h)
      BY <2>1 DEF Held
    <3>2. h \in Tx /\ Fresh(h)
      BY <3>1, HeldIsUnsettled DEF Once
    <3>3. Range(h.inputs) \subseteq Cell
      BY <3>2, RangeOfSeq DEF Tx
    <3>4. Range(h.inputs) \subseteq Live
      BY <3>2, <3>3 DEF Fresh, Live
    <3>5. \A u : InPool(u, e) => Apart(h, u)
      BY <2>1 DEF Once, AllApart, HandsApart
    <3>6. \A u \in pool[e] : Range(u.inputs) \cap Range(h.inputs) = {}
      BY <3>5 DEF InPool, Apart
    <3>7. QED
      BY <3>2, <3>4, <3>6 DEF Valid, Fresh
  <2>3. \A t : t = tx => Held(t)'
    BY <1>1 DEF Held
  <2>4. \A t, s, f, i : InQueue(t, s, f, i) => Held(t)'
    BY <2>1 DEF Held
  <2>5. ASSUME NEW t, NEW s, NEW f, InHand(t, s, f)
        PROVE  Held(t)'
    <3>1. CASE s = r /\ f = e
      <4>1. t = h
        BY <2>1, <2>5, <3>1 DEF InHand
      <4>2. InPool(t, e)'
        BY <2>1, <2>2, <4>1
      <4>3. QED
        BY <4>2 DEF Held
    <3>2. CASE ~ (s = r /\ f = e)
      <4>1. InHand(t, s, f)'
        BY <2>1, <2>5, <3>2
      <4>2. QED
        BY <4>1 DEF Held
    <3>3. QED
      BY <3>1, <3>2
  <2>6. ASSUME NEW t, NEW f, InPool(t, f)
        PROVE  Held(t)'
    <3>1. InPool(t, f)'
      BY <2>1, <2>6
    <3>2. QED
      BY <3>1 DEF Held
  <2>7. \A t : Held(t) => Held(t)'
    BY <2>3, <2>4, <2>5, <2>6 DEF Held
  <2>8. QED
    BY <1>1, <2>7, AccountedKept DEF Carried
<1>4. QED
  BY <1>2, <1>3 DEF Emitter

(* A block: what leaves the pools has the inputs that are spent.           *)
LEMMA CommitCarried ==
  ASSUME TypeOK, Carried, ~ rolledBack, Once, NEW e \in Endpoint, Commit(e)
  PROVE  Carried'
<1>1. PICK t :
        /\ InPool(t, e)
        /\ spent' = spent \cup Range(t.inputs)
        /\ feed' = feed \o t.outputs
        /\ UNCHANGED <<mainVars, metrics, emitterVars, monitorVars, faultVars>>
        /\ \A u, r, f :
             /\ \A i : InQueue(u, r, f, i)' <=> InQueue(u, r, f, i)
             /\ InHand(u, r, f)' <=> InHand(u, r, f)
             /\ InPool(u, f)' <=> /\ InPool(u, f)
                                  /\ Range(u.inputs) \cap Range(t.inputs) = {}
  BY CommitMoves
<1>2. UNCHANGED <<pc, tx, inputs, chan, next, lost, rolledBack>>
  BY <1>1 DEF mainVars, monitorVars, faultVars
<1>3. ASSUME NEW u, Held(u)
      PROVE  Held(u)' \/ Range(u.inputs) \subseteq spent'
  <2>1. CASE u = tx
    BY <1>2, <2>1 DEF Held
  <2>2. CASE \E r, f, i : InQueue(u, r, f, i)
    BY <1>1, <2>2 DEF Held
  <2>3. CASE \E r, f : InHand(u, r, f)
    BY <1>1, <2>3 DEF Held
  <2>4. ASSUME NEW f, InPool(u, f)
        PROVE  Held(u)' \/ Range(u.inputs) \subseteq spent'
    <3>1. u = t \/ Apart(u, t)
      BY <1>1, <2>4 DEF Once, AllApart, PoolsApart
    <3>2. CASE u = t
      BY <1>1, <3>2
    <3>3. CASE Apart(u, t)
      <4>1. InPool(u, f)'
        BY <1>1, <2>4, <3>3 DEF Apart
      <4>2. QED
        BY <4>1 DEF Held
    <3>4. QED
      BY <3>1, <3>2, <3>3
  <2>5. QED
    BY <1>3, <2>1, <2>2, <2>3, <2>4 DEF Held
<1>4. ASSUME NEW c \in Cell
      PROVE  Accounted(c)'
  <2>1. Accounted(c)
    BY DEF Carried
  <2>2. CASE c \in spent \cup lost \/ c > next \/ c \in Range(chan) \cup Range(inputs)
    BY <1>1, <1>2, <2>2 DEF Accounted
  <2>3. ASSUME NEW u, Held(u), c \in Range(u.inputs)
        PROVE  Accounted(c)'
    BY <1>3, <2>3 DEF Accounted
  <2>4. QED
    BY <2>1, <2>2, <2>3 DEF Accounted
<1>5. ASSUME NEW c \in Cell', c \notin Cell
      PROVE  Accounted(c)'
  <2>1. PICK out \in Seq(Nat) : out = t.outputs
    <3>1. t \in Tx
      BY <1>1, HeldIsUnsettled DEF Held
    <3>2. QED
      BY <3>1 DEF Tx
  <2>2. Len(feed) \in Nat /\ next \in Nat /\ next <= Len(feed)
    BY DEF TypeOK
  <2>3. Len(feed') \in Nat
    <3>1. feed \o out \in Seq(Nat)
      BY ConcatProperties DEF TypeOK
    <3>2. QED
      BY <1>1, <2>1, <3>1
  <2>4. c \in Nat /\ c > Len(feed)
    BY <1>5, <2>2, <2>3 DEF Cell
  <2>5. c > next'
    BY <1>2, <2>2, <2>4
  <2>6. QED
    BY <2>5 DEF Accounted
<1>6. QED
  BY <1>2, <1>4, <1>5 DEF Carried

(* The next cell is in the channel.                                        *)
LEMMA DeliverCarried ==
  ASSUME TypeOK, Carried, ~ rolledBack, Deliver
  PROVE  Carried'
<1>1. /\ chan' = Append(chan, next + 1) /\ next' = next + 1 /\ next + 1 \in Cell
      /\ UNCHANGED <<pc, tx, inputs, feed, spent, lost, rolledBack, queue, hand, pool>>
  BY DEF Deliver, mainVars, emitterVars, nodeVars, faultVars, TypeOK, Cell
<1>2. Range(chan') = Range(chan) \cup {next + 1}
  <2>1. PICK m : m = next + 1 /\ m \in Cell
    BY <1>1
  <2>2. PICK k \in Nat, q \in Seq(Cell) : k = Len(chan) /\ q = chan
    BY DEF TypeOK
  <2>3. PICK p \in Seq(Cell) : /\ p = Append(q, m) /\ Len(p) = k + 1
                               /\ \A i \in 1..k : p[i] = q[i]
                               /\ p[k + 1] = m
    BY <2>1, <2>2, AppendProperties
  <2>4. Range(p) = {p[i] : i \in 1..(k + 1)} /\ Range(q) = {q[i] : i \in 1..k}
    <3>1. Range(p) = {p[i] : i \in 1..Len(p)}
      BY RangeEquality
    <3>2. Range(q) = {q[i] : i \in 1..Len(q)}
      BY RangeEquality
    <3>3. Len(p) = k + 1 /\ Len(q) = k
      BY <2>2, <2>3
    <3>4. QED
      BY <3>1, <3>2, <3>3
  <2>5. 1..(k + 1) = (1..k) \cup {k + 1}
    OBVIOUS
  <2>6. Range(p) = Range(q) \cup {m}
    BY <2>3, <2>4, <2>5
  <2>7. QED
    BY <1>1, <2>1, <2>2, <2>3, <2>6
<1>3. \A t : Held(t) => Held(t)'
  BY <1>1, NothingMoves DEF Held
<1>4. ASSUME NEW c \in Cell
      PROVE  Accounted(c)'
  <2>1. Accounted(c)
    BY DEF Carried
  <2>2. CASE c > next
    <3>1. c = next + 1 \/ c > next + 1
      BY <2>2 DEF TypeOK, Cell
    <3>2. QED
      BY <1>1, <1>2, <3>1 DEF Accounted
  <2>3. CASE ~ (c > next)
    BY <1>1, <1>2, <1>3, <2>1, <2>3 DEF Accounted
  <2>4. QED
    BY <2>2, <2>3
<1>5. Cell' = Cell
  BY <1>1 DEF Cell
<1>6. QED
  BY <1>1, <1>4, <1>5 DEF Carried

LEMMA LostCarried ==
  ASSUME TypeOK, Carried, ~ rolledBack, NEW r \in Run, NEW e \in Endpoint,
         LostInTransit(r, e) \/ LostByNode(e)
  PROVE  Carried'
<1>1. UNCHANGED <<pc, tx, inputs, chan, feed, next, spent, rolledBack>>
  BY LostMoves DEF mainVars, monitorVars
<1>2. PICK t :
        /\ lost' = lost \cup Range(t.inputs)
        /\ \A u, s, f :
             /\ \A i : InQueue(u, s, f, i)' <=> InQueue(u, s, f, i)
             /\ InHand(u, s, f) => InHand(u, s, f)' \/ u = t
             /\ InPool(u, f) => InPool(u, f)' \/ u = t
  BY LostMoves
<1>3. ASSUME NEW u, Held(u)
      PROVE  Held(u)' \/ Range(u.inputs) \subseteq spent' \cup lost'
  <2>1. CASE u = tx
    BY <1>1, <2>1 DEF Held
  <2>2. CASE \E s, f, i : InQueue(u, s, f, i)
    BY <1>2, <2>2 DEF Held
  <2>3. CASE \E s, f : InHand(u, s, f)
    BY <1>2, <2>3 DEF Held
  <2>4. CASE \E f : InPool(u, f)
    BY <1>2, <2>4 DEF Held
  <2>5. QED
    BY <1>3, <2>1, <2>2, <2>3, <2>4 DEF Held
<1>4. \A c \in Cell' : Accounted(c)'
  <2>1. lost \subseteq lost' /\ spent \subseteq spent'
    BY <1>1, <1>2
  <2>2. QED
    BY <1>1, <1>3, <2>1, AccountedKept DEF Carried
<1>5. QED
  BY <1>1, <1>4 DEF Carried

LEMMA NextCarried ==
  TypeOK /\ Emptied /\ SentOnce /\ Carried /\ [Next]_vars => Carried'
<1> SUFFICES ASSUME TypeOK, Emptied, SentOnce, Carried, [Next]_vars
             PROVE  Carried'
  OBVIOUS
<1>1. CASE Main
  BY <1>1, MainCarried
<1>2. ASSUME UNCHANGED <<tx, pc, inputs, queue, hand, pool, chan, feed, next, spent, lost,
                         rolledBack>>
      PROVE  Carried'
  <2>1. \A t : Held(t) => Held(t)'
    BY <1>2, NothingMoves DEF Held
  <2>2. \A c : Accounted(c) => Accounted(c)'
    BY <1>2, <2>1 DEF Accounted
  <2>3. QED
    BY <1>2, <2>2 DEF Carried, Cell
<1>3. CASE UNCHANGED vars \/ Measured \/ MonitorPanics \/ MeasurePanics
  BY <1>2, <1>3 DEF vars, Measured, MonitorPanics, MeasurePanics, mainVars, emitterVars,
     monitorVars, nodeVars, faultVars
<1>4. CASE RollBack
  BY <1>4 DEF RollBack, Carried, mainVars
<1>5. CASE rolledBack /\ ~ Main /\ ~ RollBack
  <2>1. UNCHANGED <<pc, tx, rolledBack>>
    BY <1>5 DEF Next, vars, faultVars, mainVars, Measured, Emitter, Deliver, Commit, Fault,
       LostInTransit, LostByNode, MonitorPanics, MeasurePanics
  <2>2. QED
    BY <1>5, <2>1 DEF Carried
<1>6. CASE ~ rolledBack /\ ~ Main /\ ~ RollBack
  <2>1. Once
    BY <1>6 DEF SentOnce
  <2>2. ASSUME NEW e \in Endpoint, LostByNode(e)
        PROVE  Carried'
    <3>1. PICK r : r \in Run
      BY <2>2 DEF LostByNode, Fails, TypeOK
    <3>2. QED
      BY <1>6, <2>2, <3>1, LostCarried
  <2>3. CASE Fault
    BY <1>3, <1>6, <2>2, <2>3, LostCarried DEF Fault
  <2>4. QED
    BY <1>3, <1>6, <2>1, <2>3, EmitterCarried, CommitCarried, DeliverCarried DEF Next
<1>7. QED
  BY <1>1, <1>4, <1>5, <1>6

(* As long as the chain is not re-organised, every live cell is on its way *)
(* to be spent, but those of a lost transaction or of a bench that lost    *)
(* the chain monitor: none stays in a queue of a benchmark that is over or *)
(* goes with a transaction that the program wrongly drops.                 *)
THEOREM NoCellIsStranded == Spec => []NoneStranded
<1>1. Init => TypeOK /\ Emptied /\ SentOnce /\ Carried
  BY InitType, InitEmptied, InitOnce, InitCarried
<1>2. TypeOK /\ Emptied /\ SentOnce /\ Carried /\ [Next]_vars
        => TypeOK' /\ Emptied' /\ SentOnce' /\ Carried'
  BY NextType, NextEmptied, NextOnce, NextCarried
<1>3. TypeOK /\ Carried => NoneStranded
  <2>1. SUFFICES ASSUME TypeOK, Carried, ~ rolledBack, NEW c \in Stranded
                 PROVE  c \in lost
    BY DEF NoneStranded
  <2>2. c \in Cell /\ c \notin spent /\ ~ InFlight(c)
    BY DEF Stranded, Live
  <2>3. \A t : Held(t) <=> t \in Unsettled
    BY <2>1, HeldIsUnsettled
  <2>4. ~ (\E t : Held(t) /\ c \in Range(t.inputs))
    <3>1. \A t \in Unsettled : c \notin Range(t.inputs)
      BY <2>2 DEF InFlight
    <3>2. QED
      BY <2>3, <3>1
  <2>5. Accounted(c)
    BY <2>1, <2>2 DEF Carried
  <2>6. ~ (c > next) /\ c \notin Range(chan) \cup Range(inputs)
    BY <2>2 DEF InFlight
  <2>7. QED
    BY <2>2, <2>4, <2>5, <2>6 DEF Accounted
<1>4. QED
  BY <1>1, <1>2, <1>3, PTL DEF Spec

=============================================================================
