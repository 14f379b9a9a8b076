-------------------------- MODULE NetMonitorProofs --------------------------
(***************************************************************************)
(* What the network monitor relies on, for every number of endpoints,      *)
(* every height, every confirmation and every depth of re-organisation up  *)
(* to it, and every method.  The inductive invariant has five layers, each *)
(* proved inductive relative to those before it:                           *)
(*   Shape    the types, and which method is where;                        *)
(*   Shared   the confirmed tip and the queued blocks are settled on the   *)
(*            main chain of every endpoint;                                *)
(*   Floor    a scan for the tip does not fall below what the endpoints    *)
(*            have agreed on, but for ReorgDepth blocks;                   *)
(*   Ranges   what follows for the blocks that are measured;               *)
(*   Summed   what has been added up of them.                              *)
(***************************************************************************)
EXTENDS NetMonitor, CkbNodesProofs, Sums

-----------------------------------------------------------------------------
(* The first layer                                                         *)

Scanning == pc \in {"scan", "compare"}

Calling == pc \in {"tip", "scan", "compare"}

(* The thread is at a label, or calls get_confirmed_tip_header from there. *)
At(label) == pc = label \/ (Calling /\ back = label)

Roles ==
  /\ At("warmup") \/ At("begin") \/ At("elapse") => method.name = "elapsed"
  /\ At("over") \/ pc = "timer" => method.name = "timed"
  /\ At("queue") \/ pc \in {"pull", "judge"} => method.name = "nearly"
  /\ Calling /\ back # "start" => tip # <<>>

Shape ==
  /\ TypeOK
  /\ Chains
  /\ Roles
  /\ pc = "compare" => Len(probe) = number + 1 /\ asked > 0
  /\ \A i \in 1..Len(queue) : Len(queue[i]) > 0
  /\ At("queue") \/ pc = "pull" => queue # <<>>

(* The number of a header.                                                 *)
LEMMA NumberOf ==
  ASSUME NEW h \in Header, h # <<>>
  PROVE  Number(h) \in Nat /\ Len(h) = Number(h) + 1 /\ Len(h) > 0
BY DEF Header, Number

(* The fields of the method, and the constants.                            *)
LEMMA Parameters ==
  ASSUME TypeOK
  PROVE  /\ method.name \in {"elapsed", "nearly", "timed", "metric"}
         /\ method.warmup \in Nat /\ method.window \in Nat /\ method.margin \in Nat
         /\ ReorgDepth \in Nat /\ Confirmation \in Nat /\ ReorgDepth <= Confirmation
         /\ ConfirmationBlocks \in Nat
         /\ 1 \in Endpoint /\ NE \in Nat
<1>1. method \in Method
  BY MonitorAssumption DEF TypeOK
<1>2. QED
  BY <1>1, MonitorAssumption, NodesAssumption DEF Method, ConfirmationBlocks, Endpoint

(* A header that a node returns.                                           *)
LEMMA ReadHeader ==
  ASSUME Chains, NEW e \in Endpoint, NEW n \in Nat, HasHeader(e, n)
  PROVE  /\ HeaderByNumber(e, n) \in Header
         /\ Len(HeaderByNumber(e, n)) = n + 1
         /\ Number(HeaderByNumber(e, n)) = n
         /\ HeaderByNumber(e, n) # <<>>
<1>1. chain[e] \in Header /\ n < Len(chain[e])
  BY DEF Chains, HasHeader
<1>2. HeaderByNumber(e, n) \in Header /\ Len(HeaderByNumber(e, n)) = n + 1
  BY <1>1, AncestorProperties DEF HeaderByNumber
<1>3. QED
  BY <1>2 DEF Number, Header

(* Its body has a number of transactions.                                  *)
LEMMA CountOf ==
  ASSUME NEW h \in Header, h # <<>>
  PROVE  TxCount[Body(h)] \in Nat
<1>1. Len(h) \in 1..Len(h)
  BY NumberOf
<1>2. h[Len(h)] \in Block
  BY <1>1, ElementOfSeq DEF Header
<1>3. QED
  BY <1>2, MonitorAssumption DEF Body

(* The end of a sequence.                                                  *)
LEMMA EndOfSeq ==
  ASSUME NEW S, NEW s \in Seq(S), NEW k \in Nat, k > 0, NEW l \in Nat, l = Len(s)
  PROVE  /\ SubSeq(s, k, l) \in Seq(S)
         /\ Len(SubSeq(s, k, l)) = IF k <= l THEN l - k + 1 ELSE 0
         /\ \A i \in 1..(l - k + 1) : SubSeq(s, k, l)[i] = s[k + i - 1]
<1>1. \A i \in k..l : s[i] \in S
  BY ElementOfSeq
<1>2. k \in Int /\ l \in Int
  OBVIOUS
<1>3. QED
  BY <1>1, <1>2, SubSeqProperties

(* What is left of the queue when room is made in it: all but its first k. *)
LEMMA RoomIsMade ==
  ASSUME TypeOK, NEW s \in Seq(Header)
  PROVE  /\ MakeRoom(s) \in Seq(Header)
         /\ Len(s) < method.window => MakeRoom(s) = s
         /\ method.window > 0 /\ Len(s) >= method.window =>
              Len(MakeRoom(s)) = method.window - 1
         /\ \E k \in 0..Len(s) :
              /\ Len(MakeRoom(s)) = Len(s) - k
              /\ \A i \in 1..Len(MakeRoom(s)) : i + k \in 1..Len(s) /\ MakeRoom(s)[i] = s[i + k]
<1>1. PICK l \in Nat, w \in Nat : l = Len(s) /\ w = method.window
  BY Parameters
<1>2. CASE l < w
  <2>1. MakeRoom(s) = s
    BY <1>1, <1>2 DEF MakeRoom
  <2>2. \A i \in 1..Len(s) : i + 0 \in 1..Len(s) /\ s[i] = s[i + 0]
    OBVIOUS
  <2>3. 0 \in 0..Len(s) /\ Len(s) = Len(s) - 0
    BY <1>1
  <2>4. QED
    BY <1>1, <1>2, <2>1, <2>2, <2>3
<1>3. CASE l >= w /\ w > 0
  <2>1. PICK k \in Nat : k > 0 /\ k = l - w + 2
    BY <1>3
  <2>2. MakeRoom(s) = SubSeq(s, k, l)
    <3>1. ~ (Len(s) < method.window) /\ k = Len(s) - method.window + 2
      BY <1>1, <1>3, <2>1
    <3>2. QED
      BY <1>1, <3>1, Zenon DEF MakeRoom
  <2>3. /\ SubSeq(s, k, l) \in Seq(Header)
        /\ Len(SubSeq(s, k, l)) = IF k <= l THEN l - k + 1 ELSE 0
        /\ \A i \in 1..(l - k + 1) : SubSeq(s, k, l)[i] = s[k + i - 1]
    <3>1. s \in Seq(Header) /\ k > 0 /\ l = Len(s)
      BY <1>1, <2>1
    <3>2. QED
      BY <3>1, EndOfSeq
  <2>4. (IF k <= l THEN l - k + 1 ELSE 0) = w - 1 /\ l - k + 1 = w - 1
    <3>1. \A m, n \in Nat : n > 0 /\ m >= n =>
            /\ (IF m - n + 2 <= m THEN m - (m - n + 2) + 1 ELSE 0) = n - 1
            /\ m - (m - n + 2) + 1 = n - 1
      OBVIOUS
    <3>2. QED
      BY <1>1, <1>3, <2>1, <3>1
  <2>5. \A i \in 1..(w - 1) : i + (k - 1) \in 1..l /\ k + i - 1 = i + (k - 1)
    <3>1. \A m, n, i \in Nat : n > 0 /\ m >= n /\ i >= 1 /\ i <= n - 1 =>
            /\ i + ((m - n + 2) - 1) \in 1..m
            /\ (m - n + 2) + i - 1 = i + ((m - n + 2) - 1)
      OBVIOUS
    <3>2. \A i \in 1..(w - 1) : i \in Nat /\ i >= 1 /\ i <= w - 1
      BY <1>1
    <3>3. \A i \in 1..(w - 1) : /\ i + ((l - w + 2) - 1) \in 1..l
                                /\ (l - w + 2) + i - 1 = i + ((l - w + 2) - 1)
      BY <1>1, <1>3, <3>1, <3>2
    <3>4. QED
      BY <2>1, <3>3
  <2>6. k - 1 \in 0..l /\ w - 1 = l - (k - 1)
    BY <1>1, <1>3, <2>1
  <2>7. Len(MakeRoom(s)) = w - 1 /\ MakeRoom(s) \in Seq(Header)
    BY <2>2, <2>3, <2>4
  <2>8. \A i \in 1..(w - 1) : MakeRoom(s)[i] = s[i + (k - 1)]
    BY <2>2, <2>3, <2>4, <2>5
  <2>9. PICK j \in 0..l : j = k - 1
    BY <2>6
  <2>10. /\ Len(MakeRoom(s)) = l - j
         /\ \A i \in 1..(w - 1) : i + j \in 1..l /\ MakeRoom(s)[i] = s[i + j]
    BY <2>5, <2>6, <2>7, <2>8, <2>9
  <2>11. \E n \in 0..Len(s) :
           /\ Len(MakeRoom(s)) = Len(s) - n
           /\ \A i \in 1..Len(MakeRoom(s)) : i + n \in 1..Len(s) /\ MakeRoom(s)[i] = s[i + n]
    BY <1>1, <2>7, <2>10
  <2>12. QED
    BY <1>1, <1>3, <2>7, <2>11
<1>4. CASE w = 0
  <2>1. PICK k \in Nat : k > l /\ k = l - w + 2
    BY <1>1, <1>4
  <2>2. MakeRoom(s) = SubSeq(s, k, l)
    <3>1. ~ (Len(s) < method.window) /\ k = Len(s) - method.window + 2
      BY <1>1, <1>4, <2>1
    <3>2. QED
      BY <1>1, <3>1, Zenon DEF MakeRoom
  <2>3. MakeRoom(s) \in Seq(Header) /\ Len(MakeRoom(s)) = 0
    <3>1. s \in Seq(Header) /\ k > 0 /\ l = Len(s)
      BY <1>1, <2>1
    <3>2. /\ SubSeq(s, k, l) \in Seq(Header)
          /\ Len(SubSeq(s, k, l)) = IF k <= l THEN l - k + 1 ELSE 0
      BY <3>1, EndOfSeq
    <3>3. QED
      BY <2>1, <2>2, <3>2
  <2>4. \E n \in 0..Len(s) :
          /\ Len(MakeRoom(s)) = Len(s) - n
          /\ \A i \in 1..Len(MakeRoom(s)) : i + n \in 1..Len(s) /\ MakeRoom(s)[i] = s[i + n]
    <3>1. l \in 0..Len(s) /\ Len(s) - l = 0
      BY <1>1
    <3>2. QED
      BY <1>1, <2>3, <3>1
  <2>5. QED
    BY <1>1, <1>4, <2>3, <2>4
<1>5. QED
  BY <1>1, <1>2, <1>3, <1>4

(* Initially the first layer holds.                                        *)
LEMMA InitShape == Init => Shape
<1> SUFFICES ASSUME Init
             PROVE  Shape
  OBVIOUS
<1>1. Chains
  BY InitChains DEF Init
<1>2. <<>> \in Header /\ <<>> \in Seq(Header)
  BY DEF Header
<1>3. 0 \in 0..NE
  BY NodesAssumption
<1>4. TypeOK
  BY <1>1, <1>2, <1>3 DEF Init, TypeOK, Chains
<1>5. QED
  BY <1>1, <1>4 DEF Init, Shape, Roles, At, Calling

(* Every step of get_confirmed_tip_header keeps it.                        *)
LEMMA TipShape ==
  Shape /\ ConfirmedTip /\ UNCHANGED <<back, evalVars, waitVars, chain, method>>
    => Shape'
<1> SUFFICES ASSUME Shape, ConfirmedTip,
                    UNCHANGED <<back, evalVars, waitVars, chain, method>>
             PROVE  Shape'
  OBVIOUS
<1> USE DEF Shape, TypeOK, Chains, evalVars, waitVars
<1>0. 1 \in Endpoint /\ NE \in Nat /\ NE > 0 /\ ConfirmationBlocks \in Nat
  BY Parameters, NodesAssumption
<1>1. CASE GetTip
  <2>1. Number(chain[1]) \in Nat
    BY <1>0, NumberOf
  <2>2. begun' \in Nat
    BY <1>1, <2>1 DEF GetTip
  <2>3. QED
    BY <1>1, <2>1, <2>2 DEF GetTip, Roles, At, Calling
<1>2. ASSUME NextNumber, pc \in {"scan", "compare"}, UNCHANGED <<tip, begun>>
      PROVE  Shape'
  <2>1. probe' \in Header /\ asked' \in 0..NE
    BY <1>0, <1>2 DEF NextNumber, Header
  <2>2. number' \in Nat
    BY <1>2 DEF NextNumber
  <2>3. pc' \in {"scan", "panicked"}
    BY <1>2 DEF NextNumber
  <2>4. QED
    BY <1>2, <2>1, <2>2, <2>3 DEF Roles, At, Calling
<1>3. CASE ScanHeader
  <2>1. CASE HasHeader(1, number)
    <3>1. probe' \in Header /\ Len(probe') = number + 1
      BY <1>0, <1>3, <2>1, ReadHeader DEF ScanHeader
    <3>2. QED
      BY <1>0, <1>3, <2>1, <3>1 DEF ScanHeader, Roles, At, Calling
  <2>2. CASE ~ HasHeader(1, number)
    BY <1>2, <1>3, <2>2 DEF ScanHeader
  <2>3. QED
    BY <2>1, <2>2
<1>4. CASE Compare
  <2>1. CASE SameHeader(asked + 1)
    BY <1>0, <1>4, <2>1 DEF Compare, Roles, At, Calling
  <2>2. CASE ~ SameHeader(asked + 1)
    BY <1>2, <1>4, <2>2 DEF Compare
  <2>3. QED
    BY <2>1, <2>2
<1>5. CASE Confirm
  <2>1. Confirmed(number) \in Nat
    BY <1>0 DEF Confirmed
  <2>2. probe' \in Header /\ asked' \in 0..NE /\ number' \in Nat
    BY <1>0, <1>5 DEF Confirm, Header
  <2>3. tip' \in Header /\ (pc' # "panicked" => tip' # <<>> /\ pc' = back)
    BY <1>0, <1>5, <2>1, ReadHeader DEF Confirm
  <2>4. pc' \in {back, "panicked"}
    BY <1>5 DEF Confirm
  <2>5. QED
    BY <1>5, <2>2, <2>3, <2>4 DEF Confirm, Roles, At, Calling
<1>6. QED
  BY <1>1, <1>3, <1>4, <1>5 DEF ConfirmedTip

(* The queue with one more block.                                          *)
LEMMA QueueGrows ==
  ASSUME Shape, pc = "pull", HasHeader(1, NextToQueue)
  PROVE  LET h == HeaderByNumber(1, NextToQueue)
             q == Append(MakeRoom(queue), h)
         IN  /\ Last(queue) \in Header /\ Len(Last(queue)) > 0
             /\ NextToQueue \in Nat /\ NextToQueue = Number(Last(queue)) + 1
             /\ h \in Header /\ h # <<>> /\ Number(h) = NextToQueue
             /\ q \in Seq(Header)
             /\ Len(q) = Len(MakeRoom(queue)) + 1
             /\ \A i \in 1..Len(q) : Len(q[i]) > 0
             /\ Last(q) = h
<1> DEFINE h == HeaderByNumber(1, NextToQueue)
           q == Append(MakeRoom(queue), h)
<1>1. Len(queue) \in 1..Len(queue) /\ queue \in Seq(Header)
  BY EmptySeq DEF Shape, TypeOK
<1>2. Last(queue) \in Header /\ Len(Last(queue)) > 0
  BY <1>1, ElementOfSeq DEF Shape, Last
<1>3. NextToQueue \in Nat /\ NextToQueue = Number(Last(queue)) + 1
  BY <1>2, NumberOf DEF NextToQueue, Header, Number
<1>4. h \in Header /\ h # <<>> /\ Number(h) = NextToQueue /\ Len(h) > 0
  BY <1>3, ReadHeader, Parameters, NumberOf DEF Shape
<1>5. /\ MakeRoom(queue) \in Seq(Header)
      /\ \A i \in 1..Len(MakeRoom(queue)) : Len(MakeRoom(queue)[i]) > 0
  <2>1. \A i \in 1..Len(MakeRoom(queue)) :
          \E j \in 1..Len(queue) : MakeRoom(queue)[i] = queue[j]
    BY <1>1, RoomIsMade DEF Shape
  <2>2. MakeRoom(queue) \in Seq(Header)
    BY <1>1, RoomIsMade DEF Shape
  <2>3. QED
    BY <1>1, <2>1, <2>2 DEF Shape
<1>6. /\ q \in Seq(Header)
      /\ Len(q) = Len(MakeRoom(queue)) + 1
      /\ \A i \in 1..Len(MakeRoom(queue)) : q[i] = MakeRoom(queue)[i]
      /\ q[Len(MakeRoom(queue)) + 1] = h
  BY <1>4, <1>5, AppendProperties
<1>7. \A i \in 1..Len(q) : Len(q[i]) > 0
  BY <1>4, <1>5, <1>6
<1>8. QED
  BY <1>2, <1>3, <1>4, <1>6, <1>7 DEF Last

(* What is between the ends of a sequence.                                 *)
LEMMA Inside ==
  ASSUME NEW S, NEW q \in Seq(S), Len(q) > 1
  PROVE  /\ SubSeq(q, 2, Len(q) - 1) \in Seq(S)
         /\ Len(SubSeq(q, 2, Len(q) - 1)) = Len(q) - 2
         /\ \A i \in 1..(Len(q) - 2) : SubSeq(q, 2, Len(q) - 1)[i] = q[i + 1]
<1>1. PICK l \in Nat : l = Len(q) /\ l > 1
  OBVIOUS
<1>2. \A i \in 2..(l - 1) : q[i] \in S
  BY <1>1, ElementOfSeq
<1>3. /\ SubSeq(q, 2, l - 1) \in Seq(S)
      /\ Len(SubSeq(q, 2, l - 1)) = IF 2 <= l - 1 THEN (l - 1) - 2 + 1 ELSE 0
      /\ \A i \in 1..((l - 1) - 2 + 1) : SubSeq(q, 2, l - 1)[i] = q[2 + i - 1]
  BY <1>1, <1>2, SubSeqProperties
<1>4. /\ (IF 2 <= l - 1 THEN (l - 1) - 2 + 1 ELSE 0) = l - 2
      /\ (l - 1) - 2 + 1 = l - 2
  BY <1>1
<1>5. \A i \in 1..(l - 2) : 2 + i - 1 = i + 1
  BY <1>1
<1>6. QED
  BY <1>1, <1>3, <1>4, <1>5

(* Every step of the methods keeps the first layer.                        *)
LEMMA MeasuringShape ==
  Shape /\ Measuring /\ UNCHANGED <<scanVars, chain, method>> => Shape'
<1> SUFFICES ASSUME Shape, Measuring, UNCHANGED <<scanVars, chain, method>>
             PROVE  Shape'
  OBVIOUS
<1> USE DEF Shape, TypeOK, Chains, scanVars, evalVars, waitVars
<1>0. /\ 1 \in Endpoint
      /\ method.warmup \in Nat /\ method.window \in Nat
      /\ method.name \in {"elapsed", "nearly", "timed", "metric"}
  BY Parameters
<1>a. pc \notin {"tip", "scan", "compare", "panicked"} => Number(tip) \in Nat
  BY NumberOf
<1>1. CASE StartWarmup
  <2>1. target' \in Nat
    BY <1>0, <1>1, <1>a DEF StartWarmup, WarmupEnd
  <2>2. QED
    BY <1>1, <2>1 DEF StartWarmup, Call, Roles, At, Calling
<1>2. CASE Warm
  <2>1. back' \in {"begin", "warmup"} /\ pc' = "tip"
    BY <1>2 DEF Warm, Call
  <2>2. method.name = "elapsed"
    BY <1>2 DEF Warm, Roles, At
  <2>3. QED
    BY <1>2, <2>1, <2>2 DEF Warm, Roles, At, Calling
<1>3. CASE Begin
  <2>1. from' \in Nat /\ target' \in Nat
    BY <1>0, <1>3, <1>a DEF Begin
  <2>2. QED
    BY <1>3, <2>1 DEF Begin, Call, Roles, At, Calling
<1>4. CASE Elapse
  <2>1. CASE Reached
    BY <1>4, <2>1 DEF Elapse, Eval, WindowEnd, Roles, At, Calling
  <2>2. CASE ~ Reached
    BY <1>4, <2>2 DEF Elapse, Call, Roles, At, Calling
  <2>3. QED
    BY <2>1, <2>2
<1>5. CASE StartTimer
  BY <1>5, <1>a DEF StartTimer, Roles, At, Calling
<1>6. CASE TimeIsOver
  BY <1>6 DEF TimeIsOver, Call, Roles, At, Calling
<1>7. CASE Over
  BY <1>7, <1>a DEF Over, Eval, Roles, At, Calling
<1>8. CASE MetricMode
  BY <1>8, <1>a DEF MetricMode, Eval, Roles, At, Calling
<1>9. CASE StartQueue
  <2>1. CASE HasBlock(1, tip)
    <3>1. queue' = <<tip>> /\ tip \in Header /\ Len(tip) > 0
      BY <1>9, <2>1, NumberOf DEF StartQueue
    <3>2. QED
      BY <1>9, <2>1, <3>1 DEF StartQueue, Call, Roles, At, Calling
  <2>2. CASE ~ HasBlock(1, tip)
    BY <1>9, <2>2 DEF StartQueue, Roles, At, Calling
  <2>3. QED
    BY <2>1, <2>2
<1>10. CASE CheckQueue
  BY <1>10 DEF CheckQueue, Call, Roles, At, Calling
<1>11. CASE Pull
  <2> DEFINE q == Append(MakeRoom(queue), HeaderByNumber(1, NextToQueue))
  <2>1. CASE ~ HasHeader(1, NextToQueue) \/ Len(q) = 1
    BY <1>11, <2>1 DEF Pull, Roles, At, Calling
  <2>2. CASE HasHeader(1, NextToQueue) /\ Len(q) # 1
    <3>1. /\ q \in Seq(Header) /\ Len(q) > 1
          /\ \A i \in 1..Len(q) : Len(q[i]) > 0
          /\ Last(q) \in Header /\ Last(q) # <<>>
      <4>1. pc = "pull" /\ MakeRoom(queue) \in Seq(Header)
        BY <1>11, RoomIsMade DEF Pull
      <4>2. /\ q \in Seq(Header) /\ Len(q) = Len(MakeRoom(queue)) + 1
            /\ \A i \in 1..Len(q) : Len(q[i]) > 0
            /\ HeaderByNumber(1, NextToQueue) \in Header
            /\ HeaderByNumber(1, NextToQueue) # <<>>
            /\ Last(q) = HeaderByNumber(1, NextToQueue)
        BY <2>2, <4>1, QueueGrows, Zenon
      <4>3. Len(q) > 1
        BY <2>2, <4>1, <4>2
      <4>4. QED
        BY <4>2, <4>3
    <3>2. CASE Len(q) < method.window
      <4>1. queue' = q /\ pc' = "tip" /\ back' = "queue" /\ UNCHANGED <<evalVars, target>>
        BY <1>11, <2>2, <3>2 DEF Pull, Call
      <4>2. method.name = "nearly" /\ pc = "pull"
        BY <1>11 DEF Pull, Roles
      <4>3. queue' \in Seq(Header) /\ queue' # <<>> /\ \A i \in 1..Len(queue') : Len(queue'[i]) > 0
        BY <3>1, <4>1
      <4>4. QED
        BY <4>1, <4>2, <4>3 DEF Roles, At, Calling
    <3>3. CASE ~ (Len(q) < method.window)
      <4>1. /\ queue' = SubSeq(q, 2, Len(q) - 1)
            /\ from' = Number(q[1]) /\ end' = Number(Last(q))
            /\ reading' = from' /\ total' = 0 /\ pc' = "read"
            /\ UNCHANGED <<back, target>>
        BY <1>11, <2>2, <3>3 DEF Pull, Eval
      <4>2. q[1] \in Header /\ q[1] # <<>> /\ Len(q) \in Nat
        BY <3>1, ElementOfSeq
      <4>3. from' \in Nat /\ end' \in Nat
        BY <3>1, <4>1, <4>2, NumberOf
      <4>4. /\ queue' \in Seq(Header) /\ Len(queue') = Len(q) - 2
            /\ \A i \in 1..(Len(q) - 2) : queue'[i] = q[i + 1]
        BY <3>1, <4>1, Inside
      <4>5. \A i \in 1..Len(queue') : Len(queue'[i]) > 0
        <5>1. \A i \in 1..(Len(q) - 2) : i + 1 \in 1..Len(q)
          BY <4>2
        <5>2. QED
          BY <3>1, <4>4, <5>1
      <4>6. QED
        BY <1>11, <4>1, <4>3, <4>4, <4>5 DEF Roles, At, Calling, Pull
    <3>4. QED
      BY <3>2, <3>3
  <2>3. QED
    BY <2>1, <2>2
<1>11a. CASE PullNothing
  <2>1. /\ pc = "pull" /\ pc' \in {"spinning", "panicked"}
        /\ queue' \in {queue, <<>>}
        /\ UNCHANGED <<back, from, end, reading, total, target>>
    BY <1>11a DEF PullNothing
  <2>2. queue' \in Seq(Header) /\ \A i \in 1..Len(queue') : Len(queue'[i]) > 0
    <3>1. CASE queue' = <<>>
      <4>1. queue' \in Seq(Header) /\ Len(queue') = 0
        BY <3>1
      <4>2. QED
        BY <4>1
    <3>2. CASE queue' = queue
      BY <3>2
    <3>3. QED
      BY <2>1, <3>1, <3>2
  <2>3. QED
    BY <2>1, <2>2 DEF Roles, At, Calling
<1>12. CASE Judge
  BY <1>12 DEF Judge, Call, Roles, At, Calling
<1>13. CASE ReadBlock
  <2>1. CASE HasHeader(1, reading)
    <3>1. TxCount[Body(HeaderByNumber(1, reading))] \in Nat
      BY <1>0, <2>1, ReadHeader, CountOf
    <3>2. QED
      BY <1>13, <2>1, <3>1 DEF ReadBlock, Roles, At, Calling
  <2>2. CASE ~ HasHeader(1, reading)
    BY <1>13, <2>2 DEF ReadBlock, Roles, At, Calling
  <2>3. QED
    BY <2>1, <2>2
<1>14. CASE Average
  <2>1. /\ pc' \in {"judge", "measured", "panicked"}
        /\ pc' = "judge" => method.name = "nearly"
    BY <1>14 DEF Average
  <2>2. QED
    BY <1>14, <2>1 DEF Average, Roles, At, Calling
<1>15. QED
  BY <1>1, <1>2, <1>3, <1>4, <1>5, <1>6, <1>7, <1>8, <1>9, <1>10, <1>11,
     <1>11a, <1>12, <1>13, <1>14 DEF Measuring

(* The nodes keep the first layer, and so does stuttering.                 *)
LEMMA NodesShape == Shape /\ Nodes => Shape'
<1> SUFFICES ASSUME Shape, Nodes
             PROVE  Shape'
  OBVIOUS
<1>1. Chains'
  BY NextChains DEF Shape, Nodes
<1>2. QED
  BY <1>1 DEF Shape, TypeOK, Chains, Roles, At, Calling, Nodes, scanVars, evalVars, waitVars

LEMMA NextShape == Shape /\ [Next]_vars => Shape'
<1> SUFFICES ASSUME Shape, [Next]_vars
             PROVE  Shape'
  OBVIOUS
<1>1. CASE Monitor
  BY <1>1, TipShape, MeasuringShape DEF Monitor
<1>2. CASE Nodes
  BY <1>2, NodesShape
<1>3. CASE UNCHANGED vars
  BY <1>3 DEF Shape, TypeOK, Chains, Roles, At, Calling, vars, scanVars, evalVars, waitVars
<1>4. QED
  BY <1>1, <1>2, <1>3 DEF Next

(* The first layer holds in every reachable state.                         *)
LEMMA AlwaysShape == Spec => []Shape
<1>1. Init => Shape
  BY InitShape
<1>2. Shape /\ [Next]_vars => Shape'
  BY NextShape
<1>3. QED
  BY <1>1, <1>2, PTL DEF Spec

-----------------------------------------------------------------------------
(* The second layer                                                        *)

Everywhere(h) == \A e \in Endpoint : Settled(e, h)

Shared ==
  /\ pc = "compare" => \A e \in 1..asked : Agrees(e, probe)
  /\ Len(tip) <= Len(chain[1])
  /\ IsConfirmed /\ tip # <<>> => Everywhere(tip)
  /\ pc = "pull" => Number(tip) > Number(Last(queue))
  /\ \A i \in 1..Len(queue) : Everywhere(queue[i])
  /\ \A i \in 1..Len(queue) : Len(queue[i]) = Len(queue[1]) + (i - 1)

(* Initially the second layer holds.                                       *)
LEMMA InitShared == Init => Shared
<1> SUFFICES ASSUME Init
             PROVE  Shared
  OBVIOUS
<1>1. Len(chain[1]) \in Nat
  BY NodesAssumption DEF Init, NodesInit, Endpoint
<1>2. QED
  BY <1>1 DEF Init, Shared

(* The header that has been compared with all endpoints, or with its       *)
(* Confirmation-th ancestor, is settled everywhere.                        *)
LEMMA ConfirmedIsSettled ==
  ASSUME Shape, Shared, pc = "compare", asked = NE, IsConfirmed,
         HasHeader(1, Confirmed(number))
  PROVE  Everywhere(HeaderByNumber(1, Confirmed(number)))
<1> DEFINE n == Confirmed(number)
<1>1. /\ number \in Nat /\ probe \in Header /\ Len(probe) = number + 1
      /\ Chains /\ 1 \in Endpoint /\ Endpoint = 1..asked
      /\ ConfirmationBlocks = Confirmation
      /\ ReorgDepth \in Nat /\ Confirmation \in Nat /\ ReorgDepth <= Confirmation
  BY Parameters DEF Shape, TypeOK, Endpoint, IsConfirmed, ConfirmationBlocks
<1>2. n \in Nat /\ n < Len(probe) /\ (n = 0 \/ n + ReorgDepth < Len(probe))
  BY <1>1 DEF Confirmed
<1>3. \A e \in Endpoint : Settled(e, Ancestor(probe, n))
  BY <1>1, <1>2, AgreedIsSettled DEF Shared
<1>4. PICK h \in Header : h = Ancestor(probe, n) /\ Len(h) = n + 1
  BY <1>1, <1>2, AncestorProperties
<1>5. \A e \in Endpoint : Settled(e, Ancestor(chain[1], n))
  BY <1>1, <1>2, <1>3, <1>4, SettledAncestors
<1>6. QED
  BY <1>5 DEF Everywhere, HeaderByNumber

(* Every step of get_confirmed_tip_header keeps the second layer.          *)
LEMMA TipShared ==
  ASSUME Shape, Shared, ConfirmedTip,
         UNCHANGED <<back, evalVars, waitVars, chain, method>>
  PROVE  Shared'
<1> USE DEF evalVars, waitVars
<1>0. /\ 1 \in Endpoint /\ NE \in Nat /\ number \in Nat /\ asked \in 0..NE
      /\ probe \in Header /\ Chains
  BY Parameters DEF Shape, TypeOK
<1>1. /\ \A i \in 1..Len(queue') : Everywhere(queue[i])'
      /\ \A i \in 1..Len(queue') : Len(queue'[i]) = Len(queue'[1]) + (i - 1)
  BY DEF Shared, Everywhere, Settled
<1>2. ASSUME UNCHANGED tip
      PROVE  /\ Len(tip') <= Len(chain'[1])
             /\ IsConfirmed' /\ tip' # <<>> => Everywhere(tip)'
  BY <1>2 DEF Shared, IsConfirmed, Everywhere, Settled
<1>3. CASE GetTip
  BY <1>1, <1>2, <1>3 DEF GetTip, Shared
<1>4. CASE ScanHeader
  <2>1. CASE HasHeader(1, number)
    <3>1. Agrees(1, Ancestor(chain[1], number))
      BY <1>0, <2>1, OwnHeader DEF HasHeader
    <3>2. asked' = 1 /\ probe' = Ancestor(chain[1], number) /\ pc' = "compare" /\ tip' = tip
      BY <1>4, <2>1 DEF ScanHeader, HeaderByNumber
    <3>3. \A e \in 1..asked' : Agrees(e, probe)'
      BY <3>1, <3>2 DEF Agrees
    <3>4. QED
      BY <1>1, <1>2, <3>2, <3>3 DEF Shared
  <2>2. CASE ~ HasHeader(1, number)
    BY <1>1, <1>2, <1>4, <2>2 DEF ScanHeader, NextNumber, Shared
  <2>3. QED
    BY <2>1, <2>2
<1>5. CASE Compare
  <2>1. CASE SameHeader(asked + 1)
    <3>1. asked + 1 \in Endpoint /\ asked' = asked + 1 /\ UNCHANGED <<pc, probe, tip>>
      BY <1>0, <1>5, <2>1 DEF Compare, Endpoint
    <3>2. Agrees(asked + 1, probe)
      BY <1>0, <2>1, <3>1, HasBlockAgrees DEF SameHeader
    <3>3. pc' = "compare" => \A e \in 1..asked' : Agrees(e, probe)'
      <4>1. \A e \in 1..(asked + 1) : e \in 1..asked \/ e = asked + 1
        BY <1>0
      <4>2. pc = "compare" => \A e \in 1..(asked + 1) : Agrees(e, probe)
        BY <3>2, <4>1 DEF Shared
      <4>3. QED
        BY <3>1, <4>2 DEF Agrees
    <3>4. QED
      BY <1>1, <1>2, <3>1, <3>3, <1>5 DEF Shared, Compare
  <2>2. CASE ~ SameHeader(asked + 1)
    BY <1>1, <1>2, <1>5, <2>2 DEF Compare, NextNumber, Shared
  <2>3. QED
    BY <2>1, <2>2
<1>6. CASE Confirm
  <2>1. pc = "compare" /\ asked = NE /\ pc' \in {back, "panicked"}
    BY <1>6 DEF Confirm
  <2>2. back \notin {"compare", "pull"}
    BY DEF Shape, TypeOK
  <2>3. Confirmed(number) \in Nat
    BY <1>0, Parameters DEF Confirmed, Shape
  <2>4. CASE HasHeader(1, Confirmed(number))
    <3>1. tip' = HeaderByNumber(1, Confirmed(number))
      BY <1>6, <2>4 DEF Confirm
    <3>2. Len(tip') <= Len(chain'[1])
      <4>1. Len(tip') = Confirmed(number) + 1 /\ Len(chain[1]) \in Nat
        BY <1>0, <2>3, <2>4, <3>1, ReadHeader DEF Chains, Header
      <4>2. QED
        BY <2>3, <2>4, <4>1 DEF HasHeader
    <3>3. IsConfirmed' => Everywhere(tip)'
      BY <2>1, <2>4, <3>1, ConfirmedIsSettled DEF IsConfirmed, Everywhere, Settled
    <3>4. QED
      BY <1>1, <2>1, <2>2, <3>2, <3>3 DEF Shared
  <2>5. CASE ~ HasHeader(1, Confirmed(number))
    BY <1>1, <1>2, <1>6, <2>1, <2>2, <2>5 DEF Confirm, Shared
  <2>6. QED
    BY <2>4, <2>5
<1>7. QED
  BY <1>3, <1>4, <1>5, <1>6 DEF ConfirmedTip

(* The queue with one more block is a piece of the settled chain.          *)
LEMMA PulledIsSettled ==
  ASSUME Shape, Shared, pc = "pull"
  PROVE  LET h == HeaderByNumber(1, NextToQueue)
             q == Append(MakeRoom(queue), h)
         IN  /\ HasHeader(1, NextToQueue)
             /\ \A i \in 1..Len(q) : Everywhere(q[i])
             /\ \A i \in 1..Len(q) : Len(q[i]) = Len(q[1]) + (i - 1)
<1> DEFINE h == HeaderByNumber(1, NextToQueue)
           m == MakeRoom(queue)
           q == Append(m, h)
<1>1. /\ Chains /\ 1 \in Endpoint /\ tip \in Header /\ tip # <<>> /\ IsConfirmed
      /\ queue \in Seq(Header) /\ queue # <<>> /\ TypeOK
      /\ chain[1] \in Header
  BY Parameters DEF Shape, TypeOK, Roles, IsConfirmed, Chains
<1>2. Len(queue) \in 1..Len(queue) /\ Len(queue) \in Nat
  BY <1>1, EmptySeq
<1>3. Last(queue) \in Header /\ Last(queue) # <<>>
  <2>1. Last(queue) \in Header /\ Len(Last(queue)) > 0
    BY <1>1, <1>2, ElementOfSeq DEF Shape, Last
  <2>2. QED
    BY <2>1
<1>4. PICK n \in Nat : n = NextToQueue /\ n = Len(Last(queue)) /\ n < Len(tip)
  <2>1. /\ Number(Last(queue)) \in Nat /\ Len(Last(queue)) = Number(Last(queue)) + 1
        /\ Number(tip) \in Nat /\ Len(tip) = Number(tip) + 1
        /\ Number(tip) > Number(Last(queue))
    BY <1>1, <1>3, NumberOf DEF Shared
  <2>2. QED
    BY <2>1 DEF NextToQueue
<1>5. HasHeader(1, NextToQueue)
  <2>1. Len(tip) <= Len(chain[1]) /\ Len(chain[1]) \in Nat /\ Len(tip) \in Nat
    BY <1>1 DEF Shared, Header
  <2>2. QED
    BY <1>4, <2>1 DEF HasHeader
<1>6. Everywhere(h)
  <2>1. \A e \in Endpoint : Settled(e, Ancestor(chain[1], n))
    BY <1>1, <1>4, SettledAncestors DEF Shared, Everywhere
  <2>2. QED
    BY <1>4, <2>1 DEF Everywhere, HeaderByNumber
<1>7. h \in Header /\ Len(h) = n + 1
  BY <1>1, <1>4, <1>5, ReadHeader
<1>8. PICK k \in 0..Len(queue) :
        /\ m \in Seq(Header) /\ Len(m) = Len(queue) - k
        /\ \A i \in 1..Len(m) : i + k \in 1..Len(queue) /\ m[i] = queue[i + k]
  BY <1>1, RoomIsMade
<1>9. /\ Len(q) = Len(m) + 1
      /\ \A i \in 1..Len(m) : q[i] = m[i]
      /\ q[Len(m) + 1] = h
      /\ Len(m) \in Nat
  BY <1>7, <1>8, AppendProperties
<1>10. \A i \in 1..Len(m) : Everywhere(q[i])
  BY <1>8, <1>9 DEF Shared
<1>11. \A i \in 1..Len(q) : i \in 1..Len(m) \/ i = Len(m) + 1
  BY <1>9
<1>12. \A i \in 1..Len(q) : Everywhere(q[i])
  BY <1>6, <1>9, <1>10, <1>11
<1>13. ASSUME NEW i \in 1..Len(q)
       PROVE  Len(q[i]) = Len(q[1]) + (i - 1)
  <2>1. CASE Len(m) = 0
    <3>1. i = 1 /\ q[1] = h
      BY <1>9, <2>1
    <3>2. QED
      BY <1>7, <3>1
  <2>2. CASE Len(m) > 0
    <3>1. PICK a \in Nat, b \in Nat, c \in Nat :
            a = Len(queue[1]) /\ b = Len(queue) /\ c = k /\ c <= b /\ Len(m) = b - c
      <4>1. queue[1] \in Header
        BY <1>1, <1>2, ElementOfSeq
      <4>2. Len(queue[1]) \in Nat /\ Len(queue) \in Nat /\ k \in Nat /\ k <= Len(queue)
        BY <1>2, <4>1 DEF Header
      <4>3. QED
        BY <1>8, <4>2
    <3>2. \A j \in 1..Len(m) : j + c \in 1..b /\ Len(q[j]) = a + ((j + c) - 1)
      BY <1>8, <1>9, <3>1 DEF Shared
    <3>3. Len(q[1]) = a + c
      <4>1. 1 \in 1..Len(m) /\ a + ((1 + c) - 1) = a + c
        BY <1>9, <2>2, <3>1
      <4>2. QED
        BY <3>2, <4>1
    <3>4. CASE i \in 1..Len(m)
      <4>1. \A x, y, z \in Nat : x + ((z + y) - 1) = (x + y) + (z - 1)
        OBVIOUS
      <4>2. i \in Nat
        BY <1>9, <3>4
      <4>3. a + ((i + c) - 1) = (a + c) + (i - 1)
        BY <4>1, <4>2
      <4>4. QED
        BY <3>2, <3>3, <3>4, <4>3
    <3>5. CASE i = Len(m) + 1
      <4>1. Len(q[i]) = n + 1 /\ n = a + (b - 1)
        BY <1>2, <1>4, <1>7, <1>9, <3>1, <3>5 DEF Shared, Last
      <4>2. i - 1 = b - c
        BY <3>1, <3>5
      <4>3. (a + (b - 1)) + 1 = (a + c) + (b - c)
        BY <3>1
      <4>4. QED
        BY <3>3, <4>1, <4>2, <4>3
    <3>6. QED
      BY <1>11, <3>4, <3>5
  <2>3. QED
    BY <1>9, <2>1, <2>2
<1>14. QED
  BY <1>5, <1>12, <1>13

(* Every step of the methods keeps the second layer.                       *)
LEMMA MeasuringShared ==
  ASSUME Shape, Shared, Measuring, UNCHANGED <<scanVars, chain, method>>
  PROVE  Shared'
<1> USE DEF scanVars, evalVars, waitVars
<1>1. pc # "compare" /\ pc' # "compare"
  <2>1. back \in {"start", "warmup", "begin", "elapse", "over", "queue"}
    BY DEF Shape, TypeOK
  <2>2. QED
    BY DEF Measuring, StartWarmup, Warm, Begin, Elapse, StartTimer, TimeIsOver,
         Over, MetricMode, StartQueue, CheckQueue, Pull, PullNothing, Judge,
         ReadBlock, Average, Call, Eval
<1>2. /\ Len(tip') <= Len(chain'[1])
      /\ IsConfirmed' /\ tip' # <<>> => Everywhere(tip)'
  BY DEF Shared, IsConfirmed, Everywhere, Settled
<1>3. ASSUME UNCHANGED queue
      PROVE  /\ \A i \in 1..Len(queue') : Everywhere(queue[i])'
             /\ \A i \in 1..Len(queue') : Len(queue'[i]) = Len(queue'[1]) + (i - 1)
  BY <1>3 DEF Shared, Everywhere, Settled
<1>4. CASE StartQueue
  <2>1. CASE HasBlock(1, tip)
    <3>1. queue' = <<tip>> /\ pc' = "tip"
      BY <1>4, <2>1 DEF StartQueue, Call
    <3>2. method.name = "nearly" /\ tip # <<>>
      BY <1>4 DEF StartQueue, Shape, TypeOK
    <3>3. Everywhere(tip)'
      BY <3>2 DEF Shared, IsConfirmed, Everywhere, Settled
    <3>4. \A i \in 1..Len(queue') : queue'[i] = tip /\ tip' = tip
      BY <3>1
    <3>5. QED
      BY <1>1, <1>2, <3>1, <3>3, <3>4 DEF Shared, Everywhere, Settled
  <2>2. CASE ~ HasBlock(1, tip)
    BY <1>1, <1>2, <1>3, <1>4, <2>2 DEF StartQueue, Shared
  <2>3. QED
    BY <2>1, <2>2
<1>5. CASE CheckQueue
  BY <1>1, <1>2, <1>3, <1>5 DEF CheckQueue, Call, Shared, Last, Number
<1>6. CASE Pull
  <2> DEFINE q == Append(MakeRoom(queue), HeaderByNumber(1, NextToQueue))
  <2>1. pc = "pull"
    BY <1>6 DEF Pull
  <2>2. /\ HasHeader(1, NextToQueue)
        /\ \A i \in 1..Len(q) : Everywhere(q[i])
        /\ \A i \in 1..Len(q) : Len(q[i]) = Len(q[1]) + (i - 1)
    BY <2>1, PulledIsSettled, Zenon
  <2>3. /\ q \in Seq(Header)
        /\ MakeRoom(queue) \in Seq(Header) /\ Len(q) = Len(MakeRoom(queue)) + 1
    <3>1. MakeRoom(queue) \in Seq(Header)
      BY RoomIsMade DEF Shape, TypeOK
    <3>2. q \in Seq(Header) /\ Len(q) = Len(MakeRoom(queue)) + 1
      BY <2>1, <2>2, QueueGrows, Zenon
    <3>3. QED
      BY <3>1, <3>2
  <2>4. CASE Len(q) = 1
    BY <1>1, <1>2, <1>3, <1>6, <2>4 DEF Pull, Shared
  <2>5. CASE Len(q) # 1 /\ Len(q) < method.window
    <3>1. queue' = q /\ pc' = "tip" /\ UNCHANGED chain
      BY <1>6, <2>2, <2>5 DEF Pull, Call
    <3>2. /\ \A i \in 1..Len(queue') : Everywhere(queue[i])'
          /\ \A i \in 1..Len(queue') : Len(queue'[i]) = Len(queue'[1]) + (i - 1)
      <4>1. \A i \in 1..Len(queue') : Everywhere(queue[i])'
        BY <2>2, <3>1 DEF Everywhere, Settled
      <4>2. \A i \in 1..Len(queue') : Len(queue'[i]) = Len(queue'[1]) + (i - 1)
        BY <2>2, <3>1, Zenon
      <4>3. QED
        BY <4>1, <4>2
    <3>3. QED
      BY <1>1, <1>2, <3>1, <3>2 DEF Shared
  <2>6. CASE Len(q) # 1 /\ ~ (Len(q) < method.window)
    <3>1. queue' = SubSeq(q, 2, Len(q) - 1) /\ pc' = "read" /\ UNCHANGED chain
      BY <1>6, <2>2, <2>6 DEF Pull, Eval
    <3>2. Len(q) > 1 /\ Len(q) \in Nat
      BY <2>3, <2>6
    <3>3. /\ Len(queue') = Len(q) - 2
          /\ \A i \in 1..(Len(q) - 2) : queue'[i] = q[i + 1]
      BY <2>3, <3>1, <3>2, Inside
    <3>4. \A i \in 1..(Len(q) - 2) : i + 1 \in 1..Len(q)
      BY <3>2
    <3>5. \A i \in 1..Len(queue') : Everywhere(queue[i])'
      <4>1. ASSUME NEW i \in 1..Len(queue')
            PROVE  Everywhere(queue[i])'
        <5>1. PICK h : h = q[i + 1] /\ h = queue'[i] /\ Everywhere(h)
          BY <2>2, <3>3, <3>4
        <5>2. QED
          BY <3>1, <5>1 DEF Everywhere, Settled
      <4>2. QED
        BY <4>1
    <3>6. \A i \in 1..Len(queue') : Len(queue'[i]) = Len(queue'[1]) + (i - 1)
      <4>1. PICK a \in Nat, l \in Nat : l = Len(q) /\ a = Len(q[1])
        BY <2>3, <3>2, ElementOfSeq DEF Header
      <4>2. \A i \in 1..(l - 2) :
              /\ i + 1 \in 1..l /\ 1 + 1 \in 1..l /\ 1 \in 1..(l - 2)
              /\ a + ((i + 1) - 1) = a + ((1 + 1) - 1) + (i - 1)
        BY <4>1
      <4>3. \A i \in 1..(l - 2) : /\ Len(queue'[i]) = a + ((i + 1) - 1)
                                  /\ Len(queue'[1]) = a + ((1 + 1) - 1)
        BY <2>2, <3>3, <4>1, <4>2
      <4>4. QED
        BY <3>3, <4>1, <4>2, <4>3
    <3>7. QED
      BY <1>1, <1>2, <3>1, <3>5, <3>6 DEF Shared
  <2>7. QED
    BY <2>4, <2>5, <2>6
<1>6a. CASE PullNothing
  <2>1. pc' # "pull" /\ queue' \in {queue, <<>>}
    BY <1>6a DEF PullNothing
  <2>2. CASE queue' = <<>>
    <3>1. Len(queue') = 0
      BY <2>2
    <3>2. QED
      BY <1>1, <1>2, <2>1, <3>1 DEF Shared
  <2>3. CASE UNCHANGED queue
    BY <1>1, <1>2, <1>3, <2>1, <2>3 DEF Shared
  <2>4. QED
    BY <2>1, <2>2, <2>3
<1>7. CASE UNCHANGED queue /\ pc' # "pull"
  BY <1>1, <1>2, <1>3, <1>7 DEF Shared
<1>8. ASSUME ~ StartQueue, ~ CheckQueue, ~ Pull, ~ PullNothing
      PROVE  UNCHANGED queue /\ pc' # "pull"
  <2>1. back \in {"start", "warmup", "begin", "elapse", "over", "queue"}
    BY DEF Shape, TypeOK
  <2>2. QED
    BY <1>8 DEF Measuring, StartWarmup, Warm, Begin, Elapse, StartTimer, TimeIsOver,
         Over, MetricMode, Judge, ReadBlock, Average, Call, Eval
<1>9. QED
  BY <1>4, <1>5, <1>6, <1>6a, <1>7, <1>8

(* The nodes keep the second layer.                                        *)
LEMMA NodesShared ==
  ASSUME Shape, Shared, Nodes
  PROVE  Shared'
<1> USE DEF scanVars, evalVars, waitVars
<1>1. /\ NodesNext /\ Chains /\ 1 \in Endpoint
      /\ UNCHANGED <<method, pc, probe, asked, tip, queue>>
      /\ tip \in Header /\ probe \in Header /\ queue \in Seq(Header)
      /\ asked \in 0..NE /\ NE \in Nat
  BY Parameters DEF Shape, TypeOK, Nodes
<1>2. ASSUME NEW h \in Header, Everywhere(h)
      PROVE  \A e \in Endpoint :
               /\ Len(h) <= Len(chain'[e])
               /\ Len(h) > 1 => Len(h) + ReorgDepth <= Len(chain'[e])
               /\ \A i \in 1..Len(h) : chain'[e][i] = h[i]
  BY <1>1, <1>2, NodesSettle DEF Everywhere
<1>3. IsConfirmed' /\ tip' # <<>> => Everywhere(tip)'
  BY <1>1, <1>2 DEF Shared, IsConfirmed, Everywhere, Settled
<1>4. \A i \in 1..Len(queue') : Everywhere(queue[i])'
  <2>1. ASSUME NEW i \in 1..Len(queue)
        PROVE  Everywhere(queue[i])'
    <3>1. PICK h \in Header : h = queue[i] /\ h = queue'[i]
      BY <1>1, ElementOfSeq
    <3>2. Everywhere(h)
      BY <3>1 DEF Shared
    <3>3. \A e \in Endpoint :
            /\ Len(h) <= Len(chain'[e])
            /\ Len(h) > 1 => Len(h) + ReorgDepth <= Len(chain'[e])
            /\ \A j \in 1..Len(h) : chain'[e][j] = h[j]
      BY <1>2, <3>2
    <3>4. QED
      BY <3>1, <3>3 DEF Everywhere, Settled
  <2>2. QED
    BY <1>1, <2>1
<1>5. pc' = "compare" => \A e \in 1..asked' : Agrees(e, probe)'
  <2>1. \A e \in 1..asked : e \in Endpoint
    BY <1>1 DEF Endpoint
  <2>2. pc = "compare" => \A e \in 1..asked : Agrees(e, probe)
    BY DEF Shared
  <2>3. QED
    BY <1>1, <2>1, <2>2, NodesAgree DEF Agrees
<1>6. Len(tip') <= Len(chain'[1])
  <2>1. Len(chain[1]) <= Len(chain'[1])
    BY <1>1, NodesGrow
  <2>2. Len(tip) \in Nat /\ Len(chain[1]) \in Nat /\ Len(chain'[1]) \in Nat
    BY <1>1, NextChains DEF Chains, Header
  <2>3. QED
    BY <1>1, <2>1, <2>2 DEF Shared
<1>7. QED
  BY <1>1, <1>3, <1>4, <1>5, <1>6 DEF Shared, Last, Number

LEMMA NextShared == Shape /\ Shared /\ [Next]_vars => Shared'
<1> SUFFICES ASSUME Shape, Shared, [Next]_vars
             PROVE  Shared'
  OBVIOUS
<1>1. CASE Monitor
  BY <1>1, TipShared, MeasuringShared DEF Monitor
<1>2. CASE Nodes
  BY <1>2, NodesShared
<1>3. CASE UNCHANGED vars
  <2>1. UNCHANGED <<chain, method, pc, probe, asked, tip, queue>>
    BY <1>3 DEF vars, scanVars, waitVars
  <2>2. /\ pc' = "compare" => \A e \in 1..asked' : Agrees(e, probe)'
        /\ Len(tip') <= Len(chain'[1])
        /\ IsConfirmed' /\ tip' # <<>> => Everywhere(tip)'
        /\ pc' = "pull" => (Number(tip) > Number(Last(queue)))'
    BY <2>1 DEF Shared, Everywhere, Settled, Agrees, IsConfirmed, Last, Number
  <2>3. /\ \A i \in 1..Len(queue') : Everywhere(queue[i])'
        /\ \A i \in 1..Len(queue') : Len(queue'[i]) = Len(queue'[1]) + (i - 1)
    BY <2>1 DEF Shared, Everywhere, Settled
  <2>4. QED
    BY <2>2, <2>3 DEF Shared
<1>4. QED
  BY <1>1, <1>2, <1>3 DEF Next

(* The second layer holds in every reachable state.                        *)
LEMMA AlwaysShared == Spec => []Shared
<1>1. Init => Shared
  BY InitShared
<1>2. Shape /\ Shared /\ [Next]_vars => Shared'
  BY NextShared
<1>3. QED
  BY <1>1, <1>2, AlwaysShape, PTL DEF Spec

-----------------------------------------------------------------------------
(* The third layer                                                         *)

(* The endpoints have all come to number n on one chain, or on chains that *)
(* share all but their last ReorgDepth blocks.                             *)
AgreedTo(n) ==
  \A e \in Endpoint :
    /\ n < Len(chain[e])
    /\ \A i \in 1..(n + 1) :
         (i = 1 \/ i <= n + 1 - ReorgDepth) => chain[e][i] = chain[1][i]

(* They have, and no scan goes deeper than ReorgDepth below n: there, the  *)
(* header that was probed is still the one of all endpoints.               *)
FloorAt(n) ==
  /\ AgreedTo(n)
  /\ Scanning => number + ReorgDepth >= n
  /\ pc = "compare" /\ number + ReorgDepth <= n =>
       \A i \in 1..(number + 1) : probe[i] = chain[1][i]

Floor ==
  /\ AgreedTo(0)
  /\ At("start") => FloorAt(begun)
  /\ tip # <<>> /\ Number(tip) > 0 => FloorAt(Number(tip) + ConfirmationBlocks)

(* Initially the third layer holds.                                        *)
LEMMA InitFloor == Init => Floor
<1> SUFFICES ASSUME Init
             PROVE  Floor
  OBVIOUS
<1>1. \A e \in Endpoint : chain[e] = <<Genesis>>
  BY DEF Init, NodesInit
<1>2. 1 \in Endpoint
  BY NodesAssumption DEF Endpoint
<1>3. AgreedTo(0)
  BY <1>1, <1>2 DEF AgreedTo
<1>4. QED
  BY <1>3 DEF Init, Floor, FloorAt, Scanning

(* What all endpoints agree with is agreed to.                             *)
LEMMA AllAgree ==
  ASSUME TypeOK, Chains, NEW h \in Header, NEW n \in Nat, Len(h) = n + 1,
         \A e \in Endpoint : Agrees(e, h)
  PROVE  AgreedTo(n)
<1>1. 1 \in Endpoint /\ ReorgDepth \in Nat /\ \A e \in Endpoint : Len(chain[e]) \in Nat
  BY Parameters DEF Chains, Header
<1>2. QED
  BY <1>1 DEF Agrees, AgreedTo

(* The nodes keep what is agreed to.                                       *)
LEMMA NodesKeepAgreed ==
  ASSUME TypeOK, Chains, NodesNext, NEW n \in Nat, AgreedTo(n)
  PROVE  /\ \A e \in Endpoint :
              /\ n < Len(chain'[e])
              /\ \A i \in 1..(n + 1) :
                   (i = 1 \/ i <= n + 1 - ReorgDepth) => chain'[e][i] = chain'[1][i]
         /\ \A i \in 1..(n + 1) :
              (i = 1 \/ i <= n + 1 - ReorgDepth) => chain'[1][i] = chain[1][i]
<1>1. /\ 1 \in Endpoint /\ ReorgDepth \in Nat
      /\ chain[1] \in Header /\ n < Len(chain[1])
      /\ \A e \in Endpoint : Len(chain[e]) \in Nat /\ Len(chain'[e]) \in Nat
  BY Parameters, NextChains DEF Chains, Header, AgreedTo
<1>2. PICK h \in Header : /\ h = Ancestor(chain[1], n)
                          /\ Len(h) = n + 1
                          /\ \A i \in 1..(n + 1) : h[i] = chain[1][i]
  BY <1>1, AncestorProperties
<1>3. \A e \in Endpoint : Agrees(e, h)
  BY <1>1, <1>2 DEF AgreedTo, Agrees
<1>4. \A e \in Endpoint :
        /\ Len(h) <= Len(chain'[e])
        /\ \A i \in 1..Len(h) :
             (i = 1 \/ i <= Len(h) - ReorgDepth) => chain'[e][i] = h[i]
  BY <1>3, NodesAgree
<1>5. QED
  BY <1>1, <1>2, <1>4

(* A header that all endpoints have is not rejected.                       *)
LEMMA FloorIsFound ==
  ASSUME Shape, Shared, AgreedTo(0), pc = "compare", asked < NE,
         number = 0 \/
           \E n \in Nat : FloorAt(n) /\ number + ReorgDepth <= n
  PROVE  HasBlock(asked + 1, probe)
<1>1. /\ Chains /\ 1 \in Endpoint /\ asked + 1 \in Endpoint
      /\ number \in Nat /\ probe \in Header /\ Len(probe) = number + 1
      /\ asked > 0 /\ asked \in Nat /\ ReorgDepth \in Nat
      /\ \A e \in Endpoint : Len(chain[e]) \in Nat
  BY Parameters DEF Shape, TypeOK, Endpoint, Chains, Header
<1>2. CASE number = 0
  <2>1. 1 \in 1..asked
    BY <1>1
  <2>2. Agrees(1, probe)
    BY <2>1 DEF Shared
  <2>3. probe[1] = chain[1][1]
    BY <1>1, <1>2, <2>2 DEF Agrees
  <2>4. 0 < Len(chain[asked + 1]) /\ chain[asked + 1][1] = chain[1][1]
    BY <1>1 DEF AgreedTo
  <2>5. Len(probe) = 1 /\ Len(probe) <= Len(chain[asked + 1])
    BY <1>1, <1>2, <2>4
  <2>6. \A i \in 1..Len(probe) : chain[asked + 1][i] = probe[i]
    BY <2>3, <2>4, <2>5
  <2>7. QED
    BY <1>1, <2>5, <2>6, PrefixIsThere
<1>3. ASSUME NEW n \in Nat, FloorAt(n), number + ReorgDepth <= n
      PROVE  HasBlock(asked + 1, probe)
  <2>1. n < Len(chain[asked + 1]) /\ Len(probe) <= Len(chain[asked + 1])
    BY <1>1, <1>3 DEF FloorAt, AgreedTo
  <2>2. \A i \in 1..Len(probe) : probe[i] = chain[1][i]
    BY <1>1, <1>3 DEF FloorAt
  <2>3. \A i \in 1..Len(probe) : i \in 1..(n + 1) /\ i <= n + 1 - ReorgDepth
    BY <1>1, <1>3
  <2>4. \A i \in 1..Len(probe) : chain[asked + 1][i] = chain[1][i]
    BY <1>1, <1>3, <2>3 DEF FloorAt, AgreedTo
  <2>5. QED
    BY <1>1, <2>1, <2>2, <2>4, PrefixIsThere
<1>4. QED
  BY <1>2, <1>3

(* Every step of get_confirmed_tip_header keeps to the floor.              *)
LEMMA TipKeepsFloor ==
  ASSUME Shape, Shared, AgreedTo(0), NEW n \in Nat, FloorAt(n), ConfirmedTip,
         UNCHANGED <<back, evalVars, waitVars, chain, method>>
  PROVE  FloorAt(n)'
<1>1. /\ Chains /\ 1 \in Endpoint
      /\ number \in Nat /\ ReorgDepth \in Nat
      /\ Len(chain[1]) \in Nat /\ chain[1] \in Header /\ n < Len(chain[1])
      /\ \A e \in Endpoint : Len(chain[e]) \in Nat
      /\ back \notin {"scan", "compare"}
  <2>1. /\ Chains /\ number \in Nat
        /\ back \in {"start", "warmup", "begin", "elapse", "over", "queue"}
    BY DEF Shape, TypeOK
  <2>2. 1 \in Endpoint /\ ReorgDepth \in Nat
    BY Parameters DEF Shape
  <2>3. \A e \in Endpoint : chain[e] \in Header /\ Len(chain[e]) \in Nat
    BY <2>1 DEF Chains, Header
  <2>4. n < Len(chain[1])
    BY <2>2 DEF FloorAt, AgreedTo
  <2>5. QED
    BY <2>1, <2>2, <2>3, <2>4
<1>2. AgreedTo(n)'
  BY DEF FloorAt, AgreedTo
<1>3. CASE GetTip
  <2>1. pc' = "scan" /\ number' = Number(chain[1])
    BY <1>3 DEF GetTip
  <2>2. QED
    BY <1>1, <1>2, <2>1 DEF FloorAt, Scanning, Number
<1>4. CASE ScanHeader
  <2>1. CASE HasHeader(1, number)
    <3>1. /\ pc = "scan" /\ pc' = "compare" /\ number' = number
          /\ probe' = Ancestor(chain[1], number)
      BY <1>4, <2>1 DEF ScanHeader, HeaderByNumber
    <3>2. \A i \in 1..(number + 1) : probe'[i] = chain[1][i]
      BY <1>1, <2>1, <3>1, AncestorProperties DEF HasHeader
    <3>3. QED
      BY <1>1, <1>2, <3>1, <3>2 DEF FloorAt, Scanning
  <2>2. CASE ~ HasHeader(1, number)
    <3>1. \/ number' = number - 1 /\ pc' = "scan"
          \/ pc' = "panicked"
      BY <1>4, <2>2 DEF ScanHeader, NextNumber
    <3>2. number > n
      BY <1>1, <2>2 DEF HasHeader
    <3>3. QED
      BY <1>1, <1>2, <3>1, <3>2 DEF FloorAt, Scanning
  <2>3. QED
    BY <2>1, <2>2
<1>5. CASE Compare
  <2>1. CASE SameHeader(asked + 1)
    <3>1. UNCHANGED <<pc, number, probe>>
      BY <1>5, <2>1 DEF Compare
    <3>2. QED
      BY <1>2, <3>1 DEF FloorAt, Scanning
  <2>2. CASE ~ SameHeader(asked + 1)
    <3>1. \/ number' = number - 1 /\ pc' = "scan"
          \/ pc' = "panicked"
      BY <1>5, <2>2 DEF Compare, NextNumber
    <3>2. ~ (number + ReorgDepth <= n)
      BY <1>5, <2>2, FloorIsFound DEF Compare, SameHeader
    <3>3. QED
      BY <1>1, <1>2, <3>1, <3>2 DEF FloorAt, Scanning
  <2>3. QED
    BY <2>1, <2>2
<1>6. CASE Confirm
  <2>1. pc' \in {back, "panicked"}
    BY <1>6 DEF Confirm
  <2>2. QED
    BY <1>1, <1>2, <2>1 DEF FloorAt, Scanning
<1>7. QED
  BY <1>3, <1>4, <1>5, <1>6 DEF ConfirmedTip

(* The number of the tip and what was agreed to when it was confirmed.     *)
LEMMA ConfirmedNumber ==
  ASSUME Shape, Shared, Confirm, HasHeader(1, Confirmed(number))
  PROVE  /\ AgreedTo(number)
         /\ Number(tip') = Confirmed(number)
         /\ Number(tip') \in Nat /\ tip' # <<>> /\ Number(tip') <= number
         /\ number <= Number(tip') + ConfirmationBlocks
         /\ Number(tip') > 0 => number = Number(tip') + ConfirmationBlocks
<1>1. /\ number \in Nat /\ ConfirmationBlocks \in Nat /\ Chains /\ 1 \in Endpoint
      /\ TypeOK /\ probe \in Header
  BY Parameters DEF Shape, TypeOK
<1>2. Confirmed(number) \in Nat
  BY <1>1 DEF Confirmed
<1>3. tip' = HeaderByNumber(1, Confirmed(number))
  BY DEF Confirm
<1>4. Number(tip') = Confirmed(number) /\ tip' # <<>>
  BY <1>1, <1>2, <1>3, ReadHeader
<1>5. AgreedTo(number)
  <2>1. Len(probe) = number + 1 /\ \A e \in Endpoint : Agrees(e, probe)
    BY DEF Confirm, Shape, Shared, Endpoint
  <2>2. QED
    BY <1>1, <2>1, AllAgree
<1>6. QED
  BY <1>1, <1>2, <1>4, <1>5 DEF Confirmed

(* Every step of get_confirmed_tip_header keeps the third layer.           *)
LEMMA TipFloor ==
  ASSUME Shape, Shared, Floor, ConfirmedTip,
         UNCHANGED <<back, evalVars, waitVars, chain, method>>
  PROVE  Floor'
<1>1. /\ Chains /\ 1 \in Endpoint /\ TypeOK
      /\ number \in Nat /\ ReorgDepth \in Nat /\ begun \in Nat
      /\ ConfirmationBlocks \in Nat /\ ConfirmationBlocks' = ConfirmationBlocks
      /\ Len(chain[1]) \in Nat /\ chain[1] \in Header
      /\ back \notin {"tip", "scan", "compare", "panicked"}
  BY Parameters DEF Shape, TypeOK, Chains, Header, ConfirmationBlocks
<1>2. AgreedTo(0)'
  BY DEF Floor, AgreedTo
<1>3. \A n \in Nat : FloorAt(n) => FloorAt(n)'
  BY TipKeepsFloor DEF Floor
<1>4. ASSUME UNCHANGED tip
      PROVE  tip' # <<>> /\ Number(tip') > 0 =>
               FloorAt(Number(tip) + ConfirmationBlocks)'
  <2>1. ASSUME tip # <<>>, Number(tip) > 0
        PROVE  FloorAt(Number(tip) + ConfirmationBlocks)'
    <3>1. Number(tip) \in Nat
      BY <2>1, NumberOf DEF Shape, TypeOK
    <3>2. PICK n \in Nat : n = Number(tip) + ConfirmationBlocks
      BY <1>1, <3>1
    <3>3. FloorAt(n)'
      BY <1>3, <2>1, <3>2 DEF Floor
    <3>4. n = (Number(tip) + ConfirmationBlocks)'
      BY <1>1, <1>4, <3>2 DEF Number
    <3>5. QED
      BY <3>3, <3>4 DEF FloorAt, AgreedTo, Scanning
  <2>2. QED
    BY <1>4, <2>1 DEF Number
<1>5. ASSUME UNCHANGED begun, At("start")
      PROVE  FloorAt(begun)'
  <2>1. PICK n \in Nat : n = begun
    BY <1>1
  <2>2. FloorAt(n)'
    BY <1>3, <1>5, <2>1 DEF Floor
  <2>3. QED
    BY <1>5, <2>1, <2>2 DEF FloorAt, AgreedTo, Scanning
<1>6. At("start")' => At("start")
  <2>1. pc \in {"tip", "scan", "compare"}
    BY DEF ConfirmedTip, GetTip, ScanHeader, Compare, Confirm
  <2>2. QED
    BY <1>1, <2>1 DEF At, Calling, ConfirmedTip, GetTip, ScanHeader, Compare, Confirm, NextNumber
<1>7. CASE UNCHANGED <<tip, begun>>
  BY <1>2, <1>4, <1>5, <1>6, <1>7 DEF Floor
<1>8. CASE GetTip /\ back = "start" /\ method.name = "elapsed"
  <2>1. PICK n \in 0..Number(chain[1]) : LastCommon(n) /\ begun' = n
    BY <1>8 DEF GetTip
  <2>2. n \in Nat /\ number' = Number(chain[1]) /\ pc' = "scan" /\ n <= number' /\ tip' = tip
    BY <1>1, <1>8, <2>1 DEF GetTip, Number
  <2>3. AgreedTo(n)
    <3>1. \A e \in Endpoint : /\ chain[e] \in Header /\ n < Len(chain[e])
                              /\ Ancestor(chain[e], n) = Ancestor(chain[1], n)
      BY <1>1, <2>1 DEF LastCommon, Common, HasHeader, HeaderByNumber, Chains
    <3>2. \A e \in Endpoint : \A i \in 1..(n + 1) : Ancestor(chain[e], n)[i] = chain[e][i]
      BY <2>2, <3>1, AncestorProperties
    <3>3. QED
      BY <1>1, <3>1, <3>2 DEF AgreedTo
  <2>4. FloorAt(begun)'
    <3>1. AgreedTo(begun)'
      BY <2>1, <2>3 DEF AgreedTo
    <3>2. number' + ReorgDepth >= begun'
      <4>1. \A a, b, c \in Nat : b <= a => a + c >= b
        OBVIOUS
      <4>2. number' \in Nat /\ begun' \in Nat /\ begun' <= number'
        BY <1>1, <2>1, <2>2, NumberOf DEF Number
      <4>3. QED
        BY <1>1, <4>1, <4>2
    <3>3. QED
      BY <2>2, <3>1, <3>2 DEF FloorAt
  <2>5. QED
    BY <1>2, <1>4, <2>2, <2>4 DEF Floor
<1>9. CASE Confirm /\ HasHeader(1, Confirmed(number))
  <2>1. pc' = back /\ begun' = begun
    BY <1>9 DEF Confirm
  <2>2. /\ AgreedTo(number) /\ Number(tip') \in Nat
        /\ Number(tip') > 0 => number = Number(tip') + ConfirmationBlocks
    BY <1>9, ConfirmedNumber
  <2>3. ASSUME Number(tip') > 0
        PROVE  FloorAt(Number(tip) + ConfirmationBlocks)'
    <3>1. number = (Number(tip) + ConfirmationBlocks)'
      BY <1>1, <2>2, <2>3 DEF Number
    <3>2. QED
      BY <1>1, <2>1, <2>2, <3>1 DEF FloorAt, AgreedTo, Scanning
  <2>4. QED
    BY <1>2, <1>5, <1>6, <2>1, <2>3 DEF Floor, Number
<1>10. QED
  BY <1>7, <1>8, <1>9 DEF ConfirmedTip, GetTip, ScanHeader, Compare, Confirm

(* The methods keep the third layer.                                       *)
LEMMA MeasuringFloor ==
  ASSUME Shape, Floor, Measuring, UNCHANGED <<scanVars, chain, method>>
  PROVE  Floor'
<1> USE DEF scanVars
<1>1. /\ pc' \notin {"scan", "compare"}
      /\ At("start")' => At("start")
  <2>1. back \notin {"tip", "scan", "compare"}
    BY DEF Shape, TypeOK
  <2>2. QED
    BY <2>1 DEF At, Calling, Measuring, StartWarmup, Warm, Begin, Elapse, StartTimer,
       TimeIsOver, Over, MetricMode, StartQueue, CheckQueue, Pull, PullNothing, Judge,
       ReadBlock, Average, Call, Eval
<1>2. /\ AgreedTo(0)' = AgreedTo(0)
      /\ ConfirmationBlocks' = ConfirmationBlocks
  BY DEF AgreedTo, ConfirmationBlocks
<1>3. AgreedTo(begun) => FloorAt(begun)'
  BY <1>1 DEF FloorAt, AgreedTo, Scanning
<1>4. AgreedTo(Number(tip) + ConfirmationBlocks)
        => FloorAt(Number(tip) + ConfirmationBlocks)'
  BY <1>1, <1>2 DEF FloorAt, AgreedTo, Scanning, Number
<1>5. QED
  BY <1>1, <1>2, <1>3, <1>4 DEF Floor, FloorAt, Number

(* The nodes keep the third layer.                                         *)
LEMMA NodesFloor ==
  ASSUME Shape, Floor, Nodes
  PROVE  Floor'
<1> USE DEF scanVars, evalVars, waitVars
<1>1. /\ TypeOK /\ Chains /\ NodesNext /\ begun \in Nat
      /\ number \in Nat /\ ReorgDepth \in Nat /\ ConfirmationBlocks \in Nat
      /\ ConfirmationBlocks' = ConfirmationBlocks
      /\ UNCHANGED <<pc, back, number, probe, tip, begun>>
  BY Parameters DEF Shape, TypeOK, Nodes, ConfirmationBlocks
<1>2. ASSUME NEW n \in Nat, AgreedTo(n)
      PROVE  AgreedTo(n)'
  BY <1>1, <1>2, NodesKeepAgreed DEF AgreedTo
<1>3. ASSUME NEW n \in Nat, FloorAt(n)
      PROVE  FloorAt(n)'
  <2>1. AgreedTo(n)'
    BY <1>2, <1>3 DEF FloorAt
  <2>2. ASSUME pc = "compare", number + ReorgDepth <= n
        PROVE  \A i \in 1..(number + 1) : probe[i] = chain'[1][i]
    <3>1. \A i \in 1..(number + 1) : probe[i] = chain[1][i]
      BY <1>3, <2>2 DEF FloorAt
    <3>2. \A i \in 1..(n + 1) :
            (i = 1 \/ i <= n + 1 - ReorgDepth) => chain'[1][i] = chain[1][i]
      BY <1>1, <1>3, NodesKeepAgreed DEF FloorAt
    <3>3. \A i \in 1..(number + 1) : i \in 1..(n + 1) /\ i <= n + 1 - ReorgDepth
      BY <1>1, <2>2
    <3>4. QED
      BY <3>1, <3>2, <3>3
  <2>3. QED
    BY <1>1, <1>3, <2>1, <2>2 DEF FloorAt, Scanning
<1>4. AgreedTo(0)'
  BY <1>2 DEF Floor
<1>5. At("start") => FloorAt(begun)'
  <2>1. PICK n \in Nat : n = begun /\ n = begun'
    BY <1>1
  <2>2. At("start") => FloorAt(n)'
    BY <1>3, <2>1 DEF Floor
  <2>3. QED
    BY <2>1, <2>2 DEF FloorAt, AgreedTo, Scanning
<1>6. ASSUME tip # <<>>, Number(tip) > 0
      PROVE  FloorAt(Number(tip) + ConfirmationBlocks)'
  <2>1. Number(tip) \in Nat
    BY <1>6, NumberOf DEF Shape, TypeOK
  <2>2. PICK n \in Nat : n = Number(tip) + ConfirmationBlocks
    BY <1>1, <2>1
  <2>3. FloorAt(n)'
    BY <1>3, <1>6, <2>2 DEF Floor
  <2>4. n = (Number(tip) + ConfirmationBlocks)'
    BY <1>1, <2>2 DEF Number
  <2>5. QED
    BY <2>3, <2>4 DEF FloorAt, AgreedTo, Scanning
<1>7. QED
  BY <1>1, <1>4, <1>5, <1>6 DEF Floor, At, Calling, Number

LEMMA NextFloor == Shape /\ Shared /\ Floor /\ [Next]_vars => Floor'
<1> SUFFICES ASSUME Shape, Shared, Floor, [Next]_vars
             PROVE  Floor'
  OBVIOUS
<1>1. CASE Monitor
  BY <1>1, TipFloor, MeasuringFloor DEF Monitor
<1>2. CASE Nodes
  BY <1>2, NodesFloor
<1>3. CASE UNCHANGED vars
  BY <1>3 DEF Floor, FloorAt, AgreedTo, Scanning, At, Calling, Number,
     ConfirmationBlocks, vars, scanVars, evalVars, waitVars
<1>4. QED
  BY <1>1, <1>2, <1>3 DEF Next

(* The third layer holds in every reachable state.                         *)
LEMMA AlwaysFloor == Spec => []Floor
<1>1. Init => Floor
  BY InitFloor
<1>2. Shape /\ Shared /\ Floor /\ [Next]_vars => Floor'
  BY NextFloor
<1>3. QED
  BY <1>1, <1>2, AlwaysShape, AlwaysShared, PTL DEF Spec

-----------------------------------------------------------------------------
(* The fourth layer                                                        *)

Ranged == pc \in {"read", "judge", "measured"}

ElapsedRange == method.name = "elapsed" =>
  /\ pc = "start" => begun <= Number(tip) + ReorgDepth + Confirmation
  /\ At("warmup") \/ At("begin") =>
       begun + method.warmup <= target + ReorgDepth + Confirmation
  /\ Calling /\ back = "begin" => target <= Number(tip)
  /\ pc = "begin" => target <= Number(tip) + ReorgDepth
  /\ At("elapse") => target = from + method.window
  /\ At("elapse") \/ Ranged =>
       begun + method.warmup <= from + 2 * ReorgDepth + Confirmation
  /\ Ranged => end = from + method.window

TimedRange == method.name = "timed" =>
  /\ pc = "timer" \/ (Calling /\ back = "over") => from = Number(tip)
  /\ pc = "over" => from <= Number(tip) + ReorgDepth
  /\ At("over") \/ pc = "timer" \/ Ranged => from < Len(chain[1])
  /\ Ranged => from <= end + ReorgDepth

NearlyRange == method.name = "nearly" =>
  /\ At("queue") \/ pc = "pull" => method.window <= 1 \/ Len(queue) < method.window
  /\ Ranged => /\ method.window > 1
               /\ end + 1 = from + method.window
               /\ Len(queue) + 2 = method.window
               /\ \A i \in 1..Len(queue) : Number(queue[i]) = from + i
  /\ pc = "measured" => Nearly(queue)

Ranges ==
  /\ ElapsedRange
  /\ TimedRange
  /\ NearlyRange
  /\ method.name = "metric" /\ Ranged => from = 1
  /\ Ranged => end < Len(chain[1])
  /\ PanicsOnlyOnEmpty

(* Initially the fourth layer holds.                                       *)
LEMMA InitRanges == Init => Ranges
<1> SUFFICES ASSUME Init
             PROVE  Ranges
  OBVIOUS
<1> USE DEF Init, At, Calling, Ranged
<1>1. ElapsedRange
  BY DEF ElapsedRange
<1>2. TimedRange
  BY DEF TimedRange
<1>3. NearlyRange
  BY DEF NearlyRange
<1>4. QED
  BY <1>1, <1>2, <1>3 DEF Ranges, PanicsOnlyOnEmpty

(* get_confirmed_tip_header does not panic, and what it returns is lower   *)
(* than the tip before by at most ReorgDepth, and than what the endpoints  *)
(* had in common by at most Confirmation more.                             *)
LEMMA TipFalls ==
  ASSUME Shape, Shared, Floor, ConfirmedTip,
         UNCHANGED <<back, evalVars, waitVars, chain, method>>
  PROVE  \/ /\ pc \in {"tip", "scan", "compare"} /\ pc' \in {"scan", "compare"}
            /\ UNCHANGED tip
            /\ UNCHANGED begun \/ back = "start"
         \/ /\ pc = "compare" /\ pc' = back /\ UNCHANGED begun
            /\ tip' # <<>> /\ Number(tip') \in Nat
            /\ tip # <<>> => Number(tip) <= Number(tip') + ReorgDepth
            /\ back = "start" => begun <= Number(tip') + ReorgDepth + ConfirmationBlocks
<1>1. /\ Chains /\ 1 \in Endpoint /\ TypeOK
      /\ number \in Nat /\ ReorgDepth \in Nat /\ begun \in Nat
      /\ ConfirmationBlocks \in Nat
      /\ Len(chain[1]) \in Nat /\ Len(chain[1]) > 0
  BY Parameters DEF Shape, TypeOK, Chains, Header
<1>2. CASE GetTip
  BY <1>2 DEF GetTip
<1>3. CASE ScanHeader
  <2>1. CASE HasHeader(1, number)
    BY <1>3, <2>1 DEF ScanHeader
  <2>2. CASE ~ HasHeader(1, number)
    <3>1. number > 0
      BY <1>1, <2>2 DEF HasHeader
    <3>2. QED
      BY <1>3, <2>2, <3>1 DEF ScanHeader, NextNumber
  <2>3. QED
    BY <2>1, <2>2
<1>4. CASE Compare
  <2>1. CASE SameHeader(asked + 1)
    BY <1>4, <2>1 DEF Compare
  <2>2. CASE ~ SameHeader(asked + 1)
    <3>1. number # 0
      BY <1>4, <2>2, FloorIsFound DEF Compare, SameHeader, Floor
    <3>2. number > 0
      BY <1>1, <3>1
    <3>3. QED
      BY <1>4, <2>2, <3>2 DEF Compare, NextNumber
  <2>3. QED
    BY <2>1, <2>2
<1>5. CASE Confirm
  <2>1. HasHeader(1, Confirmed(number))
    <3>1. Agrees(1, probe) /\ Len(probe) = number + 1
      BY <1>1, <1>5 DEF Confirm, Shared, Shape, Endpoint
    <3>2. number < Len(chain[1])
      BY <1>1, <3>1 DEF Agrees
    <3>3. QED
      BY <1>1, <3>2 DEF HasHeader, Confirmed
  <2>2. /\ Number(tip') \in Nat /\ tip' # <<>>
        /\ number <= Number(tip') + ConfirmationBlocks
    BY <1>5, <2>1, ConfirmedNumber
  <2>3. pc = "compare" /\ pc' = back /\ begun' = begun
    BY <1>5, <2>1 DEF Confirm
  <2>4. ASSUME tip # <<>>
        PROVE  Number(tip) <= Number(tip') + ReorgDepth
    <3>1. Number(tip) \in Nat
      BY <2>4, NumberOf DEF Shape, TypeOK
    <3>2. CASE Number(tip) = 0
      BY <1>1, <2>2, <3>2
    <3>3. CASE Number(tip) > 0
      <4>1. number + ReorgDepth >= Number(tip) + ConfirmationBlocks
        BY <2>3, <2>4, <3>3 DEF Floor, FloorAt, Scanning
      <4>2. \A u, d, c, a, b \in Nat : u + d >= a + c /\ u <= b + c => a <= b + d
        OBVIOUS
      <4>3. QED
        BY <1>1, <2>2, <3>1, <4>1, <4>2
    <3>4. QED
      BY <3>1, <3>2, <3>3
  <2>5. ASSUME back = "start"
        PROVE  begun <= Number(tip') + ReorgDepth + ConfirmationBlocks
    <3>1. number + ReorgDepth >= begun
      BY <2>3, <2>5 DEF Floor, FloorAt, Scanning, At, Calling
    <3>2. \A u, d, c, a, b \in Nat : u + d >= a /\ u <= b + c => a <= b + d + c
      OBVIOUS
    <3>3. QED
      BY <1>1, <2>2, <3>1, <3>2
  <2>6. QED
    BY <2>2, <2>3, <2>4, <2>5
<1>6. QED
  BY <1>2, <1>3, <1>4, <1>5 DEF ConfirmedTip

(* Every step of get_confirmed_tip_header keeps the fourth layer.          *)
LEMMA TipRanges ==
  ASSUME Shape, Shared, Floor, Ranges, ConfirmedTip,
         UNCHANGED <<back, evalVars, waitVars, chain, method>>
  PROVE  Ranges'
<1> USE DEF evalVars, waitVars
<1>1. /\ ReorgDepth \in Nat /\ Confirmation \in Nat
      /\ back \in {"start", "warmup", "begin", "elapse", "over", "queue"}
      /\ from \in Nat /\ target \in Nat
  BY Parameters DEF Shape, TypeOK
<1>2. CASE /\ pc \in {"tip", "scan", "compare"} /\ pc' \in {"scan", "compare"}
           /\ UNCHANGED tip
           /\ UNCHANGED begun \/ back = "start"
  <2>1. ElapsedRange'
    BY <1>1, <1>2 DEF Ranges, ElapsedRange, At, Calling, Ranged
  <2>2. TimedRange'
    BY <1>1, <1>2 DEF Ranges, TimedRange, At, Calling, Ranged
  <2>3. NearlyRange'
    BY <1>1, <1>2 DEF Ranges, NearlyRange, At, Calling, Ranged
  <2>4. QED
    BY <1>2, <2>1, <2>2, <2>3 DEF Ranges, PanicsOnlyOnEmpty, Ranged
<1>3. CASE /\ pc = "compare" /\ pc' = back /\ UNCHANGED begun
           /\ tip' # <<>> /\ Number(tip') \in Nat
           /\ tip # <<>> => Number(tip) <= Number(tip') + ReorgDepth
           /\ back = "start" => begun <= Number(tip') + ReorgDepth + ConfirmationBlocks
  <2>1. ElapsedRange'
    <3>1. ASSUME method.name = "elapsed", back = "start"
          PROVE  begun' <= Number(tip') + ReorgDepth + Confirmation
      BY <1>3, <3>1 DEF ConfirmationBlocks
    <3>2. ASSUME method.name = "elapsed", back = "begin"
          PROVE  target' <= Number(tip') + ReorgDepth
      <4>1. tip # <<>> /\ target <= Number(tip)
        BY <1>3, <3>2 DEF Ranges, ElapsedRange, Calling, Shape, Roles
      <4>2. Number(tip) \in Nat
        BY <4>1, NumberOf DEF Shape, TypeOK
      <4>3. \A a, b, c, d \in Nat : a <= b /\ b <= c + d => a <= c + d
        OBVIOUS
      <4>4. QED
        BY <1>1, <1>3, <4>1, <4>2, <4>3
    <3>3. QED
      BY <1>1, <1>3, <3>1, <3>2 DEF Ranges, ElapsedRange, At, Calling, Ranged
  <2>2. TimedRange'
    <3>1. ASSUME method.name = "timed", back = "over"
          PROVE  from' <= Number(tip') + ReorgDepth
      BY <1>3, <3>1 DEF Ranges, TimedRange, Calling, Shape, Roles
    <3>2. QED
      BY <1>1, <1>3, <3>1 DEF Ranges, TimedRange, At, Calling, Ranged
  <2>3. NearlyRange'
    BY <1>1, <1>3 DEF Ranges, NearlyRange, At, Calling, Ranged
  <2>4. QED
    BY <1>1, <1>3, <2>1, <2>2, <2>3 DEF Ranges, PanicsOnlyOnEmpty, Ranged
<1>4. QED
  BY <1>2, <1>3, TipFalls

(* The steps of wait_custom_blocks_elapsed keep its range.                 *)
LEMMA MeasuringElapsed ==
  ASSUME Shape, Ranges, Measuring, UNCHANGED <<scanVars, chain, method>>
  PROVE  ElapsedRange'
<1> SUFFICES ASSUME method.name = "elapsed"
             PROVE  ElapsedRange'
  BY DEF ElapsedRange
<1> USE DEF scanVars, evalVars, waitVars
<1>1. /\ ReorgDepth \in Nat /\ Confirmation \in Nat
      /\ method.warmup \in Nat /\ method.window \in Nat
      /\ from \in Nat /\ target \in Nat /\ begun \in Nat
      /\ pc \notin {"tip", "scan", "compare", "panicked"} => Number(tip) \in Nat
  BY Parameters, NumberOf DEF Shape, TypeOK
<1>2. CASE StartWarmup
  <2>1. /\ pc = "start" /\ target' = Number(tip) + method.warmup /\ Number(tip) \in Nat
        /\ pc' = "tip" /\ back' = "warmup"
    BY <1>1, <1>2 DEF StartWarmup, WarmupEnd, Call
  <2>2. begun <= Number(tip) + ReorgDepth + Confirmation
    BY <2>1 DEF Ranges, ElapsedRange
  <2>3. begun + method.warmup <= target' + ReorgDepth + Confirmation
    <3>1. \A a, b, c, d, w \in Nat : a <= b + c + d => a + w <= (b + w) + c + d
      OBVIOUS
    <3>2. QED
      BY <1>1, <2>1, <2>2, <3>1
  <2>4. QED
    BY <2>1, <2>3 DEF ElapsedRange, At, Calling, Ranged
<1>3. CASE Warm
  <2>1. /\ pc = "warmup" /\ pc' = "tip" /\ UNCHANGED target
        /\ back' \in {"begin", "warmup"}
        /\ back' = "begin" => target <= Number(tip)
    BY <1>3 DEF Warm, Call, Reached
  <2>2. begun + method.warmup <= target + ReorgDepth + Confirmation
    BY <2>1 DEF Ranges, ElapsedRange, At
  <2>3. QED
    BY <2>1, <2>2 DEF ElapsedRange, At, Calling, Ranged, Number
<1>4. CASE Begin
  <2>1. /\ pc = "begin" /\ pc' = "tip" /\ back' = "elapse" /\ Number(tip) \in Nat
        /\ from' = Number(tip) /\ target' = Number(tip) + method.window
    BY <1>1, <1>4 DEF Begin, Call
  <2>2. /\ begun + method.warmup <= target + ReorgDepth + Confirmation
        /\ target <= Number(tip) + ReorgDepth
    BY <2>1 DEF Ranges, ElapsedRange, At
  <2>3. begun + method.warmup <= from' + 2 * ReorgDepth + Confirmation
    <3>1. \A a, w, g, b, c, d \in Nat :
            a + w <= g + c + d /\ g <= b + c => a + w <= b + 2 * c + d
      OBVIOUS
    <3>2. QED
      BY <1>1, <2>1, <2>2, <3>1
  <2>4. QED
    BY <2>1, <2>3 DEF ElapsedRange, At, Calling, Ranged
<1>5. CASE Elapse
  <2>1. /\ pc = "elapse" /\ from' = from /\ target' = target
        /\ \/ pc' = "read" /\ end' = target
           \/ pc' = "tip" /\ back' = "elapse"
    BY <1>5 DEF Elapse, Eval, Call, WindowEnd
  <2>2. /\ target = from + method.window
        /\ begun + method.warmup <= from + 2 * ReorgDepth + Confirmation
    BY <2>1 DEF Ranges, ElapsedRange, At
  <2>3. QED
    BY <2>1, <2>2 DEF ElapsedRange, At, Calling, Ranged
<1>6. CASE ReadBlock \/ Average
  <2>1. /\ pc = "read" /\ UNCHANGED <<from, end>>
        /\ pc' \in {"read", "judge", "measured", "panicked"}
    BY <1>6 DEF ReadBlock, Average
  <2>2. /\ end = from + method.window
        /\ begun + method.warmup <= from + 2 * ReorgDepth + Confirmation
    BY <2>1 DEF Ranges, ElapsedRange, Ranged
  <2>3. QED
    BY <2>1, <2>2 DEF ElapsedRange, At, Calling, Ranged
<1>7. ~ (StartTimer \/ TimeIsOver \/ Over \/ MetricMode \/ StartQueue \/ CheckQueue
         \/ Pull \/ PullNothing \/ Judge)
  BY DEF Shape, Roles, At, StartTimer, TimeIsOver, Over, MetricMode, StartQueue,
     CheckQueue, Pull, PullNothing, Judge
<1>8. QED
  BY <1>2, <1>3, <1>4, <1>5, <1>6, <1>7 DEF Measuring

(* The steps of wait_duration_time_elapsed keep its range.                 *)
LEMMA MeasuringTimed ==
  ASSUME Shape, Shared, Ranges, Measuring, UNCHANGED <<scanVars, chain, method>>
  PROVE  TimedRange'
<1> SUFFICES ASSUME method.name = "timed"
             PROVE  TimedRange'
  BY DEF TimedRange
<1> USE DEF scanVars, evalVars, waitVars
<1>1. CASE StartTimer
  <2>1. pc = "start" /\ pc' = "timer" /\ from' = Number(tip) /\ tip # <<>>
    BY <1>1 DEF StartTimer, Shape, TypeOK
  <2>2. Number(tip) < Len(chain[1])
    <3>1. Len(tip) <= Len(chain[1]) /\ Len(tip) \in Nat /\ Len(chain[1]) \in Nat
      BY Parameters DEF Shape, TypeOK, Shared, Header
    <3>2. QED
      BY <3>1 DEF Number
  <2>3. QED
    BY <2>1, <2>2 DEF TimedRange, At, Calling, Ranged, Number
<1>2. CASE TimeIsOver
  <2>1. pc = "timer" /\ pc' = "tip" /\ back' = "over" /\ from' = from
    BY <1>2 DEF TimeIsOver, Call
  <2>2. from = Number(tip) /\ from < Len(chain[1])
    BY <2>1 DEF Ranges, TimedRange
  <2>3. QED
    BY <2>1, <2>2 DEF TimedRange, At, Calling, Ranged, Number
<1>3. CASE Over
  <2>1. pc = "over" /\ pc' = "read" /\ from' = from /\ end' = Number(tip)
    BY <1>3 DEF Over, Eval
  <2>2. from <= Number(tip) + ReorgDepth /\ from < Len(chain[1])
    BY <2>1 DEF Ranges, TimedRange, At
  <2>3. QED
    BY <2>1, <2>2 DEF TimedRange, At, Calling, Ranged
<1>4. CASE ReadBlock \/ Average
  <2>1. /\ pc = "read" /\ UNCHANGED <<from, end>>
        /\ pc' \in {"read", "judge", "measured", "panicked"}
    BY <1>4 DEF ReadBlock, Average
  <2>2. from <= end + ReorgDepth /\ from < Len(chain[1])
    BY <2>1 DEF Ranges, TimedRange, Ranged
  <2>3. QED
    BY <2>1, <2>2 DEF TimedRange, At, Calling, Ranged
<1>5. ~ (StartWarmup \/ Warm \/ Begin \/ Elapse \/ MetricMode \/ StartQueue
         \/ CheckQueue \/ Pull \/ PullNothing \/ Judge)
  BY DEF Shape, Roles, At, StartWarmup, Warm, Begin, Elapse, MetricMode, StartQueue,
     CheckQueue, Pull, PullNothing, Judge
<1>6. QED
  BY <1>1, <1>2, <1>3, <1>4, <1>5 DEF Measuring

(* A queue that gets full holds as many consecutive blocks as the window.  *)
LEMMA FullQueue ==
  ASSUME Shape, Shared, Ranges, Pull, pc' = "read"
  PROVE  /\ method.window > 1
         /\ Len(queue') + 2 = method.window
         /\ from' \in Nat /\ end' \in Nat /\ end' + 1 = from' + method.window
         /\ end' < Len(chain[1])
         /\ \A i \in 1..Len(queue') : Number(queue'[i]) = from' + i
<1> DEFINE q == Append(MakeRoom(queue), HeaderByNumber(1, NextToQueue))
<1>1. pc = "pull" /\ method.name = "nearly" /\ queue # <<>> /\ queue \in Seq(Header)
  BY DEF Pull, Shape, TypeOK, Roles
<1>2. PICK w \in Nat, l \in Nat : /\ w = method.window /\ w > 0
                                  /\ l = Len(queue) /\ l > 0
  BY <1>1, Parameters, EmptySeq DEF Shape, Pull
<1>3. /\ HasHeader(1, NextToQueue) /\ NextToQueue \in Nat
      /\ q \in Seq(Header) /\ Len(q) = Len(MakeRoom(queue)) + 1
      /\ \A i \in 1..Len(q) : Len(q[i]) > 0
      /\ Last(q) = HeaderByNumber(1, NextToQueue)
      /\ Number(HeaderByNumber(1, NextToQueue)) = NextToQueue
  <2>1. HasHeader(1, NextToQueue)
    BY <1>1, PulledIsSettled, Zenon
  <2>2. QED
    BY <1>1, <2>1, QueueGrows, Zenon
<1>4. \A i \in 1..Len(q) : Len(q[i]) = Len(q[1]) + (i - 1)
  BY <1>1, PulledIsSettled, Zenon
<1>5. /\ Len(q) # 1 /\ ~ (Len(q) < w)
      /\ queue' = SubSeq(q, 2, Len(q) - 1)
      /\ from' = Number(q[1]) /\ end' = Number(Last(q))
  BY <1>2 DEF Pull, Call, Eval
<1>6. w > 1 /\ Len(q) = w
  <2>1. w = 1 \/ l < w
    BY <1>1, <1>2 DEF Ranges, NearlyRange
  <2>2. CASE l < w
    <3>1. Len(q) = l + 1
      BY <1>1, <1>2, <1>3, <2>2, RoomIsMade DEF Shape
    <3>2. QED
      BY <1>2, <1>5, <2>2, <3>1
  <2>3. CASE w = 1
    <3>1. l >= w
      BY <1>2, <2>3
    <3>2. Len(MakeRoom(queue)) = w - 1
      BY <1>1, <1>2, <3>1, RoomIsMade DEF Shape
    <3>3. QED
      BY <1>2, <1>3, <1>5, <2>3, <3>2
  <2>4. QED
    BY <2>1, <2>2, <2>3
<1>7. /\ Len(queue') = w - 2
      /\ \A i \in 1..(w - 2) : queue'[i] = q[i + 1]
  <2>1. Len(q) > 1
    BY <1>6
  <2>2. QED
    BY <1>3, <1>5, <1>6, <2>1, Inside
<1>8. PICK a \in Nat : a = Len(q[1]) /\ a > 0
  <2>1. 1 \in 1..Len(q)
    BY <1>6
  <2>2. q[1] \in Header /\ Len(q[1]) > 0
    BY <1>3, <2>1, ElementOfSeq
  <2>3. QED
    BY <2>2 DEF Header
<1>9. from' = a - 1 /\ from' \in Nat
  BY <1>5, <1>8 DEF Number
<1>10. \A i \in 1..w : Number(q[i]) = (a + (i - 1)) - 1
  BY <1>4, <1>6, <1>8 DEF Number
<1>11. \A i \in 1..Len(queue') : Number(queue'[i]) = from' + i
  <2>1. \A i \in 1..(w - 2) : i + 1 \in 1..w /\ (a + ((i + 1) - 1)) - 1 = (a - 1) + i
    BY <1>6
  <2>2. QED
    BY <1>7, <1>9, <1>10, <2>1
<1>12. end' \in Nat /\ end' + 1 = from' + w /\ end' < Len(chain[1])
  <2>1. end' = NextToQueue /\ end' = Number(q[w])
    BY <1>3, <1>5, <1>6 DEF Last
  <2>2. w \in 1..w
    BY <1>6
  <2>3. Number(q[w]) = (a + (w - 1)) - 1
    BY <1>10, <2>2
  <2>4. QED
    BY <1>3, <1>6, <1>9, <2>1, <2>3 DEF HasHeader
<1>13. QED
  BY <1>2, <1>6, <1>7, <1>9, <1>11, <1>12

(* The steps of wait_recent_blocktxns_nearly keep its range.               *)
LEMMA MeasuringNearly ==
  ASSUME Shape, Shared, Ranges, Measuring, UNCHANGED <<scanVars, chain, method>>
  PROVE  NearlyRange'
<1> SUFFICES ASSUME method.name = "nearly"
             PROVE  NearlyRange'
  BY DEF NearlyRange
<1> USE DEF scanVars, evalVars, waitVars
<1>1. method.window \in Nat
  BY Parameters DEF Shape
<1>2. CASE StartQueue
  <2>1. CASE HasBlock(1, tip)
    <3>1. pc' = "tip" /\ back' = "queue" /\ Len(queue') = 1
      BY <1>2, <2>1 DEF StartQueue, Call
    <3>2. method.window <= 1 \/ 1 < method.window
      BY <1>1
    <3>3. QED
      BY <3>1, <3>2 DEF NearlyRange, At, Calling, Ranged
  <2>2. CASE ~ HasBlock(1, tip)
    BY <1>2, <2>2 DEF StartQueue, NearlyRange, At, Calling, Ranged
  <2>3. QED
    BY <2>1, <2>2
<1>3. CASE CheckQueue
  BY <1>3 DEF CheckQueue, Call, Ranges, NearlyRange, At, Calling, Ranged
<1>4. CASE Pull
  <2> DEFINE q == Append(MakeRoom(queue), HeaderByNumber(1, NextToQueue))
  <2>1. CASE pc' = "read"
    <3>1. /\ method.window > 1
          /\ Len(queue') + 2 = method.window
          /\ end' + 1 = from' + method.window
          /\ \A i \in 1..Len(queue') : Number(queue'[i]) = from' + i
      BY <1>4, <2>1, FullQueue
    <3>2. QED
      BY <2>1, <3>1 DEF NearlyRange, At, Calling, Ranged, Number
  <2>2. CASE pc' = "tip"
    <3>1. queue' = q /\ Len(q) < method.window
      BY <1>4, <2>2 DEF Pull, Call, Eval
    <3>2. QED
      BY <2>2, <3>1 DEF NearlyRange, At, Calling, Ranged
  <2>3. CASE pc' = "panicked"
    BY <2>3 DEF NearlyRange, At, Calling, Ranged
  <2>4. QED
    BY <1>4, <2>1, <2>2, <2>3 DEF Pull, Call, Eval
<1>4a. CASE PullNothing
  <2>1. pc' \in {"spinning", "panicked"}
    BY <1>4a DEF PullNothing
  <2>2. QED
    BY <2>1 DEF NearlyRange, At, Calling, Ranged
<1>5. CASE Judge
  <2>1. /\ pc = "judge" /\ UNCHANGED <<from, end, queue>>
        /\ pc' \in {"tip", "panicked", "measured"}
        /\ pc' = "measured" => Nearly(queue)
    BY <1>5 DEF Judge, Call
  <2>2. /\ method.window > 1
        /\ end + 1 = from + method.window
        /\ Len(queue) + 2 = method.window
        /\ \A i \in 1..Len(queue) : Number(queue[i]) = from + i
    BY <2>1 DEF Ranges, NearlyRange, Ranged
  <2>3. Len(queue) < method.window
    BY <2>2 DEF Shape, TypeOK
  <2>4. QED
    BY <2>1, <2>2, <2>3 DEF NearlyRange, At, Calling, Ranged, Nearly, Number
<1>6. CASE ReadBlock \/ Average
  <2>1. /\ pc = "read" /\ UNCHANGED <<from, end, queue>>
        /\ pc' \in {"read", "judge", "panicked"}
    BY <1>6 DEF ReadBlock, Average
  <2>2. /\ method.window > 1
        /\ end + 1 = from + method.window
        /\ Len(queue) + 2 = method.window
        /\ \A i \in 1..Len(queue) : Number(queue[i]) = from + i
    BY <2>1 DEF Ranges, NearlyRange, Ranged
  <2>3. QED
    BY <2>1, <2>2 DEF NearlyRange, At, Calling, Ranged, Number
<1>7. ~ (StartWarmup \/ Warm \/ Begin \/ Elapse \/ StartTimer \/ TimeIsOver \/ Over
         \/ MetricMode)
  BY DEF Shape, Roles, At, StartWarmup, Warm, Begin, Elapse, StartTimer, TimeIsOver,
     Over, MetricMode
<1>8. QED
  BY <1>2, <1>3, <1>4, <1>4a, <1>5, <1>6, <1>7 DEF Measuring

(* The blocks that are evaluated are on the main chain.                    *)
LEMMA EndIsThere ==
  ASSUME Shape, Shared, Ranges, Measuring, UNCHANGED <<scanVars, chain, method>>,
         Ranged'
  PROVE  end' < Len(chain[1])
<1> USE DEF scanVars, evalVars, waitVars
<1>1. /\ Len(tip) <= Len(chain[1]) /\ Len(tip) \in Nat /\ Len(chain[1]) \in Nat
      /\ target \in Nat
  BY Parameters DEF Shape, TypeOK, Chains, Shared, Header
<1>2. CASE Elapse
  <2>1. end' = target /\ target <= Number(tip)
    BY <1>2 DEF Elapse, Eval, Call, WindowEnd, Reached, Ranged
  <2>2. QED
    BY <1>1, <2>1 DEF Number
<1>3. CASE Over \/ MetricMode
  <2>1. end' = Number(tip)
    BY <1>3 DEF Over, MetricMode, Eval
  <2>2. QED
    BY <1>1, <2>1 DEF Number
<1>4. CASE Pull
  <2>1. pc' = "read"
    BY <1>4 DEF Pull, Call, Eval, Ranged
  <2>2. QED
    BY <1>4, <2>1, FullQueue
<1>5. CASE Judge \/ ReadBlock \/ Average
  <2>1. pc \in {"read", "judge"} /\ UNCHANGED end
    BY <1>5 DEF Judge, ReadBlock, Average
  <2>2. QED
    BY <2>1 DEF Ranges, Ranged
<1>6. ~ (StartWarmup \/ Warm \/ Begin \/ StartTimer \/ TimeIsOver \/ StartQueue
         \/ CheckQueue \/ PullNothing)
  <2>1. back \in {"start", "warmup", "begin", "elapse", "over", "queue"}
    BY DEF Shape, TypeOK
  <2>2. QED
    BY DEF StartWarmup, Warm, Begin, StartTimer, TimeIsOver, StartQueue, CheckQueue,
       PullNothing, Call, Ranged
<1>7. QED
  BY <1>2, <1>3, <1>4, <1>5, <1>6 DEF Measuring

(* The steps of metric mode keep its range.                                *)
LEMMA MeasuringMetric ==
  ASSUME Shape, Ranges, Measuring, UNCHANGED <<scanVars, chain, method>>,
         method.name = "metric", Ranged'
  PROVE  from' = 1
<1> USE DEF scanVars, evalVars, waitVars
<1>1. CASE MetricMode
  BY <1>1 DEF MetricMode, Eval
<1>2. CASE ReadBlock \/ Average
  BY <1>2 DEF ReadBlock, Average, Ranges, Ranged
<1>3. ~ (StartWarmup \/ Warm \/ Begin \/ Elapse \/ StartTimer \/ TimeIsOver \/ Over
         \/ StartQueue \/ CheckQueue \/ Pull \/ PullNothing \/ Judge)
  BY DEF Shape, Roles, At, StartWarmup, Warm, Begin, Elapse, StartTimer, TimeIsOver,
     Over, StartQueue, CheckQueue, Pull, PullNothing, Judge
<1>4. QED
  BY <1>1, <1>2, <1>3 DEF Measuring

(* A step of the methods stops the thread only when there is nothing to    *)
(* look at.                                                                *)
LEMMA MeasuringPanics ==
  ASSUME Shape, Shared, Ranges, Measuring, UNCHANGED <<scanVars, chain, method>>,
         pc' \in {"panicked", "spinning"}
  PROVE  \/ method.name = "nearly" /\ method.window <= 2
         \/ method.name \in {"timed", "metric"} /\ from' = end' + 1
<1> USE DEF scanVars, evalVars, waitVars
<1>1. /\ method.name \in {"elapsed", "nearly", "timed", "metric"}
      /\ method.window \in Nat
      /\ from \in Nat /\ end \in Nat /\ reading \in Nat
      /\ Len(chain[1]) \in Nat /\ Chains /\ 1 \in Endpoint
      /\ tip \in Header /\ queue \in Seq(Header)
      /\ back \in {"start", "warmup", "begin", "elapse", "over", "queue"}
  BY Parameters DEF Shape, TypeOK, Chains, Header
<1>2. CASE StartQueue
  <2>1. tip # <<>> /\ IsConfirmed
    BY <1>2 DEF StartQueue, Shape, TypeOK, IsConfirmed
  <2>2. HasBlock(1, tip)
    <3>1. Settled(1, tip)
      BY <1>1, <2>1 DEF Shared, Everywhere
    <3>2. tip \in Header /\ Chains /\ 1 \in Endpoint
      BY <1>1
    <3>3. QED
      BY <3>1, <3>2, SettledIsThere
  <2>3. QED
    BY <1>2, <2>2 DEF StartQueue, Call
<1>3. CASE Pull
  <2> DEFINE q == Append(MakeRoom(queue), HeaderByNumber(1, NextToQueue))
  <2>1. pc = "pull" /\ method.name = "nearly" /\ queue # <<>>
    BY <1>3 DEF Pull, Shape, Roles
  <2>2. HasHeader(1, NextToQueue)
    BY <2>1, PulledIsSettled, Zenon
  <2>3. Len(q) = Len(MakeRoom(queue)) + 1
    BY <2>1, <2>2, QueueGrows, Zenon
  <2>4. Len(q) = 1
    BY <1>3, <2>2 DEF Pull, Call, Eval
  <2>5. ~ (Len(queue) < method.window)
    <3>1. ASSUME Len(queue) < method.window
          PROVE  FALSE
      <4>1. Len(q) = Len(queue) + 1
        BY <1>1, <2>3, <3>1, RoomIsMade DEF Shape
      <4>2. Len(queue) > 0 /\ Len(queue) \in Nat
        BY <1>1, <2>1, EmptySeq
      <4>3. QED
        BY <2>4, <4>1, <4>2
    <3>2. QED
      BY <3>1
  <2>6. method.window <= 1
    BY <2>1, <2>5 DEF Ranges, NearlyRange
  <2>7. QED
    BY <1>1, <2>1, <2>6
<1>3a. CASE PullNothing
  BY <1>3a DEF PullNothing, Shape, Roles
<1>4. CASE Judge
  <2>1. pc = "judge" /\ method.name = "nearly" /\ queue = <<>>
    BY <1>4 DEF Judge, Call, Shape, Roles
  <2>2. Len(queue) + 2 = method.window /\ Len(queue) = 0
    BY <2>1 DEF Ranges, NearlyRange, Ranged
  <2>3. QED
    BY <2>1, <2>2
<1>5. CASE ReadBlock
  <2>1. pc = "read" /\ reading <= end /\ ~ HasHeader(1, reading)
    BY <1>5 DEF ReadBlock, MoreToRead
  <2>2. end < Len(chain[1])
    BY <2>1 DEF Ranges, Ranged
  <2>3. QED
    BY <1>1, <2>1, <2>2 DEF HasHeader
<1>6. CASE Average
  <2>1. /\ pc = "read" /\ UNCHANGED <<from, end>>
        /\ ~ (HasHeader(1, from) /\ HasHeader(1, end) /\ end + 1 # from)
    BY <1>6 DEF Average
  <2>2. end < Len(chain[1])
    BY <2>1 DEF Ranges, Ranged
  <2>3. CASE method.name = "elapsed"
    <3>1. end = from + method.window
      BY <2>1, <2>3 DEF Ranges, ElapsedRange, Ranged
    <3>2. QED
      BY <1>1, <2>1, <2>2, <3>1 DEF HasHeader
  <2>4. CASE method.name = "nearly"
    <3>1. end + 1 = from + method.window /\ method.window > 1
      BY <2>1, <2>4 DEF Ranges, NearlyRange, Ranged
    <3>2. QED
      BY <1>1, <2>1, <2>2, <3>1 DEF HasHeader
  <2>5. CASE method.name = "timed"
    <3>1. from < Len(chain[1])
      BY <2>1, <2>5 DEF Ranges, TimedRange, Ranged
    <3>2. QED
      BY <1>1, <2>1, <2>2, <2>5, <3>1 DEF HasHeader
  <2>6. CASE method.name = "metric"
    <3>1. from = 1
      BY <2>1, <2>6 DEF Ranges, Ranged
    <3>2. QED
      BY <1>1, <2>1, <2>2, <2>6, <3>1 DEF HasHeader
  <2>7. QED
    BY <1>1, <2>3, <2>4, <2>5, <2>6
<1>7. ~ (StartWarmup \/ Warm \/ Begin \/ Elapse \/ StartTimer \/ TimeIsOver \/ Over
         \/ MetricMode \/ CheckQueue)
  BY <1>1 DEF StartWarmup, Warm, Begin, Elapse, StartTimer, TimeIsOver, Over,
     MetricMode, CheckQueue, Call, Eval
<1>8. QED
  BY <1>2, <1>3, <1>3a, <1>4, <1>5, <1>6, <1>7 DEF Measuring

(* Every step of the methods keeps the fourth layer.                       *)
LEMMA MeasuringRanges ==
  ASSUME Shape, Shared, Ranges, Measuring, UNCHANGED <<scanVars, chain, method>>
  PROVE  Ranges'
<1>1. ElapsedRange' /\ TimedRange' /\ NearlyRange'
  BY MeasuringElapsed, MeasuringTimed, MeasuringNearly
<1>2. (method.name = "metric" /\ Ranged)' => from' = 1
  BY MeasuringMetric
<1>3. Ranged' => end' < Len(chain'[1])
  BY EndIsThere
<1>4. PanicsOnlyOnEmpty'
  BY MeasuringPanics DEF PanicsOnlyOnEmpty
<1>5. QED
  BY <1>1, <1>2, <1>3, <1>4 DEF Ranges

(* The nodes keep the fourth layer.                                        *)
LEMMA NodesRanges ==
  ASSUME Shape, Ranges, Nodes
  PROVE  Ranges'
<1> USE DEF scanVars, evalVars, waitVars
<1>1. UNCHANGED <<method, pc, back, tip, begun, from, end, target, queue>>
  BY DEF Nodes
<1>2. \A n \in Nat : n < Len(chain[1]) => n < Len(chain'[1])
  <2>1. Len(chain[1]) <= Len(chain'[1])
    BY Parameters, NodesGrow DEF Shape, Nodes
  <2>2. Len(chain[1]) \in Nat /\ Len(chain'[1]) \in Nat
    BY Parameters, NextChains DEF Shape, Nodes, Chains, Header
  <2>3. QED
    BY <2>1, <2>2
<1>3. from \in Nat /\ end \in Nat
  BY DEF Shape, TypeOK
<1>4. ElapsedRange'
  BY <1>1 DEF Ranges, ElapsedRange, At, Calling, Ranged, Number
<1>5. TimedRange'
  BY <1>1, <1>2, <1>3 DEF Ranges, TimedRange, At, Calling, Ranged, Number
<1>6. NearlyRange'
  BY <1>1 DEF Ranges, NearlyRange, At, Calling, Ranged, Number, Nearly
<1>7. QED
  BY <1>1, <1>2, <1>3, <1>4, <1>5, <1>6 DEF Ranges, Ranged, PanicsOnlyOnEmpty

LEMMA NextRanges == Shape /\ Shared /\ Floor /\ Ranges /\ [Next]_vars => Ranges'
<1> SUFFICES ASSUME Shape, Shared, Floor, Ranges, [Next]_vars
             PROVE  Ranges'
  OBVIOUS
<1>1. CASE Monitor
  BY <1>1, TipRanges, MeasuringRanges DEF Monitor
<1>2. CASE Nodes
  BY <1>2, NodesRanges
<1>3. CASE UNCHANGED vars
  <2>1. UNCHANGED <<chain, method, pc, back, tip, begun, from, end, target, queue>>
    BY <1>3 DEF vars, scanVars, evalVars, waitVars
  <2>2. ElapsedRange' /\ TimedRange'
    BY <2>1 DEF Ranges, ElapsedRange, TimedRange, At, Calling, Ranged, Number
  <2>3. NearlyRange'
    BY <2>1 DEF Ranges, NearlyRange, At, Calling, Ranged, Number, Nearly
  <2>4. QED
    BY <2>1, <2>2, <2>3 DEF Ranges, Ranged, PanicsOnlyOnEmpty
<1>4. QED
  BY <1>1, <1>2, <1>3 DEF Next

(* The fourth layer holds in every reachable state.                        *)
LEMMA AlwaysRanges == Spec => []Ranges
<1>1. Init => Ranges
  BY InitRanges
<1>2. Shape /\ Shared /\ Floor /\ Ranges /\ [Next]_vars => Ranges'
  BY NextRanges
<1>3. QED
  BY <1>1, <1>2, AlwaysShape, AlwaysShared, AlwaysFloor, PTL DEF Spec

-----------------------------------------------------------------------------
(* The fifth layer                                                         *)

(* The numbers of transactions of the blocks of a path.                    *)
Counts(h) == [n \in 0..Number(h) |-> TxCount[h[n + 1]]]

(* What eval_blocks has added up so far is the sum over a path that ends   *)
(* at end and is settled everywhere.                                       *)
SumOn(h) ==
  /\ Everywhere(h)
  /\ Len(h) = end + 1
  /\ total = SumFunctionOnSet(Counts(h), from..(reading - 1))

Summed == Ranged /\ IsConfirmed =>
  /\ from <= reading
  /\ from < reading => reading <= end + 1
  /\ pc # "read" => end < reading
  /\ \E h \in Header : SumOn(h)

(* The number of transactions of a block of a path.                        *)
LEMMA CountsOf ==
  ASSUME NEW h \in Header, NEW n \in Nat, n < Len(h)
  PROVE  Counts(h)[n] = TxCount[h[n + 1]] /\ Counts(h)[n] \in Nat
<1>1. n \in 0..Number(h) /\ n + 1 \in 1..Len(h)
  BY DEF Number, Header
<1>2. h[n + 1] \in Block
  BY <1>1, ElementOfSeq DEF Header
<1>3. QED
  BY <1>1, <1>2, MonitorAssumption DEF Counts

(* A node reads the same bodies, by number, as a path that is settled      *)
(* there has.                                                              *)
LEMMA BodyIsThere ==
  ASSUME Chains, NEW e \in Endpoint, NEW h \in Header, Settled(e, h),
         NEW n \in Nat, n < Len(h)
  PROVE  HasHeader(e, n) /\ TxCount[Body(HeaderByNumber(e, n))] = Counts(h)[n]
<1>1. /\ Len(h) \in Nat /\ Len(chain[e]) \in Nat /\ chain[e] \in Header
      /\ Len(h) <= Len(chain[e])
  BY DEF Chains, Header, Settled
<1>2. HasHeader(e, n)
  BY <1>1 DEF HasHeader
<1>3. /\ Len(HeaderByNumber(e, n)) = n + 1
      /\ HeaderByNumber(e, n)[n + 1] = chain[e][n + 1]
  BY <1>1, AncestorProperties DEF HeaderByNumber
<1>4. chain[e][n + 1] = h[n + 1]
  BY <1>1 DEF Settled
<1>5. QED
  BY <1>2, <1>3, <1>4, CountsOf DEF Body

(* Initially the fifth layer holds.                                        *)
LEMMA InitSummed == Init => Summed
BY DEF Init, Summed, Ranged

(* Nothing is added up yet when eval_blocks starts.                        *)
LEMMA EvalSummed ==
  ASSUME Shape, NEW m \in Nat, NEW h \in Header, h # <<>>, Everywhere(h),
         Eval(m, Number(h)), UNCHANGED <<chain, method>>
  PROVE  Summed'
<1>1. /\ from' = m /\ end' = Number(h) /\ reading' = m /\ total' = 0 /\ pc' = "read"
      /\ Number(h) \in Nat /\ Len(h) = Number(h) + 1
  BY NumberOf DEF Eval
<1>2. from'..(reading' - 1) = {}
  BY <1>1
<1>3. total' = SumFunctionOnSet(Counts(h), from'..(reading' - 1))
  BY <1>1, <1>2, SumOfNothing
<1>4. SumOn(h)'
  BY <1>1, <1>3 DEF SumOn, Everywhere, Settled
<1>5. QED
  BY <1>1, <1>4 DEF Summed

(* eval_blocks starts on blocks that are settled everywhere.               *)
LEMMA MeasuringStarts ==
  ASSUME Shape, Shared, Ranges, Elapse \/ Over \/ Pull,
         UNCHANGED <<scanVars, chain, method>>
  PROVE  Summed'
<1> USE DEF scanVars, evalVars, waitVars
<1> SUFFICES ASSUME pc' = "read", IsConfirmed
             PROVE  Summed'
  <2>1. pc' \in {"read", "tip", "panicked"}
    BY DEF Elapse, Over, Pull, Call, Eval
  <2>2. IsConfirmed' = IsConfirmed
    BY DEF IsConfirmed
  <2>3. QED
    BY <2>1, <2>2 DEF Summed, Ranged
<1>1. /\ Chains /\ 1 \in Endpoint /\ from \in Nat /\ target \in Nat
      /\ tip \in Header /\ tip # <<>> /\ chain[1] \in Header
  BY Parameters DEF Shape, TypeOK, Chains, Elapse, Over, Pull
<1>2. Everywhere(tip) /\ Number(tip) \in Nat /\ Len(tip) = Number(tip) + 1
  BY <1>1, NumberOf DEF Shared
<1>3. CASE Over
  <2>1. Eval(from, Number(tip))
    BY <1>3 DEF Over
  <2>2. QED
    BY <1>1, <1>2, <2>1, EvalSummed
<1>4. CASE Elapse
  <2>1. target <= Number(tip) /\ Eval(from, target)
    BY <1>4 DEF Elapse, Call, Reached, WindowEnd
  <2>2. PICK h : h = Ancestor(chain[1], target)
    OBVIOUS
  <2>3. \A e \in Endpoint : Settled(e, h) /\ h = Ancestor(tip, target)
    BY <1>1, <1>2, <2>1, <2>2, SettledAncestors DEF Everywhere
  <2>4. h \in Header /\ Len(h) = target + 1
    BY <1>1, <1>2, <2>1, <2>3, AncestorProperties
  <2>5. Number(h) = target /\ h # <<>>
    BY <1>1, <2>4 DEF Number, Header
  <2>6. QED
    BY <1>1, <2>1, <2>3, <2>4, <2>5, EvalSummed DEF Everywhere
<1>5. CASE Pull
  <2> DEFINE h == HeaderByNumber(1, NextToQueue)
             q == Append(MakeRoom(queue), h)
  <2>1. pc = "pull"
    BY <1>5 DEF Pull
  <2>2. HasHeader(1, NextToQueue) /\ \A i \in 1..Len(q) : Everywhere(q[i])
    BY <2>1, PulledIsSettled, Zenon
  <2>3. /\ h \in Header /\ h # <<>> /\ q \in Seq(Header) /\ Last(q) = h
        /\ Len(q) = Len(MakeRoom(queue)) + 1
        /\ \A i \in 1..Len(q) : Len(q[i]) > 0
    BY <2>1, <2>2, QueueGrows, Zenon
  <2>4. Eval(Number(q[1]), Number(h))
    BY <1>5, <2>3 DEF Pull, Call
  <2>5. Len(q) \in 1..Len(q) /\ 1 \in 1..Len(q)
    <3>1. Len(MakeRoom(queue)) \in Nat
      BY RoomIsMade DEF Shape, TypeOK
    <3>2. QED
      BY <2>3, <3>1
  <2>6. Everywhere(h)
    BY <2>2, <2>3, <2>5, Zenon DEF Last
  <2>7. Number(q[1]) \in Nat
    <3>1. q[1] \in Header /\ Len(q[1]) > 0
      BY <2>3, <2>5, ElementOfSeq
    <3>2. QED
      BY <3>1, NumberOf
  <2>8. QED
    BY <2>3, <2>4, <2>6, <2>7, EvalSummed
<1>6. QED
  BY <1>3, <1>4, <1>5

(* One block more is read, by number, while the nodes move on.             *)
LEMMA ReadSummed ==
  ASSUME Shape, Summed, ReadBlock, UNCHANGED <<scanVars, chain, method>>
  PROVE  Summed'
<1> USE DEF scanVars, evalVars, waitVars
<1> SUFFICES ASSUME pc' = "read", IsConfirmed
             PROVE  Summed'
  <2>1. pc' \in {"read", "panicked"}
    BY DEF ReadBlock
  <2>2. IsConfirmed' = IsConfirmed
    BY DEF IsConfirmed
  <2>3. QED
    BY <2>1, <2>2 DEF Summed, Ranged
<1>1. /\ Chains /\ 1 \in Endpoint
      /\ from \in Nat /\ end \in Nat /\ reading \in Nat /\ total \in Nat
  BY Parameters DEF Shape, TypeOK
<1>2. /\ pc = "read" /\ reading <= end /\ HasHeader(1, reading)
      /\ total' = total + TxCount[Body(HeaderByNumber(1, reading))]
      /\ reading' = reading + 1
      /\ UNCHANGED <<from, end>>
  BY DEF ReadBlock, MoreToRead
<1>3. PICK h \in Header : SumOn(h)
  BY <1>2 DEF Summed, Ranged
<1>4. from <= reading
  BY <1>2 DEF Summed, Ranged
<1>5. /\ Len(h) = end + 1 /\ Settled(1, h)
      /\ total = SumFunctionOnSet(Counts(h), from..(reading - 1))
  BY <1>1, <1>3 DEF SumOn, Everywhere
<1>6. reading < Len(h)
  BY <1>1, <1>2, <1>5
<1>7. total' = total + Counts(h)[reading]
  BY <1>1, <1>2, <1>5, <1>6, BodyIsThere
<1> DEFINE S == from..(reading - 1)
<1>8. /\ IsFiniteSet(S) /\ reading \notin S
      /\ S \cup {reading} = from..(reading' - 1)
      /\ \A n \in S \cup {reading} : n \in Nat /\ n < Len(h)
  <2>1. IsFiniteSet(S)
    BY <1>1, FS_Interval
  <2>2. QED
    BY <1>1, <1>2, <1>4, <1>6, <2>1
<1>9. \A n \in S \cup {reading} : Counts(h)[n] \in Int
  <2> HIDE DEF S
  <2>1. QED
    BY <1>8, CountsOf
<1>10. total' = SumFunctionOnSet(Counts(h), from'..(reading' - 1))
  <2>1. SumFunctionOnSet(Counts(h), S \cup {reading})
          = SumFunctionOnSet(Counts(h), S) + Counts(h)[reading]
    <3> HIDE DEF S
    <3>1. QED
      BY <1>8, <1>9, SumOfOneMore
  <2>2. QED
    BY <1>2, <1>5, <1>7, <1>8, <2>1
<1>11. SumOn(h)'
  BY <1>2, <1>3, <1>10 DEF SumOn, Everywhere, Settled
<1>12. from' <= reading' /\ reading' <= end' + 1
  BY <1>1, <1>2, <1>4
<1>13. QED
  BY <1>11, <1>12 DEF Summed

(* Every step of the methods keeps the fifth layer.                        *)
LEMMA MeasuringSummed ==
  ASSUME Shape, Shared, Ranges, Summed, Measuring, UNCHANGED <<scanVars, chain, method>>
  PROVE  Summed'
<1> USE DEF scanVars, evalVars, waitVars
<1>1. CASE Elapse \/ Over \/ Pull
  BY <1>1, MeasuringStarts
<1>2. CASE ReadBlock
  BY <1>2, ReadSummed
<1>3. CASE MetricMode
  BY <1>3 DEF MetricMode, Summed, IsConfirmed
<1>4. CASE Average \/ Judge
  <2>1. /\ pc \in {"read", "judge"}
        /\ UNCHANGED <<chain, method, from, end, reading, total>>
        /\ pc = "read" => end < reading
    BY <1>4 DEF Average, Judge, MoreToRead, Shape, TypeOK
  <2>2. SUFFICES ASSUME IsConfirmed
                 PROVE  Summed'
    BY <2>1 DEF Summed, IsConfirmed
  <2>3. /\ from <= reading
        /\ from < reading => reading <= end + 1
        /\ end < reading
        /\ \E h \in Header : SumOn(h)
    BY <2>1, <2>2 DEF Summed, Ranged
  <2>4. \E h \in Header : SumOn(h)'
    BY <2>1, <2>3 DEF SumOn, Everywhere, Settled
  <2>5. QED
    BY <2>1, <2>3, <2>4 DEF Summed
<1>5. CASE StartWarmup \/ Warm \/ Begin \/ StartTimer \/ TimeIsOver \/ StartQueue
           \/ CheckQueue \/ PullNothing
  BY <1>5 DEF StartWarmup, Warm, Begin, StartTimer, TimeIsOver, StartQueue, CheckQueue,
     PullNothing, Call, Summed, Ranged
<1>6. QED
  BY <1>1, <1>2, <1>3, <1>4, <1>5 DEF Measuring

LEMMA NextSummed == Shape /\ Shared /\ Ranges /\ Summed /\ [Next]_vars => Summed'
<1> SUFFICES ASSUME Shape, Shared, Ranges, Summed, [Next]_vars
             PROVE  Summed'
  OBVIOUS
<1> USE DEF scanVars, evalVars, waitVars
<1>1. CASE Monitor
  <2>1. CASE ConfirmedTip /\ UNCHANGED <<back, evalVars, waitVars>>
    <3>1. pc' \notin {"read", "judge", "measured"}
      BY <2>1 DEF ConfirmedTip, GetTip, ScanHeader, Compare, Confirm, NextNumber, Shape,
         TypeOK
    <3>2. QED
      BY <3>1 DEF Summed, Ranged
  <2>2. QED
    BY <1>1, <2>1, MeasuringSummed DEF Monitor
<1>2. CASE Nodes
  <2>1. NodesNext /\ UNCHANGED <<method, pc, from, end, reading, total>> /\ Chains
    BY <1>2 DEF Nodes, Shape
  <2>2. SUFFICES ASSUME Ranged, IsConfirmed
                 PROVE  Summed'
    BY <2>1 DEF Summed, IsConfirmed, Ranged
  <2>3. PICK h \in Header : SumOn(h)
    BY <2>2 DEF Summed
  <2>4. Everywhere(h)'
    BY <2>1, <2>3, NodesSettle DEF SumOn, Everywhere, Settled
  <2>5. SumOn(h)'
    BY <2>1, <2>3, <2>4 DEF SumOn
  <2>6. QED
    BY <2>1, <2>2, <2>5 DEF Summed
<1>3. CASE UNCHANGED vars
  <2>1. UNCHANGED <<chain, method, pc, from, end, reading, total>>
    BY <1>3 DEF vars
  <2>2. QED
    BY <2>1 DEF Summed, SumOn, Everywhere, Settled, Ranged, IsConfirmed
<1>4. QED
  BY <1>1, <1>2, <1>3 DEF Next

(* The fifth layer holds in every reachable state.                         *)
LEMMA AlwaysSummed == Spec => []Summed
<1>1. Init => Summed
  BY InitSummed
<1>2. Shape /\ Shared /\ Ranges /\ Summed /\ [Next]_vars => Summed'
  BY NextSummed
<1>3. QED
  BY <1>1, <1>2, AlwaysShape, AlwaysShared, AlwaysRanges, PTL DEF Spec

-----------------------------------------------------------------------------
(* The theorems                                                            *)

(* The variables of the network monitor have their types, and the tip is   *)
(* there when its number is asked for.                                     *)
THEOREM TypeCorrect == Spec => []TypeOK
<1>1. Shape => TypeOK
  BY DEF Shape
<1>2. QED
  BY <1>1, AlwaysShape, PTL

(* get_confirmed_tip_header returns a header that all endpoints keep: the  *)
(* confirmation outweighs the calls that it is not atomic with.            *)
THEOREM TipStaysCommon == Spec => []TipIsCommon
<1>1. Shape /\ Shared => TipIsCommon
  <2> SUFFICES ASSUME Shape, Shared, IsConfirmed, tip # <<>>, NEW e \in Endpoint
               PROVE  HasBlock(e, tip)
    BY DEF TipIsCommon
  <2>1. Settled(e, tip) /\ tip \in Header /\ Chains
    BY DEF Shared, Everywhere, Shape, TypeOK
  <2>2. QED
    BY <2>1, SettledIsThere
<1>2. QED
  BY <1>1, AlwaysShape, AlwaysShared, PTL

(* The queue of wait_recent_blocktxns_nearly, pulled one block at a time   *)
(* by number, is a piece of the chain that all endpoints keep.             *)
THEOREM QueueStaysChain == Spec => []QueueIsChain
<1>1. Shape /\ Shared => QueueIsChain
  <2> SUFFICES ASSUME Shape, Shared
               PROVE  QueueIsChain
    OBVIOUS
  <2>1. /\ Chains /\ 1 \in Endpoint /\ queue \in Seq(Header) /\ Len(queue) \in Nat
        /\ \A i \in 1..Len(queue) : queue[i] \in Header /\ Len(queue[i]) > 0
        /\ \A i \in 1..Len(queue) : Len(queue[i]) \in Nat
    BY Parameters, ElementOfSeq DEF Shape, TypeOK, Header
  <2>2. ASSUME NEW i \in 1..Len(queue), NEW e \in Endpoint
        PROVE  HasBlock(e, queue[i])
    BY <2>1, <2>2, SettledIsThere DEF Shared, Everywhere
  <2>3. ASSUME NEW i \in 1..(Len(queue) - 1)
        PROVE  Parent(queue[i + 1]) = queue[i]
    <3>1. i \in 1..Len(queue) /\ i + 1 \in 1..Len(queue) /\ 1 \in 1..Len(queue)
      BY <2>1
    <3>2. PICK g \in Header, h \in Header : g = queue[i] /\ h = queue[i + 1]
      BY <2>1, <3>1
    <3>3. PICK a \in Nat : a = Len(queue[1])
      BY <2>1, <3>1
    <3>4. Len(g) = a + (i - 1) /\ Len(h) = a + ((i + 1) - 1)
      BY <3>1, <3>2, <3>3 DEF Shared
    <3>5. Len(h) - 1 = Len(g) /\ Len(h) > 1
      <4>1. Len(g) > 0
        BY <2>1, <3>1, <3>2
      <4>2. QED
        BY <2>1, <3>1, <3>3, <3>4, <4>1
    <3>6. /\ \A j \in 1..Len(g) : chain[1][j] = g[j]
          /\ \A j \in 1..Len(h) : chain[1][j] = h[j]
      BY <2>1, <3>1, <3>2 DEF Shared, Everywhere, Settled
    <3>7. /\ Parent(h) \in Header /\ Len(Parent(h)) = Len(g)
          /\ \A j \in 1..Len(g) : Parent(h)[j] = h[j]
      BY <3>5, ParentProperties
    <3>8. \A j \in 1..Len(g) : Parent(h)[j] = g[j]
      BY <3>5, <3>6, <3>7
    <3>9. Parent(h) = g
      BY <3>7, <3>8, SeqEqual DEF Header
    <3>10. QED
      BY <3>2, <3>9
  <2>4. QED
    BY <2>2, <2>3 DEF QueueIsChain
<1>2. QED
  BY <1>1, AlwaysShape, AlwaysShared, PTL

(* The monitor panics, or loops for ever, for two reasons only: a queue    *)
(* with nothing between its ends, and a range without a block.             *)
THEOREM PanicsAreExplained == Spec => []PanicsOnlyOnEmpty
<1>1. Ranges => PanicsOnlyOnEmpty
  BY DEF Ranges
<1>2. QED
  BY <1>1, AlwaysRanges, PTL

(* The range measured is the window that was asked for; when it is given   *)
(* by the time, it is out of order by at most ReorgDepth blocks.           *)
THEOREM RangeIsCovered == Spec => []RangeCovers
<1>1. Shape /\ Ranges => RangeCovers
  <2> SUFFICES ASSUME Shape, Ranges, pc \in {"read", "measured"}
               PROVE  CASE method.name = "elapsed" -> end = from + method.window
                        [] method.name = "nearly"  -> end = from + method.window - 1
                        [] method.name = "timed"   -> from <= end + ReorgDepth
                        [] method.name = "metric"  -> from = 1
    BY DEF RangeCovers
  <2>1. /\ from \in Nat /\ end \in Nat /\ method.window \in Nat
        /\ method.name \in {"elapsed", "nearly", "timed", "metric"}
    BY Parameters DEF Shape, TypeOK
  <2>2. /\ method.name = "elapsed" => end = from + method.window
        /\ method.name = "nearly"  => end + 1 = from + method.window
        /\ method.name = "timed"   => from <= end + ReorgDepth
        /\ method.name = "metric"  => from = 1
    BY DEF Ranges, ElapsedRange, NearlyRange, TimedRange, Ranged
  <2>3. method.name = "nearly" => end = from + method.window - 1
    BY <2>1, <2>2
  <2>4. QED
    BY <2>1, <2>2, <2>3
<1>2. QED
  BY <1>1, AlwaysShape, AlwaysRanges, PTL

(* The blocks measured were mined after the benchmark began and after its  *)
(* warm-up, but for Confirmation and twice ReorgDepth of them.             *)
THEOREM MeasuredRecently == Spec => []MeasuredIsRecent
<1>1. Shape /\ Ranges => MeasuredIsRecent
  <2> SUFFICES ASSUME Shape, Ranges, pc = "measured", method.name = "elapsed"
               PROVE  from + Confirmation + 2 * ReorgDepth >= begun + method.warmup
    BY DEF MeasuredIsRecent
  <2>1. /\ ReorgDepth \in Nat /\ Confirmation \in Nat /\ method.warmup \in Nat
        /\ from \in Nat /\ begun \in Nat
    BY Parameters DEF Shape, TypeOK
  <2>2. begun + method.warmup <= from + 2 * ReorgDepth + Confirmation
    BY DEF Ranges, ElapsedRange, Ranged
  <2>3. QED
    BY <2>1, <2>2
<1>2. QED
  BY <1>1, AlwaysShape, AlwaysRanges, PTL

(* What was judged in the queue holds of the chain of the first endpoint,  *)
(* whatever the nodes did since the blocks were queued.                    *)
THEOREM MeasuredStaysNearly == Spec => []MeasuredIsNearly
<1>1. Shape /\ Shared /\ Ranges => MeasuredIsNearly
  <2> DEFINE count(n) == TxCount[Body(HeaderByNumber(1, n))]
  <2> SUFFICES ASSUME Shape, Shared, Ranges, pc = "measured", method.name = "nearly",
                      NEW m \in (from + 1)..(end - 1), NEW n \in (from + 1)..(end - 1)
               PROVE  count(m) <= count(n) + method.margin
    BY DEF MeasuredIsNearly
  <2>1. /\ Chains /\ 1 \in Endpoint /\ queue \in Seq(Header) /\ Len(queue) \in Nat
        /\ from \in Nat /\ end \in Nat /\ method.window \in Nat
    BY Parameters DEF Shape, TypeOK
  <2>2. /\ end + 1 = from + method.window
        /\ Len(queue) + 2 = method.window
        /\ \A i \in 1..Len(queue) : Number(queue[i]) = from + i
        /\ Nearly(queue)
    BY DEF Ranges, NearlyRange, Ranged
  <2>3. ASSUME NEW k \in (from + 1)..(end - 1)
        PROVE  k - from \in 1..Len(queue) /\ HeaderByNumber(1, k) = queue[k - from]
    <3>1. k - from \in 1..Len(queue) /\ from + (k - from) = k /\ k \in Nat
      BY <2>1, <2>2
    <3>2. PICK h \in Header : h = queue[k - from]
      BY <2>1, <3>1, ElementOfSeq
    <3>3. Len(h) = k + 1
      BY <2>2, <3>1, <3>2 DEF Number, Header
    <3>4. HasBlock(1, h)
      BY <2>1, <3>1, <3>2, SettledIsThere DEF Shared, Everywhere
    <3>5. QED
      BY <3>1, <3>2, <3>3, <3>4 DEF HasBlock, HeaderByNumber, Ancestor
  <2>4. QED
    BY <2>2, <2>3 DEF Nearly
<1>2. QED
  BY <1>1, AlwaysShape, AlwaysShared, AlwaysRanges, PTL

(* What eval_blocks adds up is what the blocks from..end of every endpoint *)
(* hold, whatever the nodes did while it read them one by one.             *)
THEOREM TotalStaysExact == Spec => []TotalIsExact
<1>1. Shape /\ Summed => TotalIsExact
  <2> SUFFICES ASSUME Shape, Summed, pc = "measured", IsConfirmed, NEW e \in Endpoint
               PROVE  total = SumFunction([n \in from..end |->
                                             TxCount[Body(HeaderByNumber(e, n))]])
    BY DEF TotalIsExact
  <2> DEFINE f == [n \in from..end |-> TxCount[Body(HeaderByNumber(e, n))]]
  <2>1. Chains /\ from \in Nat /\ end \in Nat /\ reading \in Nat
    BY DEF Shape, TypeOK
  <2>2. PICK h \in Header : SumOn(h)
    BY DEF Summed, Ranged
  <2>3. from..(reading - 1) = from..end
    <3>1. /\ from <= reading
          /\ from < reading => reading <= end + 1
          /\ end < reading
      BY DEF Summed, Ranged
    <3>2. QED
      BY <2>1, <3>1
  <2>4. total = SumFunctionOnSet(Counts(h), from..end)
    BY <2>2, <2>3 DEF SumOn
  <2>5. \A n \in from..end : Counts(h)[n] = f[n]
    <3>1. \A n \in from..end : n \in Nat /\ n < Len(h)
      BY <2>1, <2>2 DEF SumOn
    <3>2. QED
      BY <2>1, <2>2, <3>1, BodyIsThere DEF SumOn, Everywhere
  <2>6. SumFunctionOnSet(Counts(h), from..end) = SumFunctionOnSet(f, from..end)
    <3>1. IsFiniteSet(from..end)
      BY <2>1, FS_Interval
    <3> HIDE DEF f
    <3>2. QED
      BY <2>5, <3>1, SumOfSame
  <2>7. QED
    BY <2>4, <2>6 DEF SumFunction
<1>2. QED
  BY <1>1, AlwaysShape, AlwaysSummed, PTL

=============================================================================
