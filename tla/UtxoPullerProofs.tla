-------------------------- MODULE UtxoPullerProofs --------------------------
(***************************************************************************)
(* The chain monitor is correct, and implements UtxoFeed, for every number *)
(* of endpoints, every set of blocks and of owned cells, every height of   *)
(* the chains, and every depth of re-organisation up to RollbackSpan.  The *)
(* inductive invariant has six layers, each proved inductive relative to   *)
(* those before it (the last two relative to the first two and the first   *)
(* alone):                                                                 *)
(*   Shape         the types, and how long the headers are at each pc;     *)
(*   Anchored      a header that a node has confirmed is still a header of *)
(*                 its main chain, but for its last ReorgDepth blocks;     *)
(*   Coverage      every cell up to current_header is sent or still held;  *)
(*   Rewards       what is sent of the cellbase cells is mature;           *)
(*   NearlySorted  the cells that wait are, but for MaxWait, in the order  *)
(*                 of their blocks;                                        *)
(*   Fresh         until the thread rolls back, what it holds is held      *)
(*                 once, and was never sent.                               *)
(***************************************************************************)
EXTENDS UtxoPuller, CkbNodesProofs

-----------------------------------------------------------------------------
(* Headers                                                                 *)

(* A list of cells, and what it says of each of them.                      *)
LEMMA CellsOfProperties ==
  ASSUME NEW h \in Header, NEW b \in BOOLEAN, NEW n \in Nat
  PROVE  /\ CellsOf(h, b, n) \in Seq(Cell)
         /\ Len(CellsOf(h, b, n)) = n
         /\ \A i \in 1..n : CellsOf(h, b, n)[i].block = h
         /\ \A i \in 1..n : CellsOf(h, b, n)[i].cellbase = b
<1>1. \A i \in 1..n : [block |-> h, cellbase |-> b, index |-> i] \in Cell
  BY DEF Cell
<1>2. CellsOf(h, b, n) \in [1..n -> Cell]
  BY <1>1 DEF CellsOf
<1>3. CellsOf(h, b, n) \in Seq(Cell) /\ Len(CellsOf(h, b, n)) = n
  BY <1>2, FunctionIsSeq
<1>4. QED
  BY <1>3 DEF CellsOf

(* The numbers of owned outputs of a block.                                *)
LEMMA OutsOfBlock ==
  ASSUME NEW h \in Header, Len(h) > 0
  PROVE  TxOuts[h[Len(h)]] \in Nat /\ CbOuts[h[Len(h)]] \in Nat
<1>1. h[Len(h)] \in Block
  BY DEF Header
<1>2. QED
  BY <1>1, CellsAssumption

(* The owned cells of a block are cells of that block.                     *)
LEMMA CellsOfBlock ==
  ASSUME NEW h \in Header, Len(h) > 0
  PROVE  /\ TxCells(h) \in Seq(Cell)
         /\ CbCells(h) \in Seq(Cell)
         /\ \A i \in 1..Len(CbCells(h)) : CbCells(h)[i].block = h
<1>1. PICK m, n \in Nat : m = TxOuts[h[Len(h)]] /\ n = CbOuts[h[Len(h)]]
  BY OutsOfBlock
<1>2. \A b \in BOOLEAN, k \in Nat :
        /\ CellsOf(h, b, k) \in Seq(Cell)
        /\ Len(CellsOf(h, b, k)) = k
        /\ \A i \in 1..k : CellsOf(h, b, k)[i].block = h
  BY CellsOfProperties
<1>3. /\ CellsOf(h, FALSE, m) \in Seq(Cell)
      /\ CellsOf(h, TRUE, n) \in Seq(Cell)
      /\ Len(CellsOf(h, TRUE, n)) = n
      /\ \A i \in 1..n : CellsOf(h, TRUE, n)[i].block = h
  BY <1>2, Zenon
<1>4. QED
  BY <1>1, <1>3 DEF TxCells, CbCells

(* The outputs of the ordinary transactions are not cellbase cells.        *)
LEMMA TxCellsAreNoRewards ==
  ASSUME NEW h \in Header, Len(h) > 0
  PROVE  \A i \in 1..Len(TxCells(h)) : ~ TxCells(h)[i].cellbase
<1>1. PICK m \in Nat : m = TxOuts[h[Len(h)]]
  BY OutsOfBlock
<1>2. \A b \in BOOLEAN : /\ Len(CellsOf(h, b, m)) = m
                           /\ \A i \in 1..m : CellsOf(h, b, m)[i].cellbase = b
  BY CellsOfProperties
<1>3. /\ Len(CellsOf(h, FALSE, m)) = m
      /\ \A i \in 1..m : CellsOf(h, FALSE, m)[i].cellbase = FALSE
  BY <1>2, Zenon
<1>4. QED
  BY <1>1, <1>3 DEF TxCells

(* What waits carries the number of its block.                             *)
LEMMA WaitingProperties ==
  ASSUME NEW h \in Header, Len(h) > 0, NEW s \in Seq(Cell)
  PROVE  /\ Waiting(h, s) \in Seq([number : Nat, cell : Cell])
         /\ Len(Waiting(h, s)) = Len(s)
         /\ \A i \in 1..Len(s) : /\ Waiting(h, s)[i].number = Number(h)
                                 /\ Waiting(h, s)[i].cell = s[i]
<1>1. Number(h) \in Nat
  BY DEF Number, Header
<1>2. Waiting(h, s) \in [1..Len(s) -> [number : Nat, cell : Cell]]
  BY <1>1 DEF Waiting
<1>3. Len(s) \in Nat
  BY LenProperties
<1>4. /\ Waiting(h, s) \in Seq([number : Nat, cell : Cell])
      /\ Len(Waiting(h, s)) = Len(s)
  BY <1>2, <1>3, FunctionIsSeq
<1>5. QED
  BY <1>4 DEF Waiting

-----------------------------------------------------------------------------
(* The elements of a sequence                                              *)

(* What is in a list is its head or is left when it is removed; and it is  *)
(* not left when the list has it once.                                     *)
LEMMA ElementsOfTail ==
  ASSUME NEW S, NEW s \in Seq(S), s # <<>>
  PROVE  /\ Head(s) \in S
         /\ Elements(s) = {Head(s)} \cup Elements(Tail(s))
<1>1. /\ Len(s) \in Nat /\ Len(s) >= 1
      /\ Len(Tail(s)) = Len(s) - 1
      /\ \A i \in 1..Len(Tail(s)) : Tail(s)[i] = s[i + 1]
      /\ Head(s) = s[1] /\ Head(s) \in S
  BY EmptySeq, HeadTailProperties, LenProperties
<1>2. ASSUME NEW i \in 1..Len(s), i # 1
      PROVE  s[i] \in Elements(Tail(s))
  <2>1. i - 1 \in 1..Len(Tail(s)) /\ Tail(s)[i - 1] = s[i]
    BY <1>1, <1>2
  <2>2. QED
    BY <2>1 DEF Elements
<1>3. Elements(s) \subseteq {Head(s)} \cup Elements(Tail(s))
  BY <1>1, <1>2 DEF Elements
<1>4. Elements(Tail(s)) \subseteq Elements(s)
  <2>1. SUFFICES ASSUME NEW i \in 1..Len(Tail(s))
                 PROVE  Tail(s)[i] \in Elements(s)
    BY DEF Elements
  <2>2. i + 1 \in 1..Len(s) /\ Tail(s)[i] = s[i + 1]
    BY <1>1
  <2>3. QED
    BY <2>2 DEF Elements
<1>5. Head(s) \in Elements(s)
  BY <1>1 DEF Elements
<1>6. QED
  BY <1>1, <1>3, <1>4, <1>5

(* What two lists have is what their concatenation has.                    *)
LEMMA ElementsOfConcat ==
  ASSUME NEW S, NEW s \in Seq(S), NEW t \in Seq(S)
  PROVE  Elements(s \o t) = Elements(s) \cup Elements(t)
<1> DEFINE u == s \o t
<1>1. /\ Len(s) \in Nat /\ Len(t) \in Nat
      /\ Len(u) = Len(s) + Len(t)
      /\ \A i \in 1..(Len(s) + Len(t)) : u[i] =
           IF i <= Len(s) THEN s[i] ELSE t[i - Len(s)]
  BY ConcatProperties, LenProperties
<1> HIDE DEF u
<1>2. ASSUME NEW i \in 1..Len(s)
      PROVE  s[i] \in Elements(u)
  <2>1. i \in 1..Len(u) /\ u[i] = s[i]
    BY <1>1
  <2>2. QED
    BY <2>1 DEF Elements
<1>3. ASSUME NEW i \in 1..Len(t)
      PROVE  t[i] \in Elements(u)
  <2>1. PICK k \in 1..Len(u) : k = Len(s) + i
    BY <1>1
  <2>2. ~ (k <= Len(s)) /\ k - Len(s) = i
    BY <1>1, <2>1
  <2>3. u[k] = t[i]
    BY <1>1, <2>1, <2>2
  <2>4. QED
    BY <2>1, <2>3 DEF Elements
<1>4. ASSUME NEW i \in 1..Len(u)
      PROVE  u[i] \in Elements(s) \cup Elements(t)
  <2>1. CASE i <= Len(s)
    <3>1. i \in 1..Len(s) /\ u[i] = s[i]
      BY <1>1, <2>1
    <3>2. QED
      BY <3>1 DEF Elements
  <2>2. CASE ~ (i <= Len(s))
    <3>1. PICK k \in 1..Len(t) : k = i - Len(s)
      BY <1>1, <2>2
    <3>2. u[i] = t[k]
      BY <1>1, <2>2, <3>1
    <3>3. QED
      BY <3>1, <3>2 DEF Elements
  <2>3. QED
    BY <2>1, <2>2
<1>5. QED
  BY <1>2, <1>3, <1>4 DEF Elements, u

(* The cells that wait are those that were put there.                      *)
LEMMA ElementsOfWaiting ==
  ASSUME NEW h \in Header, Len(h) > 0, NEW s \in Seq(Cell)
  PROVE  {w.cell : w \in Elements(Waiting(h, s))} = Elements(s)
<1>1. /\ Len(Waiting(h, s)) = Len(s)
      /\ \A i \in 1..Len(s) : Waiting(h, s)[i].cell = s[i]
  BY WaitingProperties
<1>2. QED
  BY <1>1 DEF Elements

-----------------------------------------------------------------------------
(* The first layer                                                         *)

Comparing == pc \in {"compare", "rollback", "fetch"}

(* The cellbase cells of current_header are not yet in unmatureds.         *)
Holding == pc \in {"send", "returned"}

(* The probed header is the one after current_header, it is compared with  *)
(* the endpoints in order, and only its child is fetched.                  *)
Shape ==
  /\ TypeOK
  /\ Len(cur) > 0
  /\ \A e \in Endpoint : Len(chain[e]) > 0
  /\ Comparing => Len(probe) = Len(cur) + 1 /\ asked > 0
  /\ pc \in {"rollback", "fetch"} => asked = NE
  /\ pc = "fetch" => Parent(probe) = cur
  /\ pc \notin {"send", "returned"} => outbox = <<>>

(* The chains of the nodes are in shape.                                   *)
LEMMA ShapeChains == Shape => Chains
BY DEF Shape, TypeOK, Chains

(* The genesis block's ordinary transactions have as many owned outputs as TxOuts says.    *)
LEMMA GenesisTxCells == Len(TxCells(<<Genesis>>)) = TxOuts[Genesis]
<1>1. TxOuts[Genesis] \in Nat
  BY NodesAssumption, CellsAssumption
<1>2. TxCells(<<Genesis>>) = CellsOf(<<Genesis>>, FALSE, TxOuts[Genesis])
  BY DEF TxCells
<1>3. DOMAIN TxCells(<<Genesis>>) = 1..TxOuts[Genesis]
  BY <1>2 DEF CellsOf
<1>4. TxCells(<<Genesis>>) \in Seq(Cell)
  BY GenesisIsHeader, CellsOfBlock
<1>5. QED
  BY <1>1, <1>3, <1>4, LenProperties

(* Initially the first layer holds.                                        *)
LEMMA InitShape == Init => Shape
<1> SUFFICES ASSUME Init
             PROVE  Shape
  OBVIOUS
<1>1. 1 \in Endpoint /\ NE \in Nat
  BY NodesAssumption DEF Endpoint
<1>2. chain \in [Endpoint -> Header] /\ \A e \in Endpoint : Len(chain[e]) = 1
  BY GenesisIsHeader DEF Init, NodesInit
<1>3. unmatureds \in Seq([number : Nat, cell : Cell])
  <2>1. CbCells(<<Genesis>>) \in Seq(Cell)
    BY GenesisIsHeader, CellsOfBlock
  <2>2. PICK h \in Header : h = <<Genesis>> /\ Len(h) > 0
    BY GenesisIsHeader
  <2>3. QED
    BY <2>1, <2>2, WaitingProperties DEF Init
<1>4. sent \subseteq Cell
  <2>1. TxCells(<<Genesis>>) \in Seq(Cell)
    BY GenesisIsHeader, CellsOfBlock
  <2>2. QED
    BY <2>1, GenesisTxCells, ElementOfSeq DEF Init, Elements
<1>5. TypeOK
  <2>1. cur \in Header /\ probe \in Header
    BY GenesisIsHeader, EmptySeq DEF Init, Header
  <2>2. outbox \in Seq(Cell) /\ chan \in Seq(Cell)
    BY EmptySeq DEF Init
  <2>3. open \in BOOLEAN /\ rolledBack \in BOOLEAN
    BY DEF Init
  <2>4. asked \in 0..NE /\ pc = "poll"
    BY <1>1 DEF Init
  <2>5. QED
    BY <1>2, <1>3, <1>4, <2>1, <2>2, <2>3, <2>4 DEF TypeOK
<1>6. QED
  BY <1>2, <1>5, GenesisIsHeader DEF Init, Shape, Comparing

(* Every step keeps the first layer.                                       *)
LEMMA NextShape == Shape /\ [Next]_vars => Shape'
<1> SUFFICES ASSUME Shape, [Next]_vars
             PROVE  Shape'
  OBVIOUS
<1> USE DEF Shape, TypeOK
<1>0. 1 \in Endpoint /\ NE \in Nat /\ NE > 0
  BY NodesAssumption DEF Endpoint
<1>1. CASE Poll
  <2>1. /\ Number(cur) + 1 \in Nat
        /\ Number(cur) + 1 < Len(chain[1])
        /\ Number(cur) + 1 = Len(cur)
        /\ chain[1] \in Header
    BY <1>0, <1>1 DEF Poll, HasHeader, Number, Header
  <2>2. probe' \in Header /\ Len(probe') = Len(cur) + 1
    BY <1>1, <2>1, AncestorProperties DEF Poll, HeaderByNumber
  <2>3. QED
    BY <1>0, <1>1, <2>2 DEF Poll, channelVars, Comparing
<1>2. CASE Compare
  <2>1. CASE HasBlock(asked + 1, probe)
    BY <1>0, <1>2, <2>1 DEF Compare, channelVars, Comparing
  <2>2. CASE ~ HasBlock(asked + 1, probe)
    BY <1>0, <1>2, <2>2 DEF Compare, channelVars, Comparing, Header
  <2>3. QED
    BY <2>1, <2>2
<1>3. CASE Fixed
  BY <1>3 DEF Fixed, channelVars, Comparing, SameParent, AllAgree
<1>4. CASE Rollback
  <2>1. ASSUME HasHeader(1, RollbackNumber(Number(cur)))
        PROVE  cur' \in Header /\ Len(cur') > 0
    <3>1. /\ RollbackNumber(Number(cur)) \in Nat
          /\ RollbackNumber(Number(cur)) < Len(chain[1])
          /\ chain[1] \in Header
      BY <1>0, <2>1, CellsAssumption DEF HasHeader, RollbackNumber, Number, Header
    <3>2. QED
      BY <1>4, <2>1, <3>1, AncestorProperties DEF Rollback, HeaderByNumber
  <2>2. cur' \in Header /\ Len(cur') > 0
    BY <1>4, <2>1 DEF Rollback
  <2>3. QED
    BY <1>0, <1>4, <2>2 DEF Rollback, channelVars, Comparing, Header
<1>5. CASE Fetch
  <2>1. TxCells(probe) \in Seq(Cell)
    BY <1>5, CellsOfBlock DEF Fetch, Comparing, Header
  <2>2. CASE HasBlock(1, probe)
    BY <1>0, <1>5, <2>1, <2>2 DEF Fetch, channelVars, Comparing, Header
  <2>3. CASE ~ HasBlock(1, probe)
    BY <1>0, <1>5, <2>3 DEF Fetch, channelVars, Comparing, Header
  <2>4. QED
    BY <2>2, <2>3
<1>6. CASE SendMatured
  <2>1. Head(outbox) \in Cell /\ Tail(outbox) \in Seq(Cell)
    BY <1>6, HeadTailProperties DEF SendMatured
  <2>2. QED
    BY <1>6, <2>1, AppendProperties DEF SendMatured, Send, Comparing
<1>7. CASE SendUnmatured
  <2>1. /\ Head(unmatureds) \in [number : Nat, cell : Cell]
        /\ Tail(unmatureds) \in Seq([number : Nat, cell : Cell])
    BY <1>7, HeadTailProperties DEF SendUnmatured, FirstHasMatured
  <2>2. QED
    BY <1>7, <2>1, AppendProperties DEF SendUnmatured, Send, RemoveFirst, Comparing
<1>8. CASE Collect
  <2>1. Waiting(cur, CbCells(cur)) \in Seq([number : Nat, cell : Cell])
    BY CellsOfBlock, WaitingProperties
  <2>2. QED
    BY <1>8, <2>1, ConcatProperties DEF Collect, channelVars, Comparing
<1>9. CASE Return
  BY <1>9 DEF Return, channelVars, Comparing
<1>10. CASE Receive
  BY <1>10, HeadTailProperties DEF Receive, pullerVars, Comparing
<1>11. CASE DropReceiver
  BY <1>11 DEF DropReceiver, pullerVars, Comparing
<1>12. CASE Nodes
  <2>1. NodesNext
    BY <1>12 DEF Nodes
  <2>2. chain' \in [Endpoint -> Header] /\ \A f \in Endpoint : Len(chain'[f]) > 0
    BY <2>1, NextChains DEF Chains
  <2>3. QED
    BY <1>12, <2>2 DEF Nodes, pullerVars, channelVars, Comparing
<1>13. CASE UNCHANGED vars
  BY <1>13 DEF vars, pullerVars, channelVars, Comparing
<1>14. QED
  BY <1>1, <1>2, <1>3, <1>4, <1>5, <1>6, <1>7, <1>8, <1>9, <1>10, <1>11, <1>12,
     <1>13 DEF Next, Puller

(* The first layer holds in every reachable state.                         *)
LEMMA AlwaysShape == Spec => []Shape
<1>1. Init => Shape
  BY InitShape
<1>2. Shape /\ [Next]_vars => Shape'
  BY NextShape
<1>3. QED
  BY <1>1, <1>2, PTL DEF Spec

-----------------------------------------------------------------------------
(* The second layer                                                        *)

(* A header that has been confirmed stays, but for its last blocks.        *)
Anchored ==
  /\ \A e \in Endpoint : Agrees(e, cur)
  /\ Comparing => \A e \in 1..asked : Agrees(e, probe)

(* Initially the second layer holds.                                       *)
LEMMA InitAnchored == Init => Anchored
<1> SUFFICES ASSUME Init
             PROVE  Anchored
  OBVIOUS
<1>1. \A e \in Endpoint : chain[e] = <<Genesis>>
  BY DEF Init, NodesInit
<1>2. cur = <<Genesis>> /\ pc = "poll"
  BY DEF Init
<1>3. \A e \in Endpoint : Agrees(e, cur)
  BY <1>1, <1>2, GenesisIsHeader DEF Agrees
<1>4. QED
  BY <1>2, <1>3 DEF Anchored, Comparing

(* The header that a rollback finds is there, and is an ancestor of        *)
(* current_header that every node has.                                     *)
LEMMA RollbackIsAncestor ==
  ASSUME Shape, Anchored, Rollback
  PROVE  /\ pc' = "poll"
         /\ Len(cur') <= Len(cur)
         /\ \A i \in 1..Len(cur') : cur'[i] = cur[i]
         /\ \A e \in Endpoint : \A i \in 1..Len(cur') : chain[e][i] = cur[i]
<1> DEFINE n == RollbackNumber(Number(cur))
<1>1. /\ 1 \in Endpoint
      /\ chain[1] \in Header
      /\ Len(cur) \in Nat /\ Len(chain[1]) \in Nat
      /\ Len(cur) > 0
      /\ ReorgDepth \in Nat /\ RollbackSpan \in Nat /\ ReorgDepth <= RollbackSpan
  <2>1. 1 \in Endpoint
    BY NodesAssumption DEF Endpoint
  <2>2. chain[1] \in Header /\ cur \in Header /\ Len(cur) > 0
    BY <2>1 DEF Shape, TypeOK
  <2>3. Len(cur) \in Nat /\ Len(chain[1]) \in Nat
    BY <2>2 DEF Header
  <2>4. ReorgDepth \in Nat /\ RollbackSpan \in Nat /\ ReorgDepth <= RollbackSpan
    BY NodesAssumption, CellsAssumption
  <2>5. QED
    BY <2>1, <2>2, <2>3, <2>4
<1>2. n \in Nat /\ n < Len(cur) /\ (n = 0 \/ n + 1 <= Len(cur) - RollbackSpan)
  BY <1>1 DEF RollbackNumber, Number
<1>3. \A e \in Endpoint : Agrees(e, cur)
  BY DEF Anchored
<1>4. \A e \in Endpoint : \A i \in 1..(n + 1) : chain[e][i] = cur[i]
  BY <1>1, <1>2, <1>3 DEF Agrees
<1>5. n < Len(chain[1])
  BY <1>1, <1>2, <1>3 DEF Agrees
<1>6. pc' = "poll" /\ cur' = Ancestor(chain[1], n)
  BY <1>5 DEF Rollback, HasHeader, HeaderByNumber
<1>7. /\ Len(cur') = n + 1
      /\ \A i \in 1..(n + 1) : cur'[i] = chain[1][i]
  BY <1>1, <1>2, <1>5, <1>6, AncestorProperties
<1>8. QED
  BY <1>1, <1>2, <1>4, <1>6, <1>7

(* Every step keeps the second layer.                                      *)
LEMMA NextAnchored == Shape /\ Anchored /\ [Next]_vars => Anchored'
<1> SUFFICES ASSUME Shape, Anchored, [Next]_vars
             PROVE  Anchored'
  OBVIOUS
<1>0. /\ 1 \in Endpoint /\ NE \in Nat /\ asked \in 0..NE
      /\ chain \in [Endpoint -> Header] /\ cur \in Header /\ probe \in Header
      /\ Len(cur) \in Nat /\ Len(cur) > 0 /\ Len(probe) \in Nat
  BY NodesAssumption DEF Endpoint, Shape, TypeOK, Header
<1>1. CASE Poll
  <2>1. Len(cur) < Len(chain[1]) /\ probe' = Ancestor(chain[1], Len(cur))
    BY <1>0, <1>1 DEF Poll, HasHeader, HeaderByNumber, Number
  <2>2. /\ Len(probe') = Len(cur) + 1
        /\ \A i \in 1..Len(probe') : chain[1][i] = probe'[i]
    BY <1>0, <2>1, AncestorProperties
  <2>3. Len(chain[1]) \in Nat
    BY <1>0 DEF Header
  <2>4. asked' = 1 /\ chain' = chain /\ cur' = cur
    BY <1>1 DEF Poll
  <2>5. \A e \in 1..asked' : Agrees(e, probe)'
    BY <1>0, <2>1, <2>2, <2>3, <2>4 DEF Agrees
  <2>6. QED
    BY <2>4, <2>5 DEF Anchored, Agrees
<1>2. CASE Compare
  <2>1. CASE HasBlock(asked + 1, probe)
    <3>1. asked + 1 \in Endpoint /\ asked' = asked + 1
      BY <1>0, <1>2, <2>1 DEF Compare, Endpoint
    <3>2. Agrees(asked + 1, probe)
      BY <1>0, <2>1, <3>1, ShapeChains, HasBlockAgrees
    <3>3. \A e \in 1..(asked + 1) : Agrees(e, probe)
      BY <1>0, <1>2, <3>2 DEF Anchored, Compare, Comparing
    <3>4. chain' = chain /\ cur' = cur /\ probe' = probe
      BY <1>2, <2>1 DEF Compare
    <3>5. QED
      BY <3>1, <3>3, <3>4 DEF Anchored, Agrees
  <2>2. CASE ~ HasBlock(asked + 1, probe)
    BY <1>2, <2>2 DEF Compare, Anchored, Agrees, Comparing
  <2>3. QED
    BY <2>1, <2>2
<1>3. CASE Fixed
  BY <1>3 DEF Fixed, Anchored, Agrees, Comparing
<1>4. CASE Rollback
  <2>1. /\ pc' = "poll"
        /\ Len(cur') <= Len(cur)
        /\ \A i \in 1..Len(cur') : cur'[i] = cur[i]
        /\ \A e \in Endpoint : \A i \in 1..Len(cur') : chain[e][i] = cur[i]
    BY <1>4, RollbackIsAncestor
  <2>2. chain' = chain /\ cur' \in Header
    BY <1>4, NextShape DEF Rollback, Shape, TypeOK
  <2>3. \A e \in Endpoint : Len(cur') <= Len(chain[e])
    <3>1. TAKE e \in Endpoint
    <3>2. Len(cur) <= Len(chain[e])
      BY DEF Anchored, Agrees
    <3>3. Len(chain[e]) \in Nat /\ Len(cur') \in Nat
      BY <1>0, <2>2 DEF Header
    <3>4. QED
      BY <1>0, <2>1, <3>2, <3>3
  <2>4. \A e \in Endpoint : Agrees(e, cur)'
    BY <2>1, <2>2, <2>3 DEF Agrees
  <2>5. QED
    BY <2>1, <2>4 DEF Anchored, Comparing
<1>5. CASE Fetch
  <2>1. \A e \in Endpoint : Agrees(e, probe)
    BY <1>5 DEF Fetch, Shape, Anchored, Comparing, Endpoint
  <2>2. chain' = chain /\ (cur' = probe \/ cur' = cur) /\ pc' \in {"send", "poll"}
    BY <1>5 DEF Fetch
  <2>3. QED
    BY <2>1, <2>2 DEF Anchored, Agrees, Comparing
<1>6. CASE SendMatured \/ SendUnmatured \/ Collect \/ Return
  BY <1>6 DEF SendMatured, SendUnmatured, Collect, Return, Anchored, Agrees, Comparing
<1>7. CASE Receive \/ DropReceiver
  BY <1>7 DEF Receive, DropReceiver, pullerVars, Anchored, Agrees, Comparing
<1>8. CASE Nodes
  <2>1. NodesNext /\ pc' = pc /\ cur' = cur /\ probe' = probe /\ asked' = asked
    BY <1>8 DEF Nodes, pullerVars
  <2>2. \A e \in Endpoint : Agrees(e, cur)'
    BY <1>0, <2>1, ShapeChains, NodesAgree DEF Anchored, Agrees
  <2>3. ASSUME Comparing
        PROVE  \A e \in 1..asked : Agrees(e, probe)'
    <3>1. \A e \in 1..asked : e \in Endpoint /\ Agrees(e, probe)
      BY <1>0, <2>3 DEF Anchored, Endpoint
    <3>2. QED
      BY <1>0, <2>1, <3>1, ShapeChains, NodesAgree DEF Agrees
  <2>4. QED
    BY <2>1, <2>2, <2>3 DEF Anchored, Comparing
<1>9. CASE UNCHANGED vars
  BY <1>9 DEF vars, pullerVars, Anchored, Agrees, Comparing
<1>10. QED
  BY <1>1, <1>2, <1>3, <1>4, <1>5, <1>6, <1>7, <1>8, <1>9 DEF Next, Puller

(* The second layer holds in every reachable state.                        *)
LEMMA AlwaysAnchored == Spec => []Anchored
<1>1. Init => Anchored
  BY InitAnchored
<1>2. Shape /\ Anchored /\ [Next]_vars => Anchored'
  BY NextAnchored
<1>3. QED
  BY <1>1, <1>2, AlwaysShape, PTL DEF Spec

-----------------------------------------------------------------------------
(* The third layer                                                         *)

(* A cell that is accounted for stays so: what leaves a list of the thread *)
(* goes to another list or is sent.                                        *)
LEMMA CellStays ==
  ASSUME Shape, [Next]_vars, NEW c, Accounted(c)
  PROVE  Accounted(c)'
<1>1. CASE Poll \/ Compare \/ Fixed \/ Return
  BY <1>1 DEF Poll, Compare, Fixed, Return, channelVars, Accounted, Owed, Elements
<1>2. CASE Rollback
  BY <1>2 DEF Rollback, channelVars, Accounted, Owed, Elements
<1>3. CASE Fetch
  <2>1. pc = "fetch" /\ outbox = <<>> /\ c \notin Elements(outbox)
    BY <1>3 DEF Fetch, Shape, Elements
  <2>2. c \in sent \/ \E i \in 1..Len(unmatureds) : unmatureds[i].cell = c
    BY <2>1 DEF Accounted, Owed, Elements
  <2>3. QED
    BY <1>3, <2>2 DEF Fetch, channelVars, Accounted, Owed, Elements
<1>4. CASE SendMatured
  <2>1. outbox \in Seq(Cell) /\ outbox # <<>>
    BY <1>4 DEF SendMatured, Shape, TypeOK
  <2>2. Elements(outbox) = {Head(outbox)} \cup Elements(Tail(outbox))
    BY <2>1, ElementsOfTail
  <2>3. /\ sent' = sent \cup {Head(outbox)}
        /\ outbox' = Tail(outbox)
        /\ pc' = pc /\ cur' = cur /\ unmatureds' = unmatureds
    BY <1>4 DEF SendMatured, Send
  <2>4. QED
    BY <2>2, <2>3 DEF Accounted, Owed
<1>5. CASE SendUnmatured
  <2>1. unmatureds \in Seq([number : Nat, cell : Cell]) /\ unmatureds # <<>>
    BY <1>5 DEF SendUnmatured, FirstHasMatured, Shape, TypeOK
  <2>2. Elements(unmatureds) = {Head(unmatureds)} \cup Elements(Tail(unmatureds))
    BY <2>1, ElementsOfTail
  <2>3. /\ sent' = sent \cup {Head(unmatureds).cell}
        /\ unmatureds' = Tail(unmatureds)
        /\ pc' = pc /\ cur' = cur /\ outbox' = outbox
    BY <1>5 DEF SendUnmatured, Send, RemoveFirst
  <2>4. QED
    BY <2>2, <2>3 DEF Accounted, Owed
<1>6. CASE Collect
  <2>1. /\ unmatureds' = unmatureds \o Waiting(cur, CbCells(cur))
        /\ sent' = sent /\ outbox' = outbox /\ pc' = "poll"
    BY <1>6 DEF Collect, channelVars
  <2>2. PICK s \in Seq(Cell) : s = CbCells(cur)
    BY CellsOfBlock DEF Shape, TypeOK
  <2>3. PICK w \in Seq([number : Nat, cell : Cell]) : w = Waiting(cur, s)
    BY WaitingProperties DEF Shape, TypeOK
  <2>4. {x.cell : x \in Elements(w)} = Elements(s)
    BY <2>3, ElementsOfWaiting DEF Shape, TypeOK
  <2>5. Elements(unmatureds') = Elements(unmatureds) \cup Elements(w)
    BY <2>1, <2>2, <2>3, ElementsOfConcat DEF Shape, TypeOK
  <2>6. Owed \subseteq Owed'
    BY <2>1, <2>2, <2>4, <2>5 DEF Owed
  <2>7. QED
    BY <2>1, <2>6 DEF Accounted
<1>7. CASE Receive \/ DropReceiver
  BY <1>7 DEF Receive, DropReceiver, pullerVars, Accounted, Owed, Elements
<1>8. CASE Nodes
  BY <1>8 DEF Nodes, pullerVars, channelVars, Accounted, Owed, Elements
<1>9. CASE UNCHANGED vars
  BY <1>9 DEF vars, pullerVars, channelVars, Accounted, Owed, Elements
<1>10. QED
  BY <1>1, <1>2, <1>3, <1>4, <1>5, <1>6, <1>7, <1>8, <1>9 DEF Next, Puller

(* So does a block all of whose cells are accounted for.                   *)
LEMMA BlockStays ==
  ASSUME Shape, [Next]_vars, NEW h, BlockAccounted(h)
  PROVE  BlockAccounted(h)'
BY CellStays DEF BlockAccounted

(* Initially the cells of genesis are accounted for.                       *)
LEMMA InitCoverage == Init => Coverage
<1> SUFFICES ASSUME Init
             PROVE  Coverage
  OBVIOUS
<1>1. PICK g \in Header : g = <<Genesis>> /\ Len(g) = 1 /\ g = cur
  BY GenesisIsHeader DEF Init
<1>2. Shape
  BY InitShape
<1>3. /\ TxCells(g) \in Seq(Cell) /\ CbCells(g) \in Seq(Cell)
      /\ unmatureds = Waiting(g, CbCells(g))
  BY <1>1, CellsOfBlock DEF Init
<1>4. Len(TxCells(g)) = TxOuts[Genesis]
  BY <1>1, GenesisTxCells
<1>5. \A i \in 1..Len(TxCells(g)) : TxCells(g)[i] \in sent
  BY <1>1, <1>4 DEF Init, Elements
<1>6. \A i \in 1..Len(CbCells(g)) :
        \E j \in 1..Len(unmatureds) : unmatureds[j].cell = CbCells(g)[i]
  <2>1. PICK s \in Seq(Cell) : s = CbCells(g)
    BY <1>3
  <2>2. /\ Len(Waiting(g, s)) = Len(s)
        /\ \A i \in 1..Len(s) : Waiting(g, s)[i].cell = s[i]
    <3>1. Len(g) > 0
      BY <1>1
    <3>2. QED
      BY <3>1, WaitingProperties
  <2>3. QED
    BY <1>3, <2>1, <2>2
<1>7. BlockAccounted(g)
  BY <1>5, <1>6 DEF BlockAccounted, Owed, Elements, Accounted, Owed, Elements
<1>8. Ancestor(cur, 0) = g /\ Number(cur) = 0
  <2>1. SubSeq(g, 1, Len(g)) = g
    BY SubSeqFull DEF Header
  <2>2. Len(g) = 0 + 1 /\ Number(g) = 0
    BY <1>1 DEF Number
  <2>3. QED
    BY <1>1, <2>1, <2>2 DEF Ancestor
<1>9. QED
  BY <1>7, <1>8 DEF Coverage

(* Every step keeps the cells up to current_header accounted for.          *)
LEMMA NextCoverage == Shape /\ Anchored /\ Coverage /\ [Next]_vars => Coverage'
<1> SUFFICES ASSUME Shape, Anchored, Coverage, [Next]_vars
             PROVE  Coverage'
  OBVIOUS
<1>0. /\ cur \in Header /\ probe \in Header /\ cur' \in Header
      /\ Len(cur) \in Nat /\ Len(cur) > 0 /\ Len(cur') \in Nat /\ Len(probe) \in Nat
  BY NextShape DEF Shape, TypeOK, Header
<1>1. ASSUME Len(cur') <= Len(cur), \A i \in 1..Len(cur') : cur'[i] = cur[i]
      PROVE  Coverage'
  <2> SUFFICES ASSUME NEW n \in 0..Number(cur')
               PROVE  BlockAccounted(Ancestor(cur, n))'
    BY DEF Coverage
  <2>1. n \in Nat /\ n < Len(cur') /\ n < Len(cur) /\ n \in 0..Number(cur)
    BY <1>0, <1>1 DEF Number
  <2>2. \A i \in 1..(n + 1) : cur'[i] = cur[i]
    BY <1>0, <1>1, <2>1
  <2>3. PICK h : h = Ancestor(cur, n) /\ h = Ancestor(cur', n)
    BY <1>0, <2>1, <2>2, SameAncestor
  <2>4. BlockAccounted(h)
    BY <2>1, <2>3 DEF Coverage
  <2>5. BlockAccounted(h)'
    BY <2>4, BlockStays
  <2>6. QED
    BY <2>3, <2>5 DEF BlockAccounted, Accounted
<1>2. CASE Fetch /\ HasBlock(1, probe)
  <2>1. /\ Len(probe) = Len(cur) + 1
        /\ Parent(probe) = cur
        /\ pc' = "send" /\ cur' = probe /\ outbox' = TxCells(probe)
    BY <1>2 DEF Fetch, Shape, Comparing
  <2>2. \A i \in 1..Len(cur) : probe[i] = cur[i]
    BY <1>0, <2>1, ParentProperties
  <2>3. PICK p : p = probe /\ p = cur'
    BY <2>1
  <2>4. BlockAccounted(p)'
    BY <2>1, <2>3 DEF BlockAccounted, Accounted, Owed, Elements
  <2>5. ASSUME NEW n \in 0..Number(cur')
        PROVE  BlockAccounted(Ancestor(cur, n))'
    <3>1. CASE n < Len(cur)
      <4>1. n \in Nat /\ n < Len(probe) /\ n \in 0..Number(cur)
        BY <1>0, <2>1, <3>1 DEF Number
      <4>2. \A i \in 1..(n + 1) : probe[i] = cur[i]
        BY <1>0, <2>2, <3>1, <4>1
      <4>3. PICK h : h = Ancestor(cur, n) /\ h = Ancestor(cur', n)
        BY <1>0, <2>1, <3>1, <4>1, <4>2, SameAncestor
      <4>4. BlockAccounted(h)
        BY <4>1, <4>3 DEF Coverage
      <4>5. BlockAccounted(h)'
        BY <4>4, BlockStays
      <4>6. QED
        BY <4>3, <4>5 DEF BlockAccounted, Accounted
    <3>2. CASE n = Len(cur)
      <4>1. Ancestor(cur', n) = p
        BY <1>0, <2>1, <2>3, <3>2, SubSeqFull DEF Ancestor, Header
      <4>2. QED
        BY <2>4, <4>1 DEF BlockAccounted, Accounted
    <3>3. QED
      BY <1>0, <2>1, <3>1, <3>2 DEF Number
  <2>6. QED
    BY <2>5 DEF Coverage
<1>3. CASE Fetch /\ ~ HasBlock(1, probe)
  BY <1>0, <1>1, <1>3 DEF Fetch
<1>4. CASE Rollback
  BY <1>1, <1>4, RollbackIsAncestor
<1>5. CASE cur' = cur
  BY <1>0, <1>1, <1>5
<1>6. cur' = cur \/ Fetch \/ Rollback
  BY DEF Next, Puller, Poll, Compare, Fixed, SendMatured, SendUnmatured, Collect,
         Return, Receive, DropReceiver, Nodes, pullerVars, vars
<1>7. QED
  BY <1>2, <1>3, <1>4, <1>5, <1>6

-----------------------------------------------------------------------------
(* The fourth layer                                                        *)

(* What is held has the number of its block, and what has been sent is     *)
(* mature at every node.                                                   *)
Rewards ==
  /\ NoImmatureReward
  /\ \A i \in 1..Len(outbox) : ~ outbox[i].cellbase
  /\ \A i \in 1..Len(unmatureds) :
       unmatureds[i].number = Number(unmatureds[i].cell.block)

(* Initially the fourth layer holds.                                       *)
LEMMA InitRewards == Init => Rewards
<1> SUFFICES ASSUME Init
             PROVE  Rewards
  OBVIOUS
<1>1. PICK g \in Header : g = <<Genesis>> /\ Len(g) > 0
  BY GenesisIsHeader
<1>2. CbCells(g) \in Seq(Cell) /\ \A i \in 1..Len(CbCells(g)) : CbCells(g)[i].block = g
  BY <1>1, CellsOfBlock
<1>3. PICK s \in Seq(Cell) : s = CbCells(g)
  BY <1>2
<1>4. /\ Len(Waiting(g, s)) = Len(s)
      /\ \A i \in 1..Len(s) : /\ Waiting(g, s)[i].number = Number(g)
                              /\ Waiting(g, s)[i].cell = s[i]
  BY <1>1, WaitingProperties
<1>5. unmatureds = Waiting(g, s)
  BY <1>1, <1>3 DEF Init
<1>6. \A i \in 1..Len(unmatureds) :
        unmatureds[i].number = Number(unmatureds[i].cell.block)
  BY <1>2, <1>3, <1>4, <1>5
<1>7. \A c \in sent : ~ c.cellbase
  <2>1. \A i \in 1..Len(TxCells(g)) : ~ TxCells(g)[i].cellbase
    BY <1>1, TxCellsAreNoRewards
  <2>2. QED
    BY <1>1, <2>1, GenesisTxCells DEF Init, Elements
<1>8. QED
  BY <1>6, <1>7 DEF Init, Rewards, NoImmatureReward

(* The chains of the nodes do not shrink.                                  *)
LEMMA ChainsGrow ==
  ASSUME Shape, [Next]_vars, NEW e \in Endpoint
  PROVE  /\ Number(chain[e]) \in Nat
         /\ Number(chain'[e]) \in Nat
         /\ Number(chain[e]) <= Number(chain'[e])
<1>1. /\ chain[e] \in Header /\ Len(chain[e]) \in Nat /\ Len(chain[e]) > 0
      /\ chain'[e] \in Header /\ Len(chain'[e]) \in Nat /\ Len(chain'[e]) > 0
  BY NextShape DEF Shape, TypeOK, Header
<1>2. CASE NodesNext
  <2>1. Agrees(e, chain[e])
    BY <1>1 DEF Agrees
  <2>2. Len(chain[e]) <= Len(chain'[e])
    BY <1>1, <1>2, <2>1, ShapeChains, NodesAgree
  <2>3. QED
    BY <1>1, <2>2 DEF Number
<1>3. CASE chain' = chain
  BY <1>1, <1>3 DEF Number
<1>4. QED
  BY <1>2, <1>3 DEF Next, Puller, Poll, Compare, Fixed, Rollback, Fetch, SendMatured,
       SendUnmatured, Collect, Return, Receive, DropReceiver, Nodes, vars

(* Every step keeps the fourth layer.                                      *)
LEMMA NextRewards == Shape /\ Anchored /\ Rewards /\ [Next]_vars => Rewards'
<1> SUFFICES ASSUME Shape, Anchored, Rewards, [Next]_vars
             PROVE  Rewards'
  OBVIOUS
<1>0. /\ cur \in Header /\ Len(cur) \in Nat /\ Len(cur) > 0 /\ Number(cur) \in Nat
      /\ unmatureds \in Seq([number : Nat, cell : Cell]) /\ outbox \in Seq(Cell)
      /\ Maturity \in Nat
  BY CellsAssumption DEF Shape, TypeOK, Header, Number
<1>1. ASSUME \A c \in sent' \ sent : c.cellbase =>
               \A e \in Endpoint : Number(chain[e]) > Number(c.block) + Maturity,
             sent' \subseteq Cell
      PROVE  NoImmatureReward'
  <2> SUFFICES ASSUME NEW c \in sent', c.cellbase, NEW e \in Endpoint
               PROVE  Number(chain'[e]) > Number(c.block) + Maturity
    BY DEF NoImmatureReward
  <2>1. Number(chain[e]) > Number(c.block) + Maturity
    BY <1>1 DEF Rewards, NoImmatureReward
  <2>2. Number(c.block) \in Int
    BY <1>1 DEF Cell, Number, Header
  <2>3. QED
    BY <1>0, <2>1, <2>2, ChainsGrow
<1>2. sent' \subseteq Cell
  BY NextShape DEF Shape, TypeOK
<1>3. CASE sent' = sent /\ outbox' = outbox /\ unmatureds' = unmatureds
  <2>1. NoImmatureReward'
    BY <1>1, <1>2, <1>3
  <2>2. QED
    BY <1>3, <2>1 DEF Rewards
<1>4. CASE Fetch
  <2>1. sent' = sent /\ unmatureds' = unmatureds
    BY <1>4 DEF Fetch, channelVars
  <2>2. NoImmatureReward'
    BY <1>1, <1>2, <2>1
  <2>3. outbox' = outbox \/ outbox' = TxCells(probe)
    BY <1>4 DEF Fetch
  <2>4. probe \in Header /\ Len(probe) > 0
    BY <1>0, <1>4 DEF Fetch, Shape, TypeOK, Comparing
  <2>5. \A i \in 1..Len(outbox') : ~ outbox'[i].cellbase
    BY <2>3, <2>4, TxCellsAreNoRewards DEF Rewards
  <2>6. QED
    BY <2>1, <2>2, <2>5 DEF Rewards
<1>5. CASE SendMatured
  <2>1. /\ outbox # <<>> /\ outbox' = Tail(outbox)
        /\ sent' = sent \cup {Head(outbox)}
        /\ unmatureds' = unmatureds
    BY <1>5 DEF SendMatured, Send
  <2>2. /\ Len(outbox) \in Nat
        /\ Len(Tail(outbox)) = Len(outbox) - 1
        /\ \A i \in 1..Len(Tail(outbox)) : Tail(outbox)[i] = outbox[i + 1]
        /\ Head(outbox) = outbox[1]
    BY <1>0, <2>1, HeadTailProperties, LenProperties
  <2>3. 1 \in 1..Len(outbox) /\ \A i \in 1..Len(Tail(outbox)) : i + 1 \in 1..Len(outbox)
    BY <1>0, <2>1, <2>2, EmptySeq
  <2>4. ~ Head(outbox).cellbase
    BY <2>2, <2>3 DEF Rewards
  <2>5. NoImmatureReward'
    BY <1>1, <1>2, <2>1, <2>4
  <2>6. \A i \in 1..Len(outbox') : ~ outbox'[i].cellbase
    BY <2>1, <2>2, <2>3 DEF Rewards
  <2>7. QED
    BY <2>1, <2>5, <2>6 DEF Rewards
<1>6. CASE SendUnmatured
  <2>1. /\ unmatureds # <<>> /\ unmatureds' = Tail(unmatureds)
        /\ sent' = sent \cup {Head(unmatureds).cell}
        /\ outbox' = outbox
        /\ Number(cur) > Head(unmatureds).number + Maturity
    BY <1>6 DEF SendUnmatured, Send, RemoveFirst, FirstHasMatured, IsMatured
  <2>2. /\ Len(unmatureds) \in Nat
        /\ Len(Tail(unmatureds)) = Len(unmatureds) - 1
        /\ \A i \in 1..Len(Tail(unmatureds)) : Tail(unmatureds)[i] = unmatureds[i + 1]
        /\ Head(unmatureds) = unmatureds[1]
    BY <1>0, <2>1, HeadTailProperties, LenProperties
  <2>2a. Head(unmatureds).number \in Nat
    <3>1. Head(unmatureds) \in [number : Nat, cell : Cell]
      BY <1>0, <2>1, HeadTailProperties
    <3>2. QED
      BY <3>1
  <2>3. 1 \in 1..Len(unmatureds)
        /\ \A i \in 1..Len(Tail(unmatureds)) : i + 1 \in 1..Len(unmatureds)
    BY <1>0, <2>1, <2>2, EmptySeq
  <2>4. Head(unmatureds).number = Number(Head(unmatureds).cell.block)
    BY <2>2, <2>3 DEF Rewards
  <2>5. \A e \in Endpoint :
          Number(chain[e]) > Number(Head(unmatureds).cell.block) + Maturity
    <3>1. TAKE e \in Endpoint
    <3>2. Len(cur) <= Len(chain[e]) /\ Len(chain[e]) \in Nat
      BY DEF Anchored, Agrees, Shape, TypeOK, Header
    <3>3. Number(cur) <= Number(chain[e]) /\ Number(chain[e]) \in Int
      BY <1>0, <3>2 DEF Number
    <3>4. QED
      BY <1>0, <2>1, <2>2a, <2>4, <3>3
  <2>6. NoImmatureReward'
    BY <1>1, <1>2, <2>1, <2>5
  <2>7. \A i \in 1..Len(unmatureds') :
          unmatureds'[i].number = Number(unmatureds'[i].cell.block)
    BY <2>1, <2>2, <2>3 DEF Rewards
  <2>8. QED
    BY <2>1, <2>6, <2>7 DEF Rewards
<1>7. CASE Collect
  <2>1. sent' = sent /\ outbox' = outbox
    BY <1>7 DEF Collect, channelVars
  <2>2. NoImmatureReward'
    BY <1>1, <1>2, <2>1
  <2>3. PICK s \in Seq(Cell) : s = CbCells(cur) /\ \A i \in 1..Len(s) : s[i].block = cur
    BY <1>0, CellsOfBlock
  <2>4. PICK w \in Seq([number : Nat, cell : Cell]) :
          /\ w = Waiting(cur, s)
          /\ Len(w) = Len(s)
          /\ \A i \in 1..Len(s) : w[i].number = Number(cur) /\ w[i].cell = s[i]
    BY <1>0, WaitingProperties
  <2>5. \A i \in 1..Len(w) : w[i].number = Number(w[i].cell.block)
    BY <2>3, <2>4
  <2>6. unmatureds' = unmatureds \o w
    BY <1>7, <2>3, <2>4 DEF Collect
  <2>7. /\ Len(unmatureds) \in Nat /\ Len(w) \in Nat
        /\ Len(unmatureds') = Len(unmatureds) + Len(w)
        /\ \A i \in 1..(Len(unmatureds) + Len(w)) : unmatureds'[i] =
             IF i <= Len(unmatureds) THEN unmatureds[i] ELSE w[i - Len(unmatureds)]
    BY <1>0, <2>6, ConcatProperties, LenProperties
  <2>8. ASSUME NEW i \in 1..Len(unmatureds')
        PROVE  unmatureds'[i].number = Number(unmatureds'[i].cell.block)
    <3>1. CASE i <= Len(unmatureds)
      <4>1. i \in 1..Len(unmatureds) /\ unmatureds'[i] = unmatureds[i]
        BY <2>7, <3>1
      <4>2. QED
        BY <4>1 DEF Rewards
    <3>2. CASE ~ (i <= Len(unmatureds))
      <4>1. PICK k \in 1..Len(w) : unmatureds'[i] = w[k]
        BY <2>7, <3>2
      <4>2. QED
        BY <2>5, <4>1
    <3>3. QED
      BY <3>1, <3>2
  <2>9. QED
    BY <2>1, <2>2, <2>8 DEF Rewards
<1>8. QED
  BY <1>3, <1>4, <1>5, <1>6, <1>7 DEF Next, Puller, Poll, Compare, Fixed, Rollback,
       Return, Receive, DropReceiver, Nodes, pullerVars, channelVars, vars

-----------------------------------------------------------------------------
(* The fifth layer: what waits is nearly sorted                            *)

Wait == [number : Nat, cell : Cell]

(* The thread has gone back below a block of which a cell waits, and it    *)
(* has done so by nearly as much as a rollback goes back.                  *)
Below(w) == Number(cur) < w.number

FarBelow(w) == Below(w) /\ Number(cur) + RollbackSpan <= w.number + 1

(* When the thread goes back, the first endpoint already has a block       *)
(* beyond those it goes back from.  Far below them it walks over blocks    *)
(* that are not abandoned any more, so that it does not go back again.     *)
InReach(w) ==
  /\ Below(w) => w.number + 1 < Len(chain[1])
  /\ FarBelow(w) => Settled(1, cur)
  /\ FarBelow(w) /\ Comparing => Parent(probe) = cur
  /\ w.number <= Number(cur) + MaxWait + (IF Holding THEN 0 ELSE 1)
  /\ ~ Holding => Number(cur) <= w.number + Maturity + MaxWait

NearlySorted ==
  /\ pc = "rollback" => Parent(probe) # cur
  /\ \A i \in 1..Len(unmatureds) : InReach(unmatureds[i])
  /\ \A i, j \in 1..Len(unmatureds) : j < i =>
       unmatureds[j].number <= unmatureds[i].number + MaxWait

(* The numbers that these layers compare.                                  *)
LEMMA Numbers ==
  ASSUME Shape, Anchored
  PROVE  /\ 1 \in Endpoint /\ chain[1] \in Header /\ Len(chain[1]) \in Nat
         /\ cur \in Header /\ Len(cur) \in Nat /\ Len(cur) > 0
         /\ Number(cur) = Len(cur) - 1 /\ Number(cur) \in Nat
         /\ Len(cur) <= Len(chain[1])
         /\ MaxWait \in Nat /\ Maturity \in Nat
         /\ RollbackSpan \in Nat /\ ReorgDepth \in Nat /\ ReorgDepth <= RollbackSpan
         /\ MaxWait = IF RollbackSpan > 1 THEN 2 * RollbackSpan - 3 ELSE 0
<1>1. 1 \in Endpoint
  BY NodesAssumption DEF Endpoint
<1>2. chain[1] \in Header /\ cur \in Header /\ Len(cur) > 0
  BY <1>1 DEF Shape, TypeOK
<1>3. Len(cur) <= Len(chain[1])
  BY <1>1 DEF Anchored, Agrees
<1>4. QED
  BY <1>1, <1>2, <1>3, NodesAssumption, CellsAssumption DEF Header, Number, MaxWait

(* Initially what waits is of the genesis block.                           *)
LEMMA InitSorted == Init => NearlySorted
<1> SUFFICES ASSUME Init
             PROVE  NearlySorted
  OBVIOUS
<1>0. /\ Number(cur) = 0 /\ MaxWait \in Nat /\ Maturity \in Nat
      /\ pc = "poll"
  <2>1. cur = <<Genesis>> /\ Len(cur) = 1 /\ pc = "poll"
    BY GenesisIsHeader DEF Init
  <2>2. QED
    BY <2>1, CellsAssumption DEF Number, MaxWait
<1>1. PICK g \in Header : g = <<Genesis>> /\ Len(g) > 0
  BY GenesisIsHeader
<1>2. PICK s \in Seq(Cell) : s = CbCells(g)
  BY <1>1, CellsOfBlock
<1>3. /\ Len(Waiting(g, s)) = Len(s)
      /\ \A i \in 1..Len(s) : Waiting(g, s)[i].number = Number(g)
  BY <1>1, WaitingProperties
<1>4. unmatureds = Waiting(g, s) /\ cur = g
  BY <1>1, <1>2 DEF Init
<1>5. \A i \in 1..Len(unmatureds) : unmatureds[i].number = 0
  BY <1>0, <1>3, <1>4
<1>6. ASSUME NEW i \in 1..Len(unmatureds)
      PROVE  InReach(unmatureds[i])
  <2>1. unmatureds[i].number = 0
    BY <1>5
  <2>2. QED
    BY <1>0, <2>1 DEF InReach, Below, FarBelow, Holding
<1>7. \A i, j \in 1..Len(unmatureds) : j < i =>
        unmatureds[j].number <= unmatureds[i].number + MaxWait
  BY <1>0, <1>5
<1>8. QED
  BY <1>0, <1>6, <1>7 DEF NearlySorted

(* A rollback stays in reach of what waits.                                *)
LEMMA RollbackInReach ==
  ASSUME Shape, Anchored, Rollback, Parent(probe) # cur,
         NEW w \in Wait, InReach(w)
  PROVE  InReach(w)'
<1> DEFINE n == RollbackNumber(Number(cur))
<1>0. /\ Number(cur) \in Nat /\ Len(chain[1]) \in Nat
       /\ Len(cur) = Number(cur) + 1 /\ Number(cur) + 1 <= Len(chain[1])
  BY Numbers
<1>1. PICK c, t \in Nat :
        /\ c = Number(cur) /\ t = Len(chain[1])
        /\ Len(cur) = c + 1 /\ c + 1 <= t
  BY <1>0
<1>1c. PICK span, depth \in Nat :
        span = RollbackSpan /\ depth = ReorgDepth /\ depth <= span
  BY Numbers
<1>1a. PICK wait, m \in Nat :
        /\ wait = MaxWait /\ m = Maturity
        /\ wait = IF span > 1 THEN 2 * span - 3 ELSE 0
  BY <1>1c, Numbers
<1>1b. PICK k \in Nat : k = w.number
  BY DEF Wait
<1>2. n \in Nat /\ n = IF c > span THEN c - span ELSE 0
  BY <1>1, <1>1a, <1>1b, <1>1c DEF RollbackNumber
<1>3. n < Len(chain[1]) /\ chain[1] \in Header /\ 1 \in Endpoint
  BY <1>1, <1>1a, <1>1b, <1>1c, <1>2, Numbers
<1>4. /\ pc' = "poll" /\ cur' = Ancestor(chain[1], n) /\ chain' = chain
      /\ pc = "rollback"
  BY <1>3 DEF Rollback, HasHeader, HeaderByNumber
<1>5. /\ Len(cur') = n + 1 /\ Number(cur') = n
      /\ \A i \in 1..(n + 1) : chain[1][i] = cur'[i]
  <2>1. /\ Len(cur') = n + 1
        /\ \A i \in 1..(n + 1) : chain[1][i] = cur'[i]
    BY <1>2, <1>3, <1>4, AncestorProperties
  <2>2. QED
    BY <1>2, <2>1 DEF Number
<1>6. c + 2 <= t
  <2>1. Agrees(1, probe) /\ Len(probe) = Len(cur) + 1
    BY <1>4, NodesAssumption DEF Shape, Anchored, Comparing, TypeOK
  <2>2. QED
    BY <1>1, <1>1a, <1>1b, <1>1c, <2>1 DEF Agrees
<1>7. ~ (c < k /\ c + span <= k + 1)
  BY <1>1, <1>1a, <1>1b, <1>1c, <1>4 DEF InReach, Below, FarBelow, Comparing
<1>8. c < k => k + 1 < t
  BY <1>1, <1>1a, <1>1b, <1>1c DEF InReach, Below
<1>9. c <= k + m + wait /\ k <= c + wait + 1
  BY <1>1, <1>1a, <1>1b, <1>1c, <1>4 DEF InReach, Holding
<1>10. k + 1 < t \/ ~ (n < k)
  BY <1>1, <1>1a, <1>1b, <1>1c, <1>2, <1>6, <1>8
<1>11. n < k /\ n + span <= k + 1 => Settled(1, cur)'
  <2> SUFFICES ASSUME n < k, n + span <= k + 1
               PROVE  Settled(1, cur)'
    OBVIOUS
  <2>1. n + 1 <= t /\ n + 1 + depth <= t
    BY <1>1, <1>1a, <1>1b, <1>1c, <1>2, <1>10
  <2>2. QED
    BY <1>1, <1>1a, <1>1b, <1>1c, <1>4, <1>5, <2>1 DEF Settled
<1>12. k <= n + wait + 1
  BY <1>1, <1>1a, <1>1b, <1>1c, <1>2, <1>7, <1>9
<1>13. n <= k + m + wait
  BY <1>1, <1>1a, <1>1b, <1>1c, <1>2, <1>9
<1> HIDE DEF n
<1>14. /\ Below(w)' <=> n < k
       /\ FarBelow(w)' <=> n < k /\ n + span <= k + 1
       /\ ~ Holding' /\ ~ Comparing'
       /\ Len(chain[1])' = t
  BY <1>1, <1>1a, <1>1b, <1>1c, <1>4, <1>5 DEF Below, FarBelow, Holding, Comparing
<1>15. QED
  BY <1>1, <1>1a, <1>1b, <1>1c, <1>5, <1>10, <1>11, <1>12, <1>13, <1>14 DEF InReach

(* The next block stays in reach of what waits.                            *)
LEMMA FetchInReach ==
  ASSUME Shape, Anchored, Fetch, NEW w \in Wait, InReach(w)
  PROVE  InReach(w)'
<1>0. /\ Number(cur) \in Nat /\ Len(chain[1]) \in Nat
       /\ Len(cur) = Number(cur) + 1 /\ Number(cur) + 1 <= Len(chain[1])
  BY Numbers
<1>1. PICK c, t \in Nat :
        /\ c = Number(cur) /\ t = Len(chain[1])
        /\ Len(cur) = c + 1 /\ c + 1 <= t
  BY <1>0
<1>1c. PICK span, depth \in Nat :
        span = RollbackSpan /\ depth = ReorgDepth /\ depth <= span
  BY Numbers
<1>1a. PICK wait, m \in Nat : wait = MaxWait /\ m = Maturity
  BY Numbers
<1>1b. PICK k \in Nat : k = w.number
  BY DEF Wait
<1>2. chain' = chain /\ pc = "fetch" /\ ~ Comparing' /\ Len(chain[1])' = t
  BY <1>1, <1>1a, <1>1b, <1>1c DEF Fetch, Comparing
<1>3. CASE ~ HasBlock(1, probe)
  <2>1. cur' = cur /\ pc' = "poll"
    BY <1>3 DEF Fetch
  <2>2. QED
    BY <1>2, <2>1 DEF InReach, Below, FarBelow, Holding, Settled
<1>4. CASE HasBlock(1, probe)
  <2>1. cur' = probe /\ pc' = "send" /\ Holding' /\ ~ Holding
    BY <1>2, <1>4 DEF Fetch, Holding
  <2>2. probe \in Header /\ Len(probe) = c + 2 /\ Len(probe) <= t
    BY <1>1, <1>1a, <1>1b, <1>1c, <1>2, <1>4 DEF Shape, TypeOK, Comparing, HasBlock
  <2>3. Number(cur') = c + 1
    BY <1>1, <1>1a, <1>1b, <1>1c, <2>1, <2>2 DEF Number
  <2>4. k <= c + wait + 1
    BY <1>1, <1>1a, <1>1b, <1>1c, <2>1 DEF InReach
  <2>5. c < k => k + 1 < t
    BY <1>1, <1>1a, <1>1b, <1>1c DEF InReach, Below
  <2>6. c + 1 < k /\ c + 1 + span <= k + 1 => Settled(1, cur)'
    <3> SUFFICES ASSUME c + 1 < k, c + 1 + span <= k + 1
                 PROVE  Settled(1, cur)'
      OBVIOUS
    <3>1. Len(probe) + depth <= t
      <4>1. k + 1 < t /\ c + 1 + depth <= k + 1
        BY <1>1c, <2>5
      <4>2. QED
        BY <2>2, <4>1
    <3>2. \A i \in 1..Len(probe) : chain[1][i] = probe[i]
      <4>1. chain[1] \in Seq(Block) /\ Len(chain[1]) \in Nat
        BY Numbers DEF Header
      <4>2. \A i \in 1..Len(probe) : chain[1][i] \in Block
        BY <1>1, <1>1a, <1>1b, <1>1c, <2>2, <4>1, ElementOfSeq
      <4>3. \A i \in 1..Len(probe) : SubSeq(chain[1], 1, Len(probe))[i] = chain[1][i]
        BY <2>2, <4>2, SubSeqProperties
      <4>4. QED
        BY <1>4, <4>3 DEF HasBlock
    <3>3. QED
      BY <1>1, <1>1a, <1>1b, <1>1c, <1>2, <2>1, <2>2, <3>1, <3>2 DEF Settled
  <2>7. /\ Below(w)' <=> c + 1 < k
        /\ FarBelow(w)' <=> c + 1 < k /\ c + 1 + span <= k + 1
    BY <1>1, <1>1a, <1>1b, <1>1c, <2>3 DEF Below, FarBelow
  <2>8. QED
    BY <1>1, <1>1a, <1>1b, <1>1c, <1>2, <2>1, <2>3, <2>4, <2>5, <2>6, <2>7 DEF InReach
<1>5. QED
  BY <1>3, <1>4

(* The other steps stay in reach of what waits, but for the end of a block.*)
LEMMA OthersInReach ==
  ASSUME Shape, Anchored, [Next]_vars, ~ Rollback, ~ Fetch, ~ Collect,
         NEW w \in Wait, InReach(w)
  PROVE  InReach(w)'
<1>0. cur' = cur /\ 1 \in Endpoint /\ chain \in [Endpoint -> Header] /\ cur \in Header
  BY Numbers DEF Next, Puller, Poll, Compare, Fixed, SendMatured, SendUnmatured, Return,
     Receive, DropReceiver, Nodes, vars, pullerVars, Shape, TypeOK
<1>1. CASE Poll
  <2>1. /\ chain' = chain /\ pc = "poll" /\ pc' = "compare"
        /\ probe' = Ancestor(chain[1], Len(cur)) /\ Len(cur) < Len(chain[1])
    BY <1>1, Numbers DEF Poll, HasHeader, HeaderByNumber, Number
  <2>2. ASSUME FarBelow(w)
        PROVE  Parent(probe') = cur
    <3>1. \A i \in 1..Len(cur) : chain[1][i] = cur[i]
      BY <2>2 DEF InReach, Settled
    <3>2. /\ probe' \in Header /\ Len(probe') = Len(cur) + 1
          /\ \A i \in 1..(Len(cur) + 1) : probe'[i] = chain[1][i]
      BY <2>1, Numbers, AncestorProperties
    <3>3. PICK p \in Header : p = probe'
      BY <3>2
    <3>4. /\ Parent(p) \in Header /\ Len(Parent(p)) = Len(cur)
          /\ \A i \in 1..Len(cur) : Parent(p)[i] = p[i]
      BY <3>2, <3>3, Numbers, ParentProperties
    <3>5. Parent(p) = cur
      <4>1. /\ Parent(p) \in Seq(Block) /\ cur \in Seq(Block)
            /\ Len(cur) \in Nat /\ Len(Parent(p)) = Len(cur)
        BY <1>0, <3>4, Numbers DEF Header
      <4>2. \A i \in 1..Len(Parent(p)) : Parent(p)[i] = cur[i]
        BY <3>1, <3>2, <3>3, <3>4, <4>1
      <4>3. QED
        BY <4>1, <4>2, SeqEqual
    <3>6. QED
      BY <3>3, <3>5
  <2>3. QED
    BY <1>0, <2>1, <2>2 DEF InReach, Below, FarBelow, Holding, Settled
<1>2. CASE Compare \/ Fixed
  BY <1>0, <1>2 DEF Compare, Fixed, InReach, Below, FarBelow, Holding, Settled, Comparing
<1>3. CASE SendMatured \/ SendUnmatured \/ Return
  BY <1>0, <1>3 DEF SendMatured, SendUnmatured, Return, InReach, Below, FarBelow, Holding,
     Settled, Comparing
<1>4. CASE Receive \/ DropReceiver \/ UNCHANGED vars
  BY <1>0, <1>4 DEF Receive, DropReceiver, vars, pullerVars, InReach, Below, FarBelow,
     Holding, Settled, Comparing
<1>5. CASE Nodes
  <2>1. NodesNext /\ pc' = pc /\ probe' = probe
    BY <1>5 DEF Nodes, pullerVars
  <2>2. Len(chain[1]) <= Len(chain'[1]) /\ Len(chain'[1]) \in Nat
    BY <1>0, <2>1, ShapeChains, NodesGrow, NextChains DEF Chains, Header
  <2>3. FarBelow(w) => Settled(1, cur)'
    <3>1. SUFFICES ASSUME Settled(1, cur)
                   PROVE  Settled(1, cur)'
      BY DEF InReach
    <3>2. /\ Len(cur) <= Len(chain'[1])
          /\ Len(cur) > 1 => Len(cur) + ReorgDepth <= Len(chain'[1])
          /\ \A i \in 1..Len(cur) : chain'[1][i] = cur[i]
      BY <1>0, <2>1, <3>1, ShapeChains, NodesSettle
    <3>3. QED
      BY <1>0, <3>2 DEF Settled
  <2>4. Below(w) => w.number + 1 < Len(chain'[1])
    <3>1. w.number \in Nat
      BY DEF Wait
    <3>2. QED
      BY <2>2, <3>1, Numbers DEF InReach
  <2>5. /\ Below(w)' <=> Below(w)
        /\ FarBelow(w)' <=> FarBelow(w)
        /\ Holding' <=> Holding
        /\ Comparing' <=> Comparing
    BY <1>0, <2>1 DEF Below, FarBelow, Holding, Comparing
  <2>6. QED
    BY <1>0, <2>1, <2>3, <2>4, <2>5 DEF InReach
<1>6. QED
  BY <1>1, <1>2, <1>3, <1>4, <1>5 DEF Next, Puller

(* At the end of a block the first cell that waits is not mature, and the  *)
(* others are near it.                                                     *)
LEMMA CollectSorted == Shape /\ Anchored /\ NearlySorted /\ Collect => NearlySorted'
<1> SUFFICES ASSUME Shape, Anchored, NearlySorted, Collect
             PROVE  NearlySorted'
  OBVIOUS
<1>0. /\ unmatureds \in Seq(Wait) /\ cur \in Header /\ Len(cur) > 0
      /\ Number(cur) \in Nat /\ MaxWait \in Nat /\ Maturity \in Nat
      /\ cur' = cur /\ chain' = chain /\ pc = "send" /\ pc' = "poll"
  BY Numbers DEF Collect, Shape, TypeOK, Wait
<1>1. PICK s \in Seq(Cell) : s = CbCells(cur)
  BY <1>0, CellsOfBlock
<1>2. PICK z \in Seq(Wait) :
        /\ z = Waiting(cur, s)
        /\ Len(z) = Len(s)
        /\ \A i \in 1..Len(s) : z[i].number = Number(cur)
  BY <1>0, WaitingProperties DEF Wait
<1>3. unmatureds' = unmatureds \o z
  BY <1>1, <1>2 DEF Collect
<1>4. /\ Len(unmatureds) \in Nat /\ Len(z) \in Nat
      /\ Len(unmatureds') = Len(unmatureds) + Len(z)
      /\ \A i \in 1..(Len(unmatureds) + Len(z)) : unmatureds'[i] =
           IF i <= Len(unmatureds) THEN unmatureds[i] ELSE z[i - Len(unmatureds)]
  BY <1>0, <1>3, ConcatProperties, LenProperties
<1>5. \A i \in 1..Len(unmatureds) : unmatureds[i] \in Wait /\ unmatureds[i].number \in Nat
  <2>1. TAKE i \in 1..Len(unmatureds)
  <2>2. unmatureds[i] \in Wait
    BY <1>0, ElementOfSeq
  <2>3. QED
    BY <2>2 DEF Wait
<1>6. ASSUME NEW i \in 1..Len(unmatureds)
      PROVE  /\ Number(cur) <= unmatureds[i].number + Maturity + MaxWait
             /\ unmatureds[i].number <= Number(cur) + MaxWait
             /\ InReach(unmatureds[i])
  <2>1. 1 \in 1..Len(unmatureds) /\ unmatureds # <<>> /\ Head(unmatureds) = unmatureds[1]
    BY <1>0, <1>4, EmptySeq, HeadTailProperties
  <2>2. Number(cur) <= unmatureds[1].number + Maturity
    BY <1>0, <1>5, <2>1 DEF Collect, FirstHasMatured, IsMatured
  <2>3. unmatureds[1].number <= unmatureds[i].number + MaxWait
    BY <1>0, <1>5, <2>1 DEF NearlySorted
  <2>4. InReach(unmatureds[i])
    BY DEF NearlySorted
  <2>5. unmatureds[i].number <= Number(cur) + MaxWait
    BY <1>0, <1>5, <2>4 DEF InReach, Holding
  <2>6. QED
    BY <1>0, <1>5, <2>1, <2>2, <2>3, <2>4, <2>5
<1>7. ASSUME NEW i \in 1..Len(unmatureds')
      PROVE  \/ i \in 1..Len(unmatureds) /\ unmatureds'[i] = unmatureds[i]
             \/ ~ (i <= Len(unmatureds)) /\ unmatureds'[i].number = Number(cur)
  BY <1>2, <1>4
<1>8. ASSUME NEW i \in 1..Len(unmatureds')
      PROVE  InReach(unmatureds[i])'
  <2>1. CASE i \in 1..Len(unmatureds) /\ unmatureds'[i] = unmatureds[i]
    <3>1. PICK w \in Wait : w = unmatureds[i] /\ w = unmatureds'[i] /\ w.number \in Nat
      BY <1>5, <2>1
    <3>2. /\ Number(cur) <= w.number + Maturity + MaxWait
          /\ w.number <= Number(cur) + MaxWait
          /\ InReach(w)
      BY <1>6, <2>1, <3>1
    <3>3. InReach(w)'
      BY <1>0, <3>1, <3>2 DEF InReach, Below, FarBelow, Holding, Comparing, Settled
    <3>4. QED
      BY <3>1, <3>3 DEF InReach, Below, FarBelow
  <2>2. CASE unmatureds'[i].number = Number(cur)
    BY <1>0, <2>2 DEF InReach, Below, FarBelow, Holding, Comparing
  <2>3. QED
    BY <1>7, <2>1, <2>2
<1>9. ASSUME NEW i \in 1..Len(unmatureds'), NEW j \in 1..Len(unmatureds'), j < i
      PROVE  unmatureds'[j].number <= unmatureds'[i].number + MaxWait
  <2>1. CASE i \in 1..Len(unmatureds) /\ unmatureds'[i] = unmatureds[i]
    <3>1. j \in 1..Len(unmatureds) /\ unmatureds'[j] = unmatureds[j]
      BY <1>4, <1>7, <1>9, <2>1
    <3>2. QED
      BY <1>9, <2>1, <3>1 DEF NearlySorted
  <2>2. CASE ~ (i <= Len(unmatureds)) /\ unmatureds'[i].number = Number(cur)
    BY <1>0, <1>5, <1>6, <1>7, <2>2
  <2>3. QED
    BY <1>7, <2>1, <2>2
<1>10. QED
  BY <1>0, <1>8, <1>9 DEF NearlySorted

(* Every step keeps the list nearly sorted.                                *)
LEMMA NextSorted == Shape /\ Anchored /\ NearlySorted /\ [Next]_vars => NearlySorted'
<1> SUFFICES ASSUME Shape, Anchored, NearlySorted, [Next]_vars, ~ Collect
             PROVE  NearlySorted'
  BY CollectSorted
<1>0. unmatureds \in Seq(Wait)
  BY DEF Shape, TypeOK, Wait
<1>1. pc' = "rollback" => Parent(probe') # cur'
  BY DEF NearlySorted, Next, Puller, Poll, Compare, Fixed, Rollback, Fetch, SendMatured,
     SendUnmatured, Collect, Return, Receive, DropReceiver, Nodes, vars, pullerVars,
     SameParent
<1>2. ASSUME NEW w \in Wait, InReach(w)
      PROVE  InReach(w)'
  <2>1. CASE Rollback
    BY <1>2, <2>1, RollbackInReach DEF NearlySorted, Rollback
  <2>2. CASE Fetch
    BY <1>2, <2>2, FetchInReach
  <2>3. CASE ~ Rollback /\ ~ Fetch
    BY <1>2, <2>3, OthersInReach
  <2>4. QED
    BY <2>1, <2>2, <2>3
<1>3. PICK d \in 0..1 :
        /\ Len(unmatureds) \in Nat /\ Len(unmatureds') = Len(unmatureds) - d
        /\ \A i \in 1..Len(unmatureds') :
             i + d \in 1..Len(unmatureds) /\ unmatureds'[i] = unmatureds[i + d]
  <2>1. CASE SendUnmatured
    <3>1. unmatureds # <<>> /\ unmatureds' = Tail(unmatureds)
      BY <2>1 DEF SendUnmatured, RemoveFirst, FirstHasMatured
    <3>2. /\ Len(unmatureds) \in Nat
          /\ Len(unmatureds') = Len(unmatureds) - 1
          /\ \A i \in 1..Len(unmatureds') : unmatureds'[i] = unmatureds[i + 1]
      BY <1>0, <3>1, HeadTailProperties, LenProperties
    <3>3. \A i \in 1..Len(unmatureds') : i + 1 \in 1..Len(unmatureds)
      BY <3>2
    <3>4. QED
      BY <3>2, <3>3
  <2>2. CASE ~ SendUnmatured
    <3>1. unmatureds' = unmatureds
      BY <2>2 DEF Next, Puller, Poll, Compare, Fixed, Rollback, Fetch, SendMatured,
         Return, Receive, DropReceiver, Nodes, vars, pullerVars
    <3>2. Len(unmatureds) \in Nat
      BY <1>0, LenProperties
    <3>3. QED
      BY <3>1, <3>2
  <2>3. QED
    BY <2>1, <2>2
<1>4. ASSUME NEW i \in 1..Len(unmatureds')
      PROVE  InReach(unmatureds[i])'
  <2>1. i + d \in 1..Len(unmatureds) /\ unmatureds'[i] = unmatureds[i + d]
    BY <1>3
  <2>2. PICK w \in Wait : w = unmatureds[i + d] /\ InReach(w)
    BY <1>0, <2>1, ElementOfSeq DEF NearlySorted
  <2>3. InReach(w)'
    BY <1>2, <2>2
  <2>4. QED
    BY <2>1, <2>2, <2>3 DEF InReach, Below, FarBelow
<1>5. ASSUME NEW i \in 1..Len(unmatureds'), NEW j \in 1..Len(unmatureds'), j < i
      PROVE  unmatureds'[j].number <= unmatureds'[i].number + MaxWait
  <2>1. /\ i + d \in 1..Len(unmatureds) /\ unmatureds'[i] = unmatureds[i + d]
        /\ j + d \in 1..Len(unmatureds) /\ unmatureds'[j] = unmatureds[j + d]
        /\ j + d < i + d
    BY <1>3, <1>5
  <2>2. QED
    BY <2>1 DEF NearlySorted
<1>6. QED
  BY <1>1, <1>4, <1>5 DEF NearlySorted

-----------------------------------------------------------------------------
(* The sixth layer                                                         *)

(* The cells of a block are of that block, of the kind they are listed as, *)
(* and listed once.                                                        *)
LEMMA CellsAreListedOnce ==
  ASSUME NEW h \in Header, Len(h) > 0
  PROVE  /\ \A i \in 1..Len(TxCells(h)) :
              /\ TxCells(h)[i].block = h /\ ~ TxCells(h)[i].cellbase
              /\ \A j \in 1..Len(TxCells(h)) : TxCells(h)[i] = TxCells(h)[j] => i = j
         /\ \A i \in 1..Len(CbCells(h)) :
              /\ CbCells(h)[i].block = h /\ CbCells(h)[i].cellbase
              /\ \A j \in 1..Len(CbCells(h)) : CbCells(h)[i] = CbCells(h)[j] => i = j
<1>1. PICK m, n \in Nat : m = TxOuts[h[Len(h)]] /\ n = CbOuts[h[Len(h)]]
  BY OutsOfBlock
<1>2. ASSUME NEW b \in BOOLEAN, NEW k \in Nat
      PROVE  /\ Len(CellsOf(h, b, k)) = k
             /\ \A i \in 1..k : CellsOf(h, b, k)[i].block = h
             /\ \A i \in 1..k : CellsOf(h, b, k)[i].cellbase = b
  <2>1. Len(CellsOf(h, b, k)) = k
    BY CellsOfProperties
  <2>2. QED
    BY <2>1 DEF CellsOf
<1>3. \A b \in BOOLEAN, k \in Nat : \A i \in 1..k : CellsOf(h, b, k)[i].index = i
  BY DEF CellsOf
<1>4. /\ Len(CellsOf(h, FALSE, m)) = m
      /\ \A i \in 1..m : /\ CellsOf(h, FALSE, m)[i].block = h
                        /\ CellsOf(h, FALSE, m)[i].cellbase = FALSE
                        /\ CellsOf(h, FALSE, m)[i].index = i
  BY <1>2, <1>3, Zenon
<1>5. /\ Len(CellsOf(h, TRUE, n)) = n
      /\ \A i \in 1..n : /\ CellsOf(h, TRUE, n)[i].block = h
                        /\ CellsOf(h, TRUE, n)[i].cellbase = TRUE
                        /\ CellsOf(h, TRUE, n)[i].index = i
  BY <1>2, <1>3, Zenon
<1>6. TxCells(h) = CellsOf(h, FALSE, m) /\ CbCells(h) = CellsOf(h, TRUE, n)
  BY <1>1 DEF TxCells, CbCells
<1>7. /\ \A i \in 1..Len(TxCells(h)) : TxCells(h)[i].block = h /\ ~ TxCells(h)[i].cellbase
      /\ \A i \in 1..Len(TxCells(h)) : TxCells(h)[i].index = i
  BY <1>4, <1>6
<1>8. /\ \A i \in 1..Len(CbCells(h)) : CbCells(h)[i].block = h /\ CbCells(h)[i].cellbase
      /\ \A i \in 1..Len(CbCells(h)) : CbCells(h)[i].index = i
  BY <1>5, <1>6
<1>9. \A i, j \in 1..Len(TxCells(h)) : TxCells(h)[i] = TxCells(h)[j] => i = j
  BY <1>7
<1>10. \A i, j \in 1..Len(CbCells(h)) : CbCells(h)[i] = CbCells(h)[j] => i = j
  BY <1>8
<1>11. QED
  BY <1>7, <1>8, <1>9, <1>10

Passed(c) ==
  Len(c.block) <= Len(cur) /\ (c.cellbase /\ Holding => Len(c.block) < Len(cur))

Fresh == ~ rolledBack =>
  /\ \A c \in sent : Passed(c)
  /\ \A i \in 1..Len(outbox) :
       /\ Passed(outbox[i]) /\ ~ outbox[i].cellbase /\ outbox[i] \notin sent
       /\ \A j \in 1..Len(outbox) : outbox[i] = outbox[j] => i = j
  /\ \A i \in 1..Len(unmatureds) :
       /\ Passed(unmatureds[i].cell) /\ unmatureds[i].cell.cellbase
       /\ unmatureds[i].cell \notin sent
       /\ \A j \in 1..Len(unmatureds) :
            unmatureds[i].cell = unmatureds[j].cell => i = j

(* Initially the sixth layer holds.                                        *)
LEMMA InitFresh == Init => Fresh
<1> SUFFICES ASSUME Init
             PROVE  Fresh
  OBVIOUS
<1>1. PICK g \in Header : g = <<Genesis>> /\ Len(g) > 0 /\ g = cur
  BY GenesisIsHeader DEF Init
<1>2. PICK s, t \in Seq(Cell) : s = CbCells(g) /\ t = TxCells(g)
  BY <1>1, CellsOfBlock
<1>3. /\ \A i \in 1..Len(t) : t[i].block = g /\ ~ t[i].cellbase
      /\ \A i \in 1..Len(s) :
           /\ s[i].block = g /\ s[i].cellbase
           /\ \A j \in 1..Len(s) : s[i] = s[j] => i = j
  BY <1>1, <1>2, CellsAreListedOnce
<1>4. /\ Len(Waiting(g, s)) = Len(s)
      /\ \A i \in 1..Len(s) : Waiting(g, s)[i].cell = s[i]
  BY <1>1, WaitingProperties
<1>5. /\ unmatureds = Waiting(g, s) /\ sent = Elements(t)
      /\ outbox = <<>> /\ pc = "poll"
  BY <1>1, <1>2 DEF Init
<1>6. \A c \in sent : c.block = g /\ ~ c.cellbase
  BY <1>3, <1>5 DEF Elements
<1>7. Len(outbox) = 0 /\ Len(cur) \in Nat
  BY <1>1, <1>5, EmptySeq DEF Header
<1>8. \A c : c.block = g => Passed(c)
  BY <1>1, <1>5, <1>7 DEF Passed, Holding
<1>9. QED
  BY <1>3, <1>4, <1>5, <1>6, <1>7, <1>8 DEF Fresh

(* Every step keeps the sixth layer.                                       *)
LEMMA NextFresh == Shape /\ Fresh /\ [Next]_vars => Fresh'
<1> SUFFICES ASSUME Shape, Fresh, [Next]_vars
             PROVE  Fresh'
  OBVIOUS
<1>a. rolledBack => rolledBack'
  BY DEF Next, Puller, Poll, Compare, Fixed, Rollback, Fetch, SendMatured,
         SendUnmatured, Collect, Return, Receive, DropReceiver, Nodes, vars
<1> SUFFICES ASSUME ~ rolledBack, ~ rolledBack'
             PROVE  Fresh'
  BY <1>a DEF Fresh
<1>0. /\ cur \in Header /\ Len(cur) \in Nat /\ Len(cur) > 0
      /\ outbox \in Seq(Cell) /\ unmatureds \in Seq([number : Nat, cell : Cell])
      /\ \A c \in Cell : Len(c.block) \in Nat
      /\ sent \subseteq Cell
  BY DEF Shape, TypeOK, Header, Cell
<1>b. \A i \in 1..Len(unmatureds) : unmatureds[i].cell \in Cell
  <2>1. \A i \in 1..Len(unmatureds) : unmatureds[i] \in [number : Nat, cell : Cell]
    BY <1>0, ElementOfSeq
  <2>2. QED
    BY <2>1
<1>1. CASE /\ cur' = cur /\ sent' = sent /\ outbox' = outbox
           /\ unmatureds' = unmatureds /\ Holding' = Holding
  BY <1>1 DEF Fresh, Passed
<1>2. CASE Fetch
  <2>1. CASE HasBlock(1, probe)
    <3>1. /\ cur' = probe /\ outbox' = TxCells(probe) /\ pc' = "send"
          /\ sent' = sent /\ unmatureds' = unmatureds
          /\ probe \in Header /\ Len(probe) = Len(cur) + 1
      BY <1>2, <2>1 DEF Fetch, channelVars, Shape, TypeOK, Comparing
    <3>2. PICK t \in Seq(Cell) : t = TxCells(probe)
      BY <1>0, <3>1, CellsOfBlock
    <3>3. \A i \in 1..Len(t) : /\ t[i].block = probe /\ ~ t[i].cellbase
                               /\ \A j \in 1..Len(t) : t[i] = t[j] => i = j
      BY <1>0, <3>1, <3>2, CellsAreListedOnce
    <3>4. \A c \in sent : Len(c.block) <= Len(cur)
      BY DEF Fresh, Passed
    <3>5. \A i \in 1..Len(t) : t[i] \notin sent
      BY <1>0, <3>1, <3>3, <3>4
    <3>6. \A c \in Cell : Passed(c) => Passed(c)'
      BY <1>0, <3>1 DEF Passed
    <3>7. \A i \in 1..Len(t) : Passed(t[i])'
      BY <1>0, <3>1, <3>3 DEF Passed
    <3>8. QED
      BY <1>0, <1>b, <3>1, <3>2, <3>3, <3>5, <3>6, <3>7 DEF Fresh
  <2>2. CASE ~ HasBlock(1, probe)
    BY <1>1, <1>2, <2>2 DEF Fetch, channelVars, Holding
  <2>3. QED
    BY <2>1, <2>2
<1>3. CASE SendMatured
  <2>1. /\ outbox # <<>> /\ outbox' = Tail(outbox)
        /\ sent' = sent \cup {Head(outbox)}
        /\ unmatureds' = unmatureds /\ cur' = cur /\ pc' = pc
    BY <1>3 DEF SendMatured, Send
  <2>2. /\ Len(outbox) \in Nat /\ 1 \in 1..Len(outbox)
        /\ Len(Tail(outbox)) = Len(outbox) - 1
        /\ \A i \in 1..Len(Tail(outbox)) :
             i + 1 \in 1..Len(outbox) /\ Tail(outbox)[i] = outbox[i + 1]
        /\ Head(outbox) = outbox[1]
    BY <1>0, <2>1, EmptySeq, HeadTailProperties, LenProperties
  <2>3. Passed(outbox[1]) /\ ~ outbox[1].cellbase
    BY <2>2 DEF Fresh
  <2>4. \A i \in 1..Len(Tail(outbox)) :
          /\ Passed(Tail(outbox)[i]) /\ ~ Tail(outbox)[i].cellbase
          /\ Tail(outbox)[i] \notin sent
          /\ Tail(outbox)[i] # outbox[1]
          /\ \A j \in 1..Len(Tail(outbox)) :
               Tail(outbox)[i] = Tail(outbox)[j] => i = j
    <3> TAKE i \in 1..Len(Tail(outbox))
    <3>1. i + 1 \in 1..Len(outbox) /\ Tail(outbox)[i] = outbox[i + 1] /\ i + 1 # 1
      BY <2>2
    <3>2. \A j \in 1..Len(Tail(outbox)) : outbox[i + 1] = outbox[j + 1] => i + 1 = j + 1
      BY <2>2, <3>1 DEF Fresh
    <3>3. QED
      BY <2>2, <3>1, <3>2 DEF Fresh
  <2>5. \A i \in 1..Len(unmatureds) : unmatureds[i].cell \notin sent'
    BY <2>1, <2>2, <2>3 DEF Fresh
  <2>6. \A c : Passed(c)' <=> Passed(c)
    BY <2>1 DEF Passed, Holding
  <2>7. QED
    BY <2>1, <2>2, <2>3, <2>4, <2>5, <2>6 DEF Fresh
<1>4. CASE SendUnmatured
  <2>1. /\ unmatureds # <<>> /\ unmatureds' = Tail(unmatureds)
        /\ sent' = sent \cup {Head(unmatureds).cell}
        /\ outbox' = outbox /\ outbox = <<>> /\ cur' = cur /\ pc' = pc
    BY <1>4 DEF SendUnmatured, Send, RemoveFirst, FirstHasMatured
  <2>2. /\ Len(unmatureds) \in Nat /\ 1 \in 1..Len(unmatureds)
        /\ Len(Tail(unmatureds)) = Len(unmatureds) - 1
        /\ \A i \in 1..Len(Tail(unmatureds)) :
             i + 1 \in 1..Len(unmatureds) /\ Tail(unmatureds)[i] = unmatureds[i + 1]
        /\ Head(unmatureds) = unmatureds[1]
    BY <1>0, <2>1, EmptySeq, HeadTailProperties, LenProperties
  <2>3. Passed(unmatureds[1].cell)
    BY <2>2 DEF Fresh
  <2>4. \A i \in 1..Len(Tail(unmatureds)) :
          /\ Passed(Tail(unmatureds)[i].cell) /\ Tail(unmatureds)[i].cell.cellbase
          /\ Tail(unmatureds)[i].cell \notin sent
          /\ Tail(unmatureds)[i].cell # unmatureds[1].cell
          /\ \A j \in 1..Len(Tail(unmatureds)) :
               Tail(unmatureds)[i].cell = Tail(unmatureds)[j].cell => i = j
    <3> TAKE i \in 1..Len(Tail(unmatureds))
    <3>1. /\ i + 1 \in 1..Len(unmatureds) /\ Tail(unmatureds)[i] = unmatureds[i + 1]
          /\ i + 1 # 1
      BY <2>2
    <3>2. \A j \in 1..Len(Tail(unmatureds)) :
            unmatureds[i + 1].cell = unmatureds[j + 1].cell => i + 1 = j + 1
      BY <2>2, <3>1 DEF Fresh
    <3>3. QED
      BY <2>2, <3>1, <3>2 DEF Fresh
  <2>5. \A c : Passed(c)' <=> Passed(c)
    BY <2>1 DEF Passed, Holding
  <2>6. outbox' = <<>> /\ Len(outbox') = 0
    BY <2>1, EmptySeq
  <2>7. QED
    BY <2>1, <2>2, <2>3, <2>4, <2>5, <2>6 DEF Fresh
<1>5. CASE Collect
  <2>1. /\ unmatureds' = unmatureds \o Waiting(cur, CbCells(cur))
        /\ sent' = sent /\ outbox' = outbox /\ outbox = <<>> /\ cur' = cur
        /\ pc = "send" /\ pc' = "poll"
    BY <1>5 DEF Collect, channelVars
  <2>2. PICK s \in Seq(Cell) : s = CbCells(cur)
    BY <1>0, CellsOfBlock
  <2>3. \A i \in 1..Len(s) : /\ s[i].block = cur /\ s[i].cellbase
                             /\ \A j \in 1..Len(s) : s[i] = s[j] => i = j
    BY <1>0, <2>2, CellsAreListedOnce
  <2>4. PICK w \in Seq([number : Nat, cell : Cell]) :
          /\ w = Waiting(cur, s) /\ Len(w) = Len(s)
          /\ \A i \in 1..Len(s) : w[i].cell = s[i]
    BY <1>0, WaitingProperties
  <2>5. /\ Len(unmatureds) \in Nat /\ Len(w) \in Nat
        /\ Len(unmatureds') = Len(unmatureds) + Len(w)
        /\ \A i \in 1..(Len(unmatureds) + Len(w)) : unmatureds'[i] =
             IF i <= Len(unmatureds) THEN unmatureds[i] ELSE w[i - Len(unmatureds)]
    <3>1. unmatureds' = unmatureds \o w
      BY <2>1, <2>2, <2>4
    <3>2. QED
      BY <1>0, <3>1, ConcatProperties, LenProperties
  <2>6. \A c \in Cell : Passed(c) => Passed(c)'
    BY <1>0, <2>1 DEF Passed, Holding
  <2>7. \A i \in 1..Len(unmatureds) :
          unmatureds[i].cell \in Cell /\ Len(unmatureds[i].cell.block) < Len(cur)
    BY <1>b, <2>1 DEF Fresh, Passed, Holding
  <2>8. \A c \in sent : c.cellbase => Len(c.block) < Len(cur)
    BY <2>1 DEF Fresh, Passed, Holding
  <2>9. ASSUME NEW i \in 1..Len(unmatureds'), i > Len(unmatureds)
        PROVE  /\ unmatureds'[i].cell.block = cur /\ unmatureds'[i].cell.cellbase
               /\ unmatureds'[i].cell \notin sent
               /\ \A j \in 1..Len(unmatureds') : j > Len(unmatureds) =>
                    (unmatureds'[i].cell = unmatureds'[j].cell => i = j)
    <3>1. PICK k \in 1..Len(w) : k = i - Len(unmatureds) /\ unmatureds'[i] = w[k]
      BY <2>5, <2>9
    <3>2. unmatureds'[i].cell = s[k]
      BY <2>4, <3>1
    <3>3. \A j \in 1..Len(unmatureds') : j > Len(unmatureds) =>
            \E l \in 1..Len(w) : l = j - Len(unmatureds) /\ unmatureds'[j].cell = s[l]
      BY <2>4, <2>5
    <3>4. s[k].block = cur /\ s[k].cellbase /\ \A j \in 1..Len(s) : s[k] = s[j] => k = j
      BY <2>3, <2>4, <3>1
    <3>5. s[k] \notin sent
      BY <1>0, <2>8, <3>4
    <3>6. ASSUME NEW j \in 1..Len(unmatureds'), j > Len(unmatureds),
                 unmatureds'[i].cell = unmatureds'[j].cell
          PROVE  i = j
      <4>1. PICK l \in 1..Len(w) : l = j - Len(unmatureds) /\ unmatureds'[j].cell = s[l]
        BY <3>3, <3>6
      <4>2. k = l
        BY <2>4, <3>2, <3>4, <3>6, <4>1
      <4>3. QED
        BY <2>5, <3>1, <4>1, <4>2
    <3>7. QED
      BY <3>2, <3>4, <3>5, <3>6
  <2>10. ASSUME NEW i \in 1..Len(unmatureds'), i <= Len(unmatureds)
         PROVE  /\ Len(unmatureds'[i].cell.block) < Len(cur)
                /\ unmatureds'[i].cell \in Cell
                /\ unmatureds'[i] = unmatureds[i]
    BY <2>5, <2>7, <2>10
  <2>a. /\ \A j \in 1..Len(unmatureds') : j <= Len(unmatureds) \/ j > Len(unmatureds)
        /\ \A i, j \in 1..Len(unmatureds') :
             i <= Len(unmatureds) /\ j > Len(unmatureds) =>
               unmatureds'[i].cell # unmatureds'[j].cell
    <3>1. \A j \in 1..Len(unmatureds') : j <= Len(unmatureds) \/ j > Len(unmatureds)
      BY <2>5
    <3>2. ASSUME NEW i \in 1..Len(unmatureds'), NEW j \in 1..Len(unmatureds'),
                 i <= Len(unmatureds), j > Len(unmatureds)
          PROVE  unmatureds'[i].cell # unmatureds'[j].cell
      <4>1. Len(unmatureds'[i].cell.block) < Len(cur)
        BY <2>10, <3>2
      <4>2. unmatureds'[j].cell.block = cur
        BY <2>9, <3>2
      <4>3. QED
        BY <1>0, <4>1, <4>2
    <3>3. QED
      BY <3>1, <3>2
  <2>11. ASSUME NEW i \in 1..Len(unmatureds')
         PROVE  /\ Passed(unmatureds[i].cell)' /\ unmatureds'[i].cell.cellbase
                /\ unmatureds'[i].cell \notin sent'
                /\ \A j \in 1..Len(unmatureds') :
                     unmatureds'[i].cell = unmatureds'[j].cell => i = j
    <3>1. CASE i <= Len(unmatureds)
      <4>1. /\ Passed(unmatureds[i].cell) /\ unmatureds[i].cell.cellbase
            /\ unmatureds[i].cell \notin sent
            /\ \A j \in 1..Len(unmatureds) :
                 unmatureds[i].cell = unmatureds[j].cell => i = j
        BY <2>5, <3>1 DEF Fresh
      <4>2. \A j \in 1..Len(unmatureds') :
              unmatureds'[i].cell = unmatureds'[j].cell => j <= Len(unmatureds)
        BY <2>a, <3>1
      <4>3. \A j \in 1..Len(unmatureds') :
              unmatureds'[i].cell = unmatureds'[j].cell => i = j
        <5> SUFFICES ASSUME NEW j \in 1..Len(unmatureds'),
                            unmatureds'[i].cell = unmatureds'[j].cell
                     PROVE  i = j
          OBVIOUS
        <5>1. j \in 1..Len(unmatureds) /\ i \in 1..Len(unmatureds)
          BY <2>5, <3>1, <4>2
        <5>2. unmatureds'[i] = unmatureds[i] /\ unmatureds'[j] = unmatureds[j]
          BY <2>10, <3>1, <5>1
        <5>3. QED
          BY <4>1, <5>1, <5>2
      <4>4. Passed(unmatureds[i].cell)'
        BY <2>6, <2>10, <3>1, <4>1 DEF Passed, Holding
      <4>5. QED
        BY <2>1, <2>10, <3>1, <4>1, <4>3, <4>4
    <3>2. CASE i > Len(unmatureds)
      <4>1. \A j \in 1..Len(unmatureds') :
              unmatureds'[i].cell = unmatureds'[j].cell => j > Len(unmatureds)
        BY <2>a, <3>2
      <4>2. Passed(unmatureds[i].cell)'
        BY <1>0, <2>1, <2>9, <3>2 DEF Passed, Holding
      <4>3. QED
        BY <2>1, <2>9, <3>2, <4>1, <4>2
    <3>3. QED
      BY <2>5, <3>1, <3>2
  <2>12. \A c \in sent' : Passed(c)'
    BY <1>0, <2>1, <2>6 DEF Fresh
  <2>13. Len(outbox') = 0
    BY <2>1, EmptySeq
  <2>14. QED
    BY <2>11, <2>12, <2>13 DEF Fresh
<1>6. QED
  BY <1>1, <1>2, <1>3, <1>4, <1>5 DEF Next, Puller, Poll, Compare, Fixed, Rollback,
       Return, Receive, DropReceiver, Nodes, pullerVars, channelVars, vars, Holding

-----------------------------------------------------------------------------
(* The refinement                                                          *)

(* The initial states are initial states of UtxoFeed.                      *)
LEMMA InitFeed == Init => Feed!Init
<1> SUFFICES ASSUME Init
             PROVE  Feed!Init
  OBVIOUS
<1>1. CbCells(<<Genesis>>) \in Seq(Cell)
  BY GenesisIsHeader, CellsOfBlock
<1>2. {w.cell : w \in Elements(unmatureds)} = Elements(CbCells(<<Genesis>>))
  <2>1. PICK h \in Header : h = <<Genesis>> /\ Len(h) > 0
    BY GenesisIsHeader
  <2>2. unmatureds = Waiting(h, CbCells(h)) /\ CbCells(h) \in Seq(Cell)
    BY <1>1, <2>1 DEF Init
  <2>3. QED
    BY <2>1, <2>2, ElementsOfWaiting
<1>3. Elements(outbox) = {} /\ pc = "poll"
  BY EmptySeq DEF Init, Elements
<1>4. Owed = Elements(CbCells(<<Genesis>>))
  BY <1>2, <1>3 DEF Owed
<1>5. /\ Elements(CbCells(<<Genesis>>)) = Feed!Elements(Feed!CbCells(<<Genesis>>))
      /\ Elements(TxCells(<<Genesis>>)) = Feed!Elements(Feed!TxCells(<<Genesis>>))
  BY DEF Elements, CbCells, TxCells, CellsOf, Feed!Elements, Feed!CbCells, Feed!TxCells,
         Feed!CellsOf
<1>6. QED
  BY <1>4, <1>5 DEF Init, Feed!Init, NodesInit, Feed!NodesInit, Endpoint, Feed!Endpoint

(* A cell leaves a list of the thread to be sent: it is paid.              *)
LEMMA SendPays ==
  ASSUME NEW c, c \in Owed, Send(c), Feed!Spendable(c),
         Owed' \subseteq Owed, Owed \subseteq Owed' \cup {c},
         ~ rolledBack => c \notin Owed',
         UNCHANGED <<chain, cur, rolledBack>>, rolledBack \in BOOLEAN
  PROVE  Feed!Next
<1>1. Owed' = Owed \ {c} \/ (rolledBack /\ Owed' = Owed)
  OBVIOUS
<1>2. Feed!Pay(c)
  BY <1>1 DEF Send, Feed!Pay
<1>3. QED
  BY <1>2 DEF Feed!Next

(* Every step is a step of UtxoFeed or leaves its variables unchanged.     *)
LEMMA NextFeed ==
  ASSUME Shape, Anchored, Rewards, Rewards', Fresh, [Next]_vars
  PROVE  [Feed!Next]_(Feed!feedVars)
<1>0. /\ cur \in Header /\ Len(cur) \in Nat /\ Len(cur) > 0 /\ Number(cur) \in Nat
      /\ outbox \in Seq(Cell) /\ unmatureds \in Seq([number : Nat, cell : Cell])
      /\ rolledBack \in BOOLEAN
  BY DEF Shape, TypeOK, Header, Number
<1>1. CASE Poll \/ Compare \/ Fixed \/ Return
  <2>1. /\ UNCHANGED <<chain, cur, chan, open, sent, rolledBack, outbox, unmatureds>>
        /\ pc' \in {"send", "returned"} <=> pc \in {"send", "returned"}
    BY <1>1 DEF Poll, Compare, Fixed, Return, channelVars
  <2>2. Owed' = Owed
    BY <2>1 DEF Owed
  <2>3. QED
    BY <2>1, <2>2 DEF Feed!feedVars
<1>2. CASE Rollback
  <2>1. /\ pc = "rollback" /\ pc' = "poll" /\ rolledBack' = TRUE
        /\ UNCHANGED <<chain, chan, open, sent, outbox, unmatureds>>
        /\ Len(cur') <= Len(cur)
        /\ \A i \in 1..Len(cur') : cur'[i] = cur[i]
        /\ \A e \in Endpoint : \A i \in 1..Len(cur') : chain[e][i] = cur[i]
    BY <1>2, RollbackIsAncestor DEF Rollback, channelVars
  <2>2. Owed' = Owed
    BY <2>1 DEF Owed
  <2>3. cur' \in Header /\ Len(cur') \in Nat /\ Len(cur') > 0
    BY NextShape DEF Shape, TypeOK, Header
  <2>4. PICK n \in Nat : n = Len(cur') - 1
    BY <2>3
  <2>5. cur' = Ancestor(cur', n)
    BY <2>3, <2>4, SubSeqFull DEF Ancestor, Header
  <2>6. cur' = Feed!Ancestor(cur, n) /\ n \in 0..Number(cur)
    <3>1. n < Len(cur') /\ n < Len(cur) /\ \A i \in 1..(n + 1) : cur'[i] = cur[i]
      BY <1>0, <2>1, <2>3, <2>4
    <3>2. Ancestor(cur', n) = Ancestor(cur, n)
      BY <1>0, <2>3, <3>1, SameAncestor
    <3>3. QED
      BY <1>0, <2>5, <3>1, <3>2 DEF Ancestor, Feed!Ancestor, Number
  <2>7. n >= Number(cur) - RollbackSpan
    <3>1. RollbackSpan \in Nat /\ 1 \in Endpoint
      BY CellsAssumption, NodesAssumption DEF Endpoint
    <3>2. /\ cur' = Ancestor(chain[1], RollbackNumber(Number(cur)))
          /\ RollbackNumber(Number(cur)) < Len(chain[1])
      BY <1>2, <2>1 DEF Rollback, HeaderByNumber, HasHeader
    <3>3. RollbackNumber(Number(cur)) \in Nat
      BY <1>0, <3>1 DEF RollbackNumber
    <3>4. chain[1] \in Header
      BY <3>1 DEF Shape, TypeOK
    <3>5. Len(cur') = RollbackNumber(Number(cur)) + 1
      BY <3>2, <3>3, <3>4, AncestorProperties
    <3>6. QED
      BY <1>0, <2>3, <2>4, <3>1, <3>3, <3>5 DEF RollbackNumber
  <2>8. ASSUME NEW e \in Endpoint
        PROVE  Len(cur') <= Len(chain[e]) /\ SubSeq(chain[e], 1, Len(cur')) = cur'
    <3>1. chain[e] \in Header /\ Len(chain[e]) \in Nat /\ Len(cur) <= Len(chain[e])
      BY DEF Shape, TypeOK, Anchored, Agrees, Header
    <3>2. n < Len(chain[e]) /\ n < Len(cur') /\ \A i \in 1..(n + 1) : chain[e][i] = cur'[i]
      BY <1>0, <2>1, <2>3, <2>4, <3>1
    <3>3. Ancestor(chain[e], n) = Ancestor(cur', n)
      BY <2>3, <3>1, <3>2, SameAncestor
    <3>4. QED
      BY <1>0, <2>1, <2>3, <2>4, <2>5, <3>1, <3>3 DEF Ancestor
  <2>9. \A e \in Feed!Endpoint : Feed!HasBlock(e, cur')
    BY <2>8 DEF Endpoint, Feed!Endpoint, Feed!HasBlock
  <2>10. Feed!Number(cur) = Number(cur)
    BY DEF Number, Feed!Number
  <2>11. Feed!Back
    BY <2>1, <2>2, <2>6, <2>7, <2>9, <2>10 DEF Feed!Back
  <2>12. QED
    BY <2>11 DEF Feed!Next
<1>3. CASE Fetch /\ HasBlock(1, probe)
  <2>1. /\ cur' = probe /\ outbox' = TxCells(probe) /\ pc' = "send" /\ pc = "fetch"
        /\ UNCHANGED <<chain, chan, open, sent, unmatureds, rolledBack>>
        /\ probe \in Header /\ Len(probe) = Len(cur) + 1 /\ Parent(probe) = cur
        /\ outbox = <<>> /\ asked = NE
    BY <1>3 DEF Fetch, channelVars, Shape, TypeOK, Comparing
  <2>2. \A e \in Endpoint : Agrees(e, probe)
    BY <2>1 DEF Anchored, Comparing, Endpoint
  <2>3. probe = Append(cur, probe[Len(probe)]) /\ probe[Len(probe)] \in Block
    <3>1. probe[Len(probe)] \in Block /\ Len(probe) \in Nat
      BY <1>0, <2>1 DEF Header
    <3>2. \A i \in 1..Len(cur) : probe[i] = cur[i]
      BY <1>0, <2>1, ParentProperties
    <3>3. PICK s \in Seq(Block) : s = Append(cur, probe[Len(probe)])
      BY <1>0, <3>1, AppendProperties DEF Header
    <3>4. /\ Len(s) = Len(cur) + 1 /\ s[Len(cur) + 1] = probe[Len(probe)]
          /\ \A i \in 1..Len(cur) : s[i] = cur[i]
      BY <1>0, <3>1, <3>3, AppendProperties DEF Header
    <3>5. \A i \in 1..Len(s) : s[i] = probe[i]
      BY <1>0, <2>1, <3>2, <3>4
    <3>6. s = probe
      BY <1>0, <2>1, <3>4, <3>5, SeqEqual DEF Header
    <3>7. QED
      BY <3>1, <3>3, <3>6
  <2>4. Owed' = Owed \cup Elements(TxCells(cur')) \cup Elements(CbCells(cur'))
    <3>1. Elements(outbox) = {}
      BY <2>1, EmptySeq DEF Elements
    <3>2. QED
      BY <2>1, <3>1 DEF Owed
  <2>5. /\ Elements(TxCells(cur')) = Feed!Elements(Feed!TxCells(cur'))
        /\ Elements(CbCells(cur')) = Feed!Elements(Feed!CbCells(cur'))
    BY DEF Elements, TxCells, CbCells, CellsOf, Feed!Elements, Feed!TxCells,
           Feed!CbCells, Feed!CellsOf
  <2>6. \A e \in Feed!Endpoint : Feed!Agrees(e, cur')
    BY <2>1, <2>2 DEF Agrees, Feed!Agrees, Endpoint, Feed!Endpoint
  <2>7. \E b \in Block : cur' = Append(cur, b)
    BY <2>1, <2>3
  <2>8. Feed!Advance
    BY <2>1, <2>4, <2>5, <2>6, <2>7 DEF Feed!Advance
  <2>9. QED
    BY <2>8 DEF Feed!Next
<1>4. CASE Fetch /\ ~ HasBlock(1, probe)
  <2>1. /\ UNCHANGED <<chain, cur, chan, open, sent, rolledBack, outbox, unmatureds>>
        /\ pc = "fetch" /\ pc' = "poll"
    BY <1>4 DEF Fetch, channelVars
  <2>2. Owed' = Owed
    BY <2>1 DEF Owed
  <2>3. QED
    BY <2>1, <2>2 DEF Feed!feedVars
<1>5. CASE SendMatured
  <2>1. /\ outbox # <<>> /\ outbox' = Tail(outbox) /\ pc = "send"
        /\ Send(Head(outbox))
        /\ UNCHANGED <<chain, pc, cur, unmatureds, rolledBack>>
    BY <1>5 DEF SendMatured
  <2>2. /\ Elements(outbox) = {Head(outbox)} \cup Elements(Tail(outbox))
        /\ Head(outbox) \in Elements(outbox)
    BY <1>0, <2>1, ElementsOfTail
  <2>3. Head(outbox) \in Owed /\ Owed' \subseteq Owed /\ Owed \subseteq Owed' \cup {Head(outbox)}
    BY <2>1, <2>2 DEF Owed
  <2>4. ~ Head(outbox).cellbase
    BY <2>2 DEF Rewards, Elements
  <2>5. ASSUME ~ rolledBack
        PROVE  Head(outbox) \notin Owed'
    <3>1. Head(outbox) \notin Elements(Tail(outbox))
      <4>1. /\ Head(outbox) = outbox[1] /\ 1 \in 1..Len(outbox)
            /\ \A i \in 1..Len(Tail(outbox)) :
                 Tail(outbox)[i] = outbox[i + 1] /\ i + 1 \in 1..Len(outbox) /\ i + 1 # 1
        BY <1>0, <2>1, EmptySeq, HeadTailProperties, LenProperties
      <4>2. \A i \in 1..Len(Tail(outbox)) : Tail(outbox)[i] # outbox[1]
        BY <2>5, <4>1 DEF Fresh
      <4>3. QED
        BY <4>1, <4>2 DEF Elements
    <3>2. \A w \in Elements(unmatureds) : w.cell.cellbase
      BY <2>5 DEF Fresh, Elements
    <3>3. \A c \in Elements(CbCells(cur)) : c.cellbase
      BY <1>0, CellsAreListedOnce DEF Elements
    <3>4. QED
      BY <2>1, <2>4, <3>1, <3>2, <3>3 DEF Owed
  <2>6. Feed!Spendable(Head(outbox))
    BY <2>4 DEF Feed!Spendable
  <2>7. QED
    BY <1>0, <2>1, <2>3, <2>5, <2>6, SendPays
<1>6. CASE SendUnmatured
  <2>1. /\ unmatureds # <<>> /\ unmatureds' = Tail(unmatureds) /\ pc = "send"
        /\ Send(Head(unmatureds).cell) /\ outbox = <<>>
        /\ UNCHANGED <<chain, pc, cur, outbox, rolledBack>>
    BY <1>6 DEF SendUnmatured, RemoveFirst, FirstHasMatured
  <2>2. /\ Elements(unmatureds) = {Head(unmatureds)} \cup Elements(Tail(unmatureds))
        /\ Head(unmatureds) \in Elements(unmatureds)
        /\ Elements(outbox) = {}
    <3>1. Elements(unmatureds) = {Head(unmatureds)} \cup Elements(Tail(unmatureds))
      BY <1>0, <2>1, ElementsOfTail
    <3>2. Elements(outbox) = {}
      BY <2>1, EmptySeq DEF Elements
    <3>3. QED
      BY <3>1, <3>2
  <2> DEFINE c == Head(unmatureds).cell
  <2>3. c \in Owed /\ Owed' \subseteq Owed /\ Owed \subseteq Owed' \cup {c}
    BY <2>1, <2>2 DEF Owed
  <2>4. ASSUME ~ rolledBack
        PROVE  c \notin Owed'
    <3>1. /\ Head(unmatureds) = unmatureds[1] /\ 1 \in 1..Len(unmatureds)
          /\ \A i \in 1..Len(Tail(unmatureds)) :
               /\ Tail(unmatureds)[i] = unmatureds[i + 1]
               /\ i + 1 \in 1..Len(unmatureds) /\ i + 1 # 1
      BY <1>0, <2>1, EmptySeq, HeadTailProperties, LenProperties
    <3>2. \A i \in 1..Len(Tail(unmatureds)) : Tail(unmatureds)[i].cell # c
      BY <2>4, <3>1 DEF Fresh
    <3>3. \A w \in Elements(Tail(unmatureds)) : w.cell # c
      BY <3>2 DEF Elements
    <3>4. Len(c.block) < Len(cur)
      BY <2>1, <2>4, <3>1 DEF Fresh, Passed, Holding
    <3>5. \A d \in Elements(CbCells(cur)) : d.block = cur
      BY <1>0, CellsAreListedOnce DEF Elements
    <3>6. c \notin Elements(CbCells(cur))
      BY <1>0, <3>4, <3>5
    <3>7. QED
      BY <2>1, <2>2, <3>3, <3>6 DEF Owed
  <2>5. c \in sent'
    BY <2>1 DEF Send
  <2>6. c.cellbase => \A e \in Endpoint : Number(chain[e]) > Number(c.block) + Maturity
    BY <2>1, <2>5 DEF Rewards, NoImmatureReward, Number
  <2>7. Feed!Spendable(c)
    BY <2>6 DEF Feed!Spendable, Feed!IsMatured, Feed!Number, Number, Feed!Endpoint, Endpoint
  <2>8. QED
    BY <1>0, <2>1, <2>3, <2>4, <2>7, SendPays
<1>7. CASE Collect
  <2>1. /\ unmatureds' = unmatureds \o Waiting(cur, CbCells(cur))
        /\ UNCHANGED <<chain, cur, chan, open, sent, rolledBack, outbox>>
        /\ pc = "send" /\ pc' = "poll"
    BY <1>7 DEF Collect, channelVars
  <2>2. PICK s \in Seq(Cell) : s = CbCells(cur)
    BY <1>0, CellsOfBlock
  <2>3. PICK w \in Seq([number : Nat, cell : Cell]) : w = Waiting(cur, s)
    BY <1>0, WaitingProperties
  <2>4. {x.cell : x \in Elements(w)} = Elements(s)
    BY <1>0, <2>3, ElementsOfWaiting
  <2>5. Elements(unmatureds') = Elements(unmatureds) \cup Elements(w)
    BY <1>0, <2>1, <2>2, <2>3, ElementsOfConcat
  <2>6. Owed' = Owed
    BY <2>1, <2>2, <2>4, <2>5 DEF Owed
  <2>7. QED
    BY <2>1, <2>6 DEF Feed!feedVars
<1>8. CASE Receive \/ DropReceiver \/ Nodes
  <2>1. UNCHANGED <<pc, cur, outbox, unmatureds>>
    BY <1>8 DEF Receive, DropReceiver, Nodes, pullerVars
  <2>2. Owed' = Owed
    BY <2>1 DEF Owed
  <2>3. CASE Receive
    BY <2>1, <2>2, <2>3 DEF Receive, Feed!Receive, Feed!Next
  <2>4. CASE DropReceiver
    BY <2>1, <2>2, <2>4 DEF DropReceiver, Feed!DropReceiver, Feed!Next
  <2>5. CASE Nodes
    <3>1. Feed!NodesNext
      BY <2>5 DEF Nodes, NodesNext, NewBlock, Reorg, MayAdopt, Number, Endpoint,
           Feed!NodesNext, Feed!NewBlock, Feed!Reorg, Feed!MayAdopt, Feed!Number,
           Feed!Endpoint
    <3>2. QED
      BY <2>1, <2>2, <2>5, <3>1 DEF Nodes, channelVars, Feed!Nodes, Feed!Next
  <2>6. QED
    BY <1>8, <2>3, <2>4, <2>5
<1>9. CASE UNCHANGED vars
  BY <1>9 DEF vars, pullerVars, channelVars, Owed, Feed!feedVars
<1>10. QED
  BY <1>1, <1>2, <1>3, <1>4, <1>5, <1>6, <1>7, <1>8, <1>9 DEF Next, Puller

-----------------------------------------------------------------------------
(* The theorems                                                            *)

(* The variables keep their types.                                         *)
THEOREM TypeCorrect == Spec => []TypeOK
<1>1. Shape => TypeOK
  BY DEF Shape
<1>2. QED
  BY <1>1, AlwaysShape, PTL

(* The thread never panics: rollback_for_reorg always finds its header, as *)
(* re-organisations are not deeper than the rollback.                      *)
THEOREM PanicFree == Spec => []NeverPanics
<1>1. Init => NeverPanics
  BY DEF Init, NeverPanics
<1>2. Shape /\ Anchored /\ NeverPanics /\ [Next]_vars => NeverPanics'
  <2> SUFFICES ASSUME Shape, Anchored, NeverPanics, [Next]_vars
               PROVE  NeverPanics'
    OBVIOUS
  <2>1. CASE Rollback
    BY <2>1, RollbackIsAncestor DEF NeverPanics
  <2>2. CASE Poll \/ Compare \/ Fixed \/ Fetch \/ SendMatured \/ SendUnmatured
             \/ Collect \/ Return
    BY <2>2 DEF Poll, Compare, Fixed, Fetch, SendMatured, SendUnmatured, Collect,
         Return, NeverPanics
  <2>3. CASE Receive \/ DropReceiver \/ Nodes \/ UNCHANGED vars
    BY <2>3 DEF Receive, DropReceiver, Nodes, vars, pullerVars, NeverPanics
  <2>4. QED
    BY <2>1, <2>2, <2>3 DEF Next, Puller
<1>3. QED
  BY <1>1, <1>2, AlwaysShape, AlwaysAnchored, PTL DEF Spec

(* Every cell of the branch of current_header is sent or still held.       *)
THEOREM CoverageHolds == Spec => []Coverage
<1>1. Init => Coverage
  BY InitCoverage
<1>2. Shape /\ Anchored /\ Coverage /\ [Next]_vars => Coverage'
  BY NextCoverage
<1>3. QED
  BY <1>1, <1>2, AlwaysShape, AlwaysAnchored, PTL DEF Spec

(* No cell of any node's main chain is missed, from RollbackSpan blocks    *)
(* behind current_header downwards.                                        *)
THEOREM NothingIsMissed == Spec => []NothingMissed
<1>1. Shape /\ Anchored /\ Coverage => NothingMissed
  <2> SUFFICES ASSUME Shape, Anchored, Coverage,
                      NEW e \in Endpoint, NEW n \in 0..(Number(cur) - RollbackSpan)
               PROVE  BlockAccounted(Ancestor(chain[e], n))
    BY DEF NothingMissed
  <2>1. /\ cur \in Header /\ chain[e] \in Header
        /\ Len(cur) \in Nat /\ Len(chain[e]) \in Nat
    BY DEF Shape, TypeOK, Header
  <2>2. RollbackSpan \in Nat /\ ReorgDepth \in Nat /\ ReorgDepth <= RollbackSpan
    BY CellsAssumption, NodesAssumption
  <2>3. /\ n \in Nat /\ n < Len(cur) /\ n \in 0..Number(cur)
        /\ n + 1 <= Len(cur) - ReorgDepth
    BY <2>1, <2>2 DEF Number
  <2>4. Agrees(e, cur)
    BY DEF Anchored
  <2>5. n < Len(chain[e]) /\ \A i \in 1..(n + 1) : chain[e][i] = cur[i]
    BY <2>1, <2>2, <2>3, <2>4 DEF Agrees
  <2>6. Ancestor(chain[e], n) = Ancestor(cur, n)
    BY <2>1, <2>3, <2>5, SameAncestor
  <2>7. QED
    BY <2>3, <2>6 DEF Coverage
<1>2. QED
  BY <1>1, AlwaysShape, AlwaysAnchored, CoverageHolds, PTL

(* No cellbase cell is sent before every node would accept its spending.   *)
THEOREM RewardsAreMature == Spec => []NoImmatureReward
<1>1. Init => Rewards
  BY InitRewards
<1>2. Shape /\ Anchored /\ Rewards /\ [Next]_vars => Rewards'
  BY NextRewards
<1>3. Rewards => NoImmatureReward
  BY DEF Rewards
<1>4. QED
  BY <1>1, <1>2, <1>3, AlwaysShape, AlwaysAnchored, PTL DEF Spec

(* A matured cell is held back for at most MaxWait blocks by those before  *)
(* it in the list.                                                         *)
THEOREM HeldBackBriefly == Spec => []HeldBack
<1>1. Init => NearlySorted
  BY InitSorted
<1>2. Shape /\ Anchored /\ NearlySorted /\ [Next]_vars => NearlySorted'
  BY NextSorted
<1>3. NearlySorted => HeldBack
  BY DEF NearlySorted, HeldBack, InReach, Holding
<1>4. QED
  BY <1>1, <1>2, <1>3, AlwaysShape, AlwaysAnchored, PTL DEF Spec

(* The fourth and the sixth layer hold in every reachable state.           *)
LEMMA AlwaysFresh == Spec => [](Rewards /\ Fresh)
<1>1. Init => Rewards /\ Fresh
  BY InitRewards, InitFresh
<1>2. Shape /\ Anchored /\ Rewards /\ Fresh /\ [Next]_vars => Rewards' /\ Fresh'
  BY NextRewards, NextFresh
<1>3. QED
  BY <1>1, <1>2, AlwaysShape, AlwaysAnchored, PTL DEF Spec

(* The chain monitor implements UtxoFeed.                                  *)
THEOREM Implements == Spec => FeedSpec
<1>1. Init => Feed!Init
  BY InitFeed
<1>2. /\ Shape /\ Anchored /\ Rewards /\ Fresh
      /\ Rewards'
      /\ [Next]_vars
      => [Feed!Next]_(Feed!feedVars)
  BY NextFeed
<1>3. QED
  BY <1>1, <1>2, AlwaysShape, AlwaysAnchored, AlwaysFresh, PTL
     DEF Spec, FeedSpec, Feed!Spec

(* Until it rolls back, the thread never sends a cell twice.               *)
THEOREM NeverRepeats == Spec => NoRepeat
<1>1. ASSUME Shape, Rewards, Fresh, [Next]_vars, Len(chan') > Len(chan), ~ rolledBack
      PROVE  chan'[Len(chan')] \notin sent
  <2>0. /\ outbox \in Seq(Cell) /\ unmatureds \in Seq([number : Nat, cell : Cell])
        /\ chan \in Seq(Cell) /\ Len(chan) \in Nat
    BY <1>1, LenProperties DEF Shape, TypeOK
  <2>1. CASE SendMatured
    <3>1. outbox # <<>> /\ chan' = Append(chan, Head(outbox))
      BY <2>1 DEF SendMatured, Send
    <3>2. Head(outbox) \in Elements(outbox) /\ Head(outbox) \in Cell
      BY <2>0, <3>1, ElementsOfTail
    <3>3. Head(outbox) \notin sent
      BY <1>1, <3>2 DEF Fresh, Elements
    <3>4. chan'[Len(chan')] = Head(outbox)
      BY <2>0, <3>1, <3>2, AppendProperties
    <3>5. QED
      BY <3>3, <3>4
  <2>2. CASE SendUnmatured
    <3>1. unmatureds # <<>> /\ chan' = Append(chan, Head(unmatureds).cell)
      BY <2>2 DEF SendUnmatured, Send, FirstHasMatured
    <3>2. /\ Head(unmatureds) \in Elements(unmatureds)
          /\ Head(unmatureds) \in [number : Nat, cell : Cell]
      BY <2>0, <3>1, ElementsOfTail
    <3>3. Head(unmatureds).cell \notin sent /\ Head(unmatureds).cell \in Cell
      BY <1>1, <3>2 DEF Fresh, Elements
    <3>4. chan'[Len(chan')] = Head(unmatureds).cell
      BY <2>0, <3>1, <3>3, AppendProperties
    <3>5. QED
      BY <3>3, <3>4
  <2>3. CASE Receive
    <3>1. Len(chan') = Len(chan) - 1
      BY <2>0, <2>3, HeadTailProperties DEF Receive
    <3>2. QED
      BY <1>1, <2>0, <3>1
  <2>4. CASE chan' = chan
    BY <1>1, <2>0, <2>4
  <2>5. QED
    BY <1>1, <2>1, <2>2, <2>3, <2>4 DEF Next, Puller, Poll, Compare, Fixed, Rollback,
         Fetch, Collect, Return, DropReceiver, Nodes, channelVars, vars
<1>2. Shape /\ Rewards /\ Fresh /\ [Next]_vars =>
        [Len(chan') > Len(chan) => rolledBack \/ chan'[Len(chan')] \notin sent]_vars
  BY <1>1
<1>3. QED
  BY <1>2, AlwaysShape, AlwaysFresh, PTL DEF Spec, NoRepeat

=============================================================================
