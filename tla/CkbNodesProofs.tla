--------------------------- MODULE CkbNodesProofs ---------------------------
(***************************************************************************)
(* Facts about headers and about the nodes, for the proofs of the modules  *)
(* that talk to them: what ancestors and parents are, and that whatever    *)
(* the nodes do, they stay in agreement with the headers they agreed with, *)
(* and keep the blocks that are ReorgDepth deep.                           *)
(***************************************************************************)
EXTENDS CkbNodes, SequenceTheorems, TLAPS

(* A block of number n of a path, and the paths of its ancestors.          *)
LEMMA AncestorProperties ==
  ASSUME NEW h \in Header, NEW n \in Nat, n < Len(h)
  PROVE  /\ Ancestor(h, n) \in Header
         /\ Len(Ancestor(h, n)) = n + 1
         /\ \A i \in 1..(n + 1) : Ancestor(h, n)[i] = h[i]
<1>1. \A i \in 1..(n + 1) : h[i] \in Block
  BY DEF Header
<1>2. QED
  BY <1>1, SubSeqProperties DEF Ancestor, Header

(* The parent of a header other than the genesis block's.                  *)
LEMMA ParentProperties ==
  ASSUME NEW h \in Header, Len(h) > 1
  PROVE  /\ Parent(h) \in Header
         /\ Len(Parent(h)) = Len(h) - 1
         /\ \A i \in 1..(Len(h) - 1) : Parent(h)[i] = h[i]
<1>1. \A i \in 1..(Len(h) - 1) : h[i] \in Block
  BY DEF Header
<1>2. QED
  BY <1>1, SubSeqProperties DEF Parent, Header

(* Two paths that agree block by block up to number n have the same        *)
(* ancestor of number n.                                                   *)
LEMMA SameAncestor ==
  ASSUME NEW g \in Header, NEW h \in Header, NEW n \in Nat,
         n < Len(g), n < Len(h), \A i \in 1..(n + 1) : g[i] = h[i]
  PROVE  Ancestor(g, n) = Ancestor(h, n)
<1>1. /\ Ancestor(g, n) \in Seq(Block) /\ Ancestor(h, n) \in Seq(Block)
      /\ Len(Ancestor(g, n)) = Len(Ancestor(h, n))
      /\ \A i \in 1..Len(Ancestor(g, n)) : Ancestor(g, n)[i] = Ancestor(h, n)[i]
  BY AncestorProperties DEF Header
<1>2. QED
  BY <1>1, SeqEqual

(* A function on 1..n is a sequence of length n.                           *)
LEMMA FunctionIsSeq ==
  ASSUME NEW S, NEW n \in Nat, NEW f \in [1..n -> S]
  PROVE  f \in Seq(S) /\ Len(f) = n
OBVIOUS

(* The genesis block is a header.                                          *)
LEMMA GenesisIsHeader == <<Genesis>> \in Header /\ Len(<<Genesis>>) = 1
BY NodesAssumption DEF Header

(* Every node has a main chain, which is not empty.                        *)
Chains ==
  /\ chain \in [Endpoint -> Header]
  /\ \A e \in Endpoint : Len(chain[e]) > 0

(* Initially every node has the genesis block.                             *)
LEMMA InitChains == NodesInit => Chains
BY GenesisIsHeader DEF NodesInit, Chains

(* The nodes keep their chains in shape.                                   *)
LEMMA NextChains == Chains /\ NodesNext => Chains'
<1> SUFFICES ASSUME Chains, NodesNext
             PROVE  Chains'
  OBVIOUS
<1> USE DEF Chains
<1>1. PICK e \in Endpoint : NewBlock(e) \/ Reorg(e)
  BY DEF NodesNext
<1>2. CASE NewBlock(e)
  <2>1. PICK b \in Block : chain' = [chain EXCEPT ![e] = Append(chain[e], b)]
    BY <1>2 DEF NewBlock
  <2>2. QED
    BY <2>1, AppendProperties DEF Header
<1>3. CASE Reorg(e)
  <2>0. PICK n \in Len(chain[e])..(MaxHeight + 1) :
          \E c \in [1..n -> Block] : chain' = [chain EXCEPT ![e] = c]
    BY <1>3 DEF Reorg
  <2>1. PICK c \in [1..n -> Block] : chain' = [chain EXCEPT ![e] = c]
    BY <2>0
  <2>2. n \in Nat /\ n > 0
    BY NodesAssumption DEF Header
  <2>3. c \in Header /\ Len(c) = n
    BY <2>1, <2>2 DEF Header
  <2>4. QED
    BY <2>1, <2>2, <2>3
<1>4. QED
  BY <1>1, <1>2, <1>3

(* A node that answers with a block agrees with its header.                *)
LEMMA HasBlockAgrees ==
  ASSUME Chains, NEW e \in Endpoint, NEW h \in Header, HasBlock(e, h)
  PROVE  Agrees(e, h)
<1>1. /\ chain[e] \in Seq(Block) /\ h \in Seq(Block)
      /\ Len(h) <= Len(chain[e])
      /\ SubSeq(chain[e], 1, Len(h)) = h
  BY DEF Chains, Header, HasBlock
<1>2. Len(h) \in Nat /\ Len(chain[e]) \in Nat
  BY <1>1, LenProperties
<1>3. \A i \in 1..Len(h) : chain[e][i] \in Block
  BY <1>1, <1>2, ElementOfSeq
<1>4. \A i \in 1..Len(h) : SubSeq(chain[e], 1, Len(h))[i] = chain[e][i]
  BY <1>2, <1>3, SubSeqProperties
<1>5. QED
  BY <1>1, <1>4 DEF Agrees

(* What a node does keeps it in agreement with every header it agreed      *)
(* with: chains do not shrink, and a re-organisation is ReorgDepth deep.   *)
LEMMA NodesAgree ==
  ASSUME Chains, NodesNext, NEW e \in Endpoint, NEW h \in Header, Agrees(e, h)
  PROVE  /\ Len(h) <= Len(chain'[e])
         /\ \A i \in 1..Len(h) :
              (i = 1 \/ i <= Len(h) - ReorgDepth) => chain'[e][i] = h[i]
<1>1. /\ chain \in [Endpoint -> Seq(Block)]
      /\ Len(h) \in Nat /\ Len(chain[e]) \in Nat
      /\ Len(h) <= Len(chain[e])
      /\ ReorgDepth \in Nat
  BY NodesAssumption DEF Chains, Header, Agrees
<1>2. PICK f \in Endpoint : NewBlock(f) \/ Reorg(f)
  BY DEF NodesNext
<1>3. CASE f # e
  <2>1. chain'[e] = chain[e]
    BY <1>1, <1>2, <1>3 DEF NewBlock, Reorg
  <2>2. QED
    BY <2>1 DEF Agrees
<1>4. CASE f = e /\ NewBlock(e)
  <2>1. PICK b \in Block : chain'[e] = Append(chain[e], b)
    BY <1>1, <1>4 DEF NewBlock
  <2>2. /\ Len(chain'[e]) = Len(chain[e]) + 1
        /\ \A i \in 1..Len(chain[e]) : chain'[e][i] = chain[e][i]
    BY <1>1, <2>1, AppendProperties
  <2>3. QED
    BY <1>1, <2>2 DEF Agrees
<1>5. CASE f = e /\ Reorg(e)
  <2>1. PICK n \in Len(chain[e])..(MaxHeight + 1) :
          \E c \in [1..n -> Block] :
            MayAdopt(e, c) /\ chain' = [chain EXCEPT ![e] = c]
    BY <1>5 DEF Reorg
  <2>2. PICK c \in [1..n -> Block] :
          MayAdopt(e, c) /\ chain' = [chain EXCEPT ![e] = c]
    BY <2>1
  <2>3. n \in Nat
    BY <1>1, NodesAssumption
  <2>4. chain'[e] = c /\ Len(c) >= Len(chain[e])
    BY <1>1, <2>2 DEF MayAdopt
  <2>5. Len(c) = n
    BY <2>2, <2>3, FunctionIsSeq
  <2>6. \A i \in 1..Len(chain[e]) :
          (i = 1 \/ i <= Len(chain[e]) - ReorgDepth) => c[i] = chain[e][i]
    BY <2>2 DEF MayAdopt
  <2>7. QED
    BY <1>1, <2>3, <2>4, <2>5, <2>6 DEF Agrees
<1>6. QED
  BY <1>2, <1>3, <1>4, <1>5

-----------------------------------------------------------------------------
(* Blocks that stay                                                        *)

(* h is on the main chain of e, and too deep to be abandoned.              *)
Settled(e, h) ==
  /\ Len(h) <= Len(chain[e])
  /\ Len(h) > 1 => Len(h) + ReorgDepth <= Len(chain[e])
  /\ \A i \in 1..Len(h) : chain[e][i] = h[i]

(* The node answers with a block when it has all the bodies of its path.   *)
LEMMA PrefixIsThere ==
  ASSUME Chains, NEW e \in Endpoint, NEW h \in Header,
         Len(h) <= Len(chain[e]), \A i \in 1..Len(h) : chain[e][i] = h[i]
  PROVE  HasBlock(e, h)
<1>1. /\ chain[e] \in Seq(Block) /\ h \in Seq(Block)
      /\ Len(h) \in Nat /\ Len(chain[e]) \in Nat
  BY DEF Chains, Header
<1>2. \A i \in 1..Len(h) : chain[e][i] \in Block
  BY <1>1, ElementOfSeq
<1>3. /\ SubSeq(chain[e], 1, Len(h)) \in Seq(Block)
      /\ Len(SubSeq(chain[e], 1, Len(h))) = Len(h)
      /\ \A i \in 1..Len(h) : SubSeq(chain[e], 1, Len(h))[i] = chain[e][i]
  BY <1>1, <1>2, SubSeqProperties
<1>4. SubSeq(chain[e], 1, Len(h)) = h
  BY <1>1, <1>3, SeqEqual
<1>5. QED
  BY <1>1, <1>4 DEF HasBlock

(* The node answers with a settled block.                                  *)
LEMMA SettledIsThere ==
  ASSUME Chains, NEW e \in Endpoint, NEW h \in Header, Settled(e, h)
  PROVE  HasBlock(e, h)
BY PrefixIsThere DEF Settled

(* A settled block stays settled.                                          *)
LEMMA NodesSettle ==
  ASSUME Chains, NodesNext, NEW e \in Endpoint, NEW h \in Header, Settled(e, h)
  PROVE  /\ Len(h) <= Len(chain'[e])
         /\ Len(h) > 1 => Len(h) + ReorgDepth <= Len(chain'[e])
         /\ \A i \in 1..Len(h) : chain'[e][i] = h[i]
<1>1. /\ chain[e] \in Header /\ chain'[e] \in Header
      /\ Len(h) \in Nat /\ Len(chain[e]) \in Nat /\ Len(chain'[e]) \in Nat
      /\ ReorgDepth \in Nat
  BY NextChains, NodesAssumption DEF Chains, Header
<1>2. PICK g \in Header : g = chain[e] /\ Agrees(e, g)
  BY <1>1 DEF Agrees
<1>3. /\ Len(g) <= Len(chain'[e])
      /\ \A i \in 1..Len(g) :
           (i = 1 \/ i <= Len(g) - ReorgDepth) => chain'[e][i] = g[i]
  BY <1>2, NodesAgree
<1>4. \A i \in 1..Len(h) : i \in 1..Len(g) /\ (i = 1 \/ i <= Len(g) - ReorgDepth)
  BY <1>1, <1>2 DEF Settled
<1>5. \A i \in 1..Len(h) : chain'[e][i] = h[i]
  BY <1>2, <1>3, <1>4 DEF Settled
<1>6. QED
  BY <1>1, <1>2, <1>3, <1>5 DEF Settled

(* The ancestors, ReorgDepth deep, of a header that a node agrees with are *)
(* settled there, and so is the genesis block.                             *)
LEMMA AgreedIsSettled ==
  ASSUME Chains, NEW e \in Endpoint, NEW h \in Header, Agrees(e, h),
         NEW n \in Nat, n < Len(h), n = 0 \/ n + ReorgDepth < Len(h)
  PROVE  Settled(e, Ancestor(h, n))
<1>1. /\ Len(h) \in Nat /\ Len(chain[e]) \in Nat /\ ReorgDepth \in Nat
      /\ Len(h) <= Len(chain[e])
  BY NodesAssumption DEF Chains, Header, Agrees
<1>2. /\ Len(Ancestor(h, n)) = n + 1
      /\ \A i \in 1..(n + 1) : Ancestor(h, n)[i] = h[i]
  BY AncestorProperties
<1>3. \A i \in 1..(n + 1) : chain[e][i] = h[i]
  BY <1>1 DEF Agrees
<1>4. QED
  BY <1>1, <1>2, <1>3 DEF Settled

(* What a node has at the number of one of its settled blocks, or below,   *)
(* is settled as well.                                                     *)
LEMMA SettledAncestors ==
  ASSUME Chains, NEW e \in Endpoint, NEW f \in Endpoint, NEW h \in Header,
         Settled(e, h), Settled(f, h), NEW n \in Nat, n < Len(h)
  PROVE  /\ Settled(e, Ancestor(chain[f], n))
         /\ Ancestor(chain[f], n) = Ancestor(h, n)
<1>1. /\ Len(h) \in Nat /\ Len(chain[e]) \in Nat /\ Len(chain[f]) \in Nat
      /\ chain[f] \in Header /\ ReorgDepth \in Nat /\ Len(h) <= Len(chain[f])
      /\ \A i \in 1..Len(h) : chain[f][i] = h[i]
  BY NodesAssumption DEF Chains, Header, Settled
<1>2. Ancestor(chain[f], n) = Ancestor(h, n)
  BY <1>1, SameAncestor
<1>3. /\ Len(Ancestor(h, n)) = n + 1
      /\ \A i \in 1..(n + 1) : Ancestor(h, n)[i] = h[i]
  BY AncestorProperties
<1>4. /\ Len(h) <= Len(chain[e])
      /\ \A i \in 1..Len(h) : chain[e][i] = h[i]
      /\ Len(h) > 1 => Len(h) + ReorgDepth <= Len(chain[e])
  BY DEF Settled
<1>5. \A i \in 1..(n + 1) : chain[e][i] = Ancestor(h, n)[i]
  BY <1>1, <1>3, <1>4
<1>6. QED
  BY <1>1, <1>2, <1>3, <1>4, <1>5 DEF Settled

(* Main chains do not shrink.                                              *)
LEMMA NodesGrow ==
  ASSUME Chains, NodesNext, NEW e \in Endpoint
  PROVE  Len(chain[e]) <= Len(chain'[e])
<1>1. PICK g \in Header : g = chain[e]
  BY DEF Chains
<1>2. Agrees(e, g)
  BY <1>1 DEF Agrees, Header
<1>3. QED
  BY <1>1, <1>2, NodesAgree

(* A node agrees with the blocks of its own main chain.                    *)
LEMMA OwnHeader ==
  ASSUME Chains, NEW e \in Endpoint, NEW n \in Nat, n < Len(chain[e])
  PROVE  Agrees(e, Ancestor(chain[e], n))
<1>1. chain[e] \in Header /\ Len(chain[e]) \in Nat
  BY DEF Chains, Header
<1>2. /\ Len(Ancestor(chain[e], n)) = n + 1
      /\ \A i \in 1..(n + 1) : Ancestor(chain[e], n)[i] = chain[e][i]
  BY <1>1, AncestorProperties
<1>3. QED
  BY <1>1, <1>2 DEF Agrees

=============================================================================
