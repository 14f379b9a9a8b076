------------------------------ MODULE CkbNodes ------------------------------
(***************************************************************************)
(* The CKB nodes that tps-bench talks to, as seen through its JSON-RPC     *)
(* wrapper (tps-bench/src/rpc.rs).  A node keeps one main chain.  It mines *)
(* or receives blocks on top of it, and it may switch to another chain     *)
(* (a re-organisation).  Nodes move independently of each other and of the *)
(* program, between any two RPC calls.                                     *)
(*                                                                         *)
(* A block hash commits to all the ancestors of the block, so a header is  *)
(* modelled by its path: the sequence of block bodies from the genesis     *)
(* block to the block itself.  Equal paths are equal hashes, and the       *)
(* parent hash of a header is its path without the last body.              *)
(***************************************************************************)
EXTENDS Integers, Sequences

CONSTANTS
  NE,           (* number of endpoints given by --rpc-urls                 *)
  Block,        (* the block bodies that miners can produce                *)
  Genesis,      (* the genesis block, common to all nodes                  *)
  ReorgDepth,   (* a node never abandons more than this many tip blocks    *)
  MaxHeight     (* bound of the model: no chain grows beyond this number   *)

ASSUME NodesAssumption ==
  /\ NE \in Nat \ {0}
  /\ Genesis \in Block
  /\ ReorgDepth \in Nat
  /\ MaxHeight \in Nat

VARIABLE chain  (* chain[e] is the main chain of endpoint e                *)

Endpoint == 1..NE

Header == Seq(Block)

Number(h) == Len(h) - 1

(* The first n + 1 blocks of a path: its block of number n.                *)
Ancestor(h, n) == SubSeq(h, 1, n + 1)

Parent(h) == SubSeq(h, 1, Len(h) - 1)

(* Jsonrpc::get_header_by_number(n) returns Some(_)                        *)
HasHeader(e, n) == n < Len(chain[e])

(* The header that Jsonrpc::get_header_by_number(n) returns.               *)
HeaderByNumber(e, n) == Ancestor(chain[e], n)

(* Jsonrpc::get_block(hash) returns Some(_): nodes answer only for blocks  *)
(* of their main chain.                                                    *)
HasBlock(e, h) == /\ Len(h) <= Len(chain[e])
                  /\ SubSeq(chain[e], 1, Len(h)) = h

(* Node e has, or has had, h on its main chain: the chain of e is not      *)
(* shorter than h, and shares with h all but the last ReorgDepth blocks.   *)
Agrees(e, h) ==
  /\ Len(h) <= Len(chain[e])
  /\ \A i \in 1..Len(h) :
       (i = 1 \/ i <= Len(h) - ReorgDepth) => chain[e][i] = h[i]

NodesInit == chain = [e \in Endpoint |-> <<Genesis>>]

(* A block is added to the main chain of e.                                *)
NewBlock(e) ==
  /\ Number(chain[e]) < MaxHeight
  /\ \E b \in Block : chain' = [chain EXCEPT ![e] = Append(@, b)]

(* A node follows the heaviest chain: it switches to c when c is not       *)
(* shorter than its own, and what it abandons is at most ReorgDepth deep.  *)
MayAdopt(e, c) ==
  /\ Len(c) >= Len(chain[e])
  /\ \A i \in 1..Len(chain[e]) :
       (i = 1 \/ i <= Len(chain[e]) - ReorgDepth) => c[i] = chain[e][i]

Reorg(e) ==
  \E n \in Len(chain[e])..(MaxHeight + 1) :
    \E c \in [1..n -> Block] :
      /\ MayAdopt(e, c)
      /\ ~ \A i \in 1..Len(chain[e]) : c[i] = chain[e][i]
      /\ chain' = [chain EXCEPT ![e] = c]

NodesNext == \E e \in Endpoint : NewBlock(e) \/ Reorg(e)

=============================================================================
