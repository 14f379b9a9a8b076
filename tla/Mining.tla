------------------------------- MODULE Mining -------------------------------
(***************************************************************************)
(* The miner (tps-bench/src/miner.rs): mine mode, which generates a given  *)
(* number of blocks and ends, and how bench mode starts its background     *)
(* miner, spawn_miner (threads.rs), after it has made sure that the blocks *)
(* of the node reward the configured account.  Other miners work on the    *)
(* same chain.  The chain is the number of its tip, and a template the     *)
(* number of the block to be.                                              *)
(***************************************************************************)
EXTENDS Integers

CONSTANTS
  Blocks,       (* --blocks of mine mode                                   *)
  FirstReward,  (* the first block of a chain whose cellbase has an output *)
  Starts,       (* the tips that a run can find                            *)
  MaxForeign,   (* bound of the model: blocks of the other miners          *)
  MaxHeight     (* bound of the model: the background miner stops there    *)

ASSUME MiningAssumption ==
  /\ {Blocks, FirstReward} \subseteq Nat \ {0}
  /\ {MaxForeign, MaxHeight} \subseteq Nat
  /\ Starts \subseteq Nat

Thread == {"main", "background", "foreign"}

VARIABLES
  mode,         (* the subcommand: "mine" or "bench"                       *)
  matches,      (* the block_assembler of the node is the miner's account  *)
  start,        (* the tip that this run found                             *)
  tip,          (* the tip of the node                                     *)
  template,     (* template[t] is the template that t works on, or 0       *)
  pc,           (* where the main thread is                                *)
  left,         (* the blocks that generate_blocks is still to generate    *)
  accepted,     (* history: the blocks of main that the node accepted      *)
  paying,       (* history: those with an output that bench mode submitted *)
  foreign       (* history: the blocks of the other miners on the chain    *)

vars == <<mode, matches, start, tip, template, pc, left, accepted, paying,
          foreign>>

(* Faulty: the range of generate_blocks is 1..n.                           *)
RoundsFromOne == Blocks - 1

Rounds == Blocks

Init ==
  /\ mode \in {"mine", "bench"}
  /\ matches \in BOOLEAN
  /\ start \in Starts
  /\ tip = start
  /\ template = [t \in Thread |-> 0]
  /\ pc = IF mode = "mine" THEN "mine" ELSE "assemble"
  /\ left = Rounds
  /\ accepted = 0
  /\ paying = 0
  /\ foreign = 0

(* generate_block: get_block_template ...                                  *)
GetTemplate(t) ==
  /\ template[t] = 0
  /\ template' = [template EXCEPT ![t] = tip + 1]
  /\ UNCHANGED tip

(* Faulty: the block of a stale template becomes the tip.                  *)
ExtendsAlways(t) == TRUE

Extends(t) == template[t] = tip + 1

(* ... and submit_block.  A template is stale when another block of its    *)
(* number was first; the node then may answer None.                        *)
Submit(t, some) ==
  /\ template[t] # 0
  /\ template' = [template EXCEPT ![t] = 0]
  /\ tip' = IF Extends(t) THEN template[t] ELSE tip
  /\ Extends(t) => some

GenerateTemplate ==
  /\ pc = "generate" \/ (pc = "mine" /\ left > 0)
  /\ pc' = "submit"
  /\ GetTemplate("main")
  /\ UNCHANGED <<left, accepted, paying>>

(* In mine mode the answer is ignored.                                     *)
GenerateSubmit ==
  /\ pc = "submit"
  /\ \E some \in BOOLEAN :
       /\ Submit("main", some)
       /\ accepted' = IF some THEN accepted + 1 ELSE accepted
       /\ IF mode = "mine"
          THEN left' = left - 1 /\ pc' = "mine" /\ UNCHANGED paying
          ELSE /\ pc' = "assemble"
               /\ paying' = IF template["main"] >= FirstReward THEN paying + 1
                                                               ELSE paying
               /\ UNCHANGED left

(* generate_blocks returns, and the process ends.                          *)
Generated ==
  /\ pc = "mine"
  /\ left = 0
  /\ pc' = "done"
  /\ UNCHANGED <<tip, template, left, accepted, paying>>

(* Faulty: off by one.                                                     *)
PaysLater(n) == n > FirstReward

Pays(n) == n >= FirstReward

(* Faulty: it waits for a template that pays, without mining.              *)
AskAgain == "assemble"

AndIfNot == "generate"

(* assert_block_assembler looks at a template, whose cellbase pays nobody  *)
(* in the first blocks of a chain: it mines them.                          *)
Assemble ==
  /\ pc = "assemble"
  /\ pc' = IF Pays(tip + 1)
           THEN IF matches THEN "started" ELSE "panicked"
           ELSE AndIfNot
  /\ UNCHANGED <<tip, template, left, accepted, paying>>

Main ==
  /\ GenerateTemplate \/ GenerateSubmit \/ Generated \/ Assemble
  /\ UNCHANGED <<mode, matches, start, foreign>>

(* The loop of spawn_miner.                                                *)
Background ==
  /\ pc = "started"
  /\ \/ tip < MaxHeight /\ GetTemplate("background")
     \/ \E some \in BOOLEAN : Submit("background", some)
  /\ UNCHANGED <<mode, matches, start, pc, left, accepted, paying, foreign>>

(* A stale block of another miner is refused, and does not count.          *)
Foreign ==
  /\ foreign < MaxForeign
  /\ \/ GetTemplate("foreign") /\ UNCHANGED foreign
     \/ /\ \E some \in BOOLEAN : Submit("foreign", some)
        /\ foreign' = IF Extends("foreign") THEN foreign + 1 ELSE foreign
  /\ UNCHANGED <<mode, matches, start, pc, left, accepted, paying>>

Next == Main \/ Background \/ Foreign

Spec == Init /\ [][Next]_vars

(* The main thread goes on, whatever the other miners do.                  *)
FairSpec == Spec /\ WF_vars(Main)

-----------------------------------------------------------------------------
(* The types of the variables.                                             *)
TypeOK ==
  /\ mode \in {"mine", "bench"}
  /\ matches \in BOOLEAN
  /\ start \in Starts
  /\ tip \in Nat /\ tip >= start
  /\ template \in [Thread -> 0..(tip + 1)]
  /\ pc \in {"mine", "submit", "done", "assemble", "generate", "started", "panicked"}
  /\ left \in 0..Blocks
  /\ accepted \in Nat
  /\ paying \in Nat
  /\ foreign \in 0..MaxForeign

(* In mine mode the chain grows by as many blocks as were asked for,       *)
(* although those that the node does not accept are not made up for: a     *)
(* block is only refused when another one has taken its place.             *)
GrowsByBlocks == pc = "done" => tip >= start + Blocks

(* When the rewards go to another account, bench mode looks at a template  *)
(* and then mines another one, so that it can mine a block that pays that  *)
(* account before it notices.  That is one block at most, and only when    *)
(* another miner's block came between the two: left alone, bench mode      *)
(* mines only blocks that pay nobody.                                      *)
NoticedEarly == mode = "bench" => paying <= 1 /\ paying <= foreign

(* Mine mode ends, and bench mode starts mining or stops with a panic: a   *)
(* block with an output is reached although blocks are refused.            *)
GetsGoing == <>(pc \in {"done", "started", "panicked"})

(* "mine subcommand will start a miner and generate block_amount blocks".  *)
GeneratesBlocks == pc = "done" => accepted = Blocks

=============================================================================
