---------------------------- MODULE MiningProofs ----------------------------
(***************************************************************************)
(* Mine mode lets the chain grow as much as it was asked to, and bench     *)
(* mode notices that the rewards go elsewhere, for every number of         *)
(* blocks and whatever the other miners do.                                *)
(***************************************************************************)
EXTENDS Mining, TLAPS

(* While main works on a template, its number counts: it will be, or is    *)
(* already, on the chain once main has submitted it.                       *)
Growing == mode = "mine" =>
  /\ pc \in {"mine", "submit", "done"}
  /\ tip >= start + (Blocks - left)
  /\ pc = "submit" => left > 0 /\ template["main"] > start + (Blocks - left)
  /\ pc = "done" => left = 0

(* What bench mode is to mine has an output only if another miner's block  *)
(* came after the look at the template; once such a block is submitted,    *)
(* the next look ends the loop.                                            *)
Early == mode = "bench" =>
  /\ pc \in {"assemble", "generate", "submit", "started", "panicked"}
  /\ paying <= 1 /\ paying <= foreign
  /\ pc = "assemble" /\ paying > 0 => tip >= FirstReward
  /\ pc \in {"generate", "submit"} => paying = 0
  /\ pc = "generate" /\ tip + 1 >= FirstReward => foreign > 0
  /\ pc = "submit" /\ template["main"] >= FirstReward => foreign > 0

Inv == TypeOK /\ Growing /\ Early

LEMMA InitInv == Init => Inv
<1> SUFFICES ASSUME Init
             PROVE  Inv
  OBVIOUS
<1>1. /\ Blocks \in Nat /\ FirstReward \in Nat \ {0} /\ MaxForeign \in Nat
      /\ start \in Nat /\ tip = start /\ foreign = 0 /\ left = Blocks /\ paying = 0
  BY MiningAssumption DEF Init, Rounds
<1>2. TypeOK
  BY <1>1 DEF Init, TypeOK, Thread
<1>3. Growing /\ Early
  BY <1>1 DEF Init, Growing, Early
<1>4. QED
  BY <1>2, <1>3 DEF Inv

(* What a template is worth, for each of the threads.                      *)
LEMMA GetTemplateFacts ==
  ASSUME TypeOK, NEW t \in Thread, GetTemplate(t)
  PROVE  /\ tip' = tip
         /\ template' \in [Thread -> 0..(tip + 1)]
         /\ template'[t] = tip + 1
         /\ \A u \in Thread \ {t} : template'[u] = template[u]
BY MiningAssumption DEF TypeOK, GetTemplate

LEMMA SubmitFacts ==
  ASSUME TypeOK, NEW t \in Thread, NEW some, Submit(t, some)
  PROVE  /\ tip' \in Nat /\ tip <= tip' /\ tip' <= tip + 1
         /\ template[t] <= tip'
         /\ template' \in [Thread -> 0..(tip' + 1)]
         /\ \A u \in Thread \ {t} : template'[u] = template[u]
<1>1. tip \in Nat /\ template \in [Thread -> 0..(tip + 1)]
  BY DEF TypeOK
<1>2. template[t] \in 0..(tip + 1)
  BY <1>1
<1>3. tip' \in Nat /\ tip <= tip' /\ tip' <= tip + 1 /\ template[t] <= tip'
  BY <1>1, <1>2 DEF Submit, Extends
<1>4. template' = [template EXCEPT ![t] = 0]
  BY DEF Submit
<1>5. \A u \in Thread : template[u] \in 0..(tip' + 1)
  BY <1>1, <1>3
<1>6. 0 \in 0..(tip' + 1)
  <2>1. \A n \in Nat : 0 \in 0..(n + 1)
    OBVIOUS
  <2>2. QED
    BY <1>3, <2>1
<1>7. template' \in [Thread -> 0..(tip' + 1)]
  BY <1>1, <1>4, <1>5, <1>6
<1>8. QED
  BY <1>1, <1>3, <1>4, <1>7

LEMMA NextInv == Inv /\ [Next]_vars => Inv'
<1> SUFFICES ASSUME Inv, [Next]_vars
             PROVE  Inv'
  OBVIOUS
<1> USE DEF Inv
<1>1. /\ Blocks \in Nat /\ FirstReward \in Nat \ {0} /\ MaxForeign \in Nat
      /\ Starts \subseteq Nat
      /\ start \in Nat /\ tip \in Nat /\ foreign \in Nat /\ left \in 0..Blocks
      /\ paying \in Nat
      /\ "main" \in Thread /\ "background" \in Thread /\ "foreign" \in Thread
      /\ "main" # "background" /\ "main" # "foreign"
  BY MiningAssumption DEF TypeOK, Thread
<1>2. CASE GenerateTemplate /\ UNCHANGED <<mode, matches, start, foreign>>
  <2>1. /\ pc = "generate" \/ (pc = "mine" /\ left > 0)
        /\ pc' = "submit" /\ left' = left /\ accepted' = accepted /\ paying' = paying
        /\ mode' = mode /\ matches' = matches /\ start' = start /\ foreign' = foreign
        /\ tip' = tip
        /\ template' \in [Thread -> 0..(tip + 1)]
        /\ template'["main"] = tip + 1
    BY <1>1, <1>2, GetTemplateFacts DEF GenerateTemplate
  <2>2. TypeOK'
    BY <2>1 DEF TypeOK
  <2>3. Growing'
    BY <1>1, <2>1 DEF Growing
  <2>4. Early'
    BY <1>1, <2>1 DEF Early
  <2>5. QED
    BY <2>2, <2>3, <2>4
<1>3. CASE GenerateSubmit /\ UNCHANGED <<mode, matches, start, foreign>>
  <2>1. PICK some \in BOOLEAN :
          /\ Submit("main", some)
          /\ accepted' = IF some THEN accepted + 1 ELSE accepted
          /\ IF mode = "mine"
             THEN left' = left - 1 /\ pc' = "mine" /\ UNCHANGED paying
             ELSE /\ pc' = "assemble"
                  /\ paying' = IF template["main"] >= FirstReward THEN paying + 1
                                                                  ELSE paying
                  /\ UNCHANGED left
    BY <1>3 DEF GenerateSubmit
  <2>2. /\ pc = "submit"
        /\ mode' = mode /\ matches' = matches /\ start' = start /\ foreign' = foreign
        /\ tip' \in Nat /\ tip <= tip' /\ tip' <= tip + 1
        /\ template["main"] <= tip'
        /\ template["main"] \in Nat
        /\ template' \in [Thread -> 0..(tip' + 1)]
    BY <1>1, <1>3, <2>1, SubmitFacts DEF GenerateSubmit, TypeOK
  <2>3. CASE mode = "mine"
    <3>1. /\ left' = left - 1 /\ pc' = "mine" /\ left > 0
          /\ paying' = paying
          /\ template["main"] > start + (Blocks - left)
      BY <2>1, <2>2, <2>3 DEF Growing
    <3>2. TypeOK'
      BY <1>1, <2>1, <2>2, <3>1 DEF TypeOK
    <3>3. Growing'
      BY <1>1, <2>2, <2>3, <3>1 DEF Growing
    <3>4. QED
      BY <2>2, <2>3, <3>2, <3>3 DEF Early
  <2>4. CASE mode # "mine"
    <3>1. /\ pc' = "assemble" /\ left' = left
          /\ paying' = IF template["main"] >= FirstReward THEN paying + 1 ELSE paying
      BY <2>1, <2>4
    <3>2. TypeOK'
      BY <1>1, <2>1, <2>2, <3>1 DEF TypeOK
    <3>3. Early'
      BY <1>1, <2>2, <3>1 DEF Early
    <3>4. QED
      BY <2>2, <2>4, <3>2, <3>3 DEF Growing
  <2>5. QED
    BY <2>3, <2>4
<1>4. CASE Generated /\ UNCHANGED <<mode, matches, start, foreign>>
  BY <1>1, <1>4 DEF Generated, TypeOK, Growing, Early
<1>5. CASE Assemble /\ UNCHANGED <<mode, matches, start, foreign>>
  <2>1. /\ pc = "assemble" /\ pc' \in {"started", "panicked", "generate"}
        /\ tip' = tip /\ template' = template /\ left' = left /\ accepted' = accepted /\ paying' = paying
        /\ mode' = mode /\ matches' = matches /\ start' = start /\ foreign' = foreign
        /\ pc' = "generate" => ~ (tip + 1 >= FirstReward)
    BY <1>5 DEF Assemble, Pays, AndIfNot
  <2>2. TypeOK'
    BY <2>1 DEF TypeOK
  <2>3. mode # "mine"
    BY <2>1 DEF Growing
  <2>4. Early'
    BY <1>1, <2>1 DEF Early
  <2>5. QED
    BY <2>1, <2>2, <2>3, <2>4 DEF Growing
<1>6. CASE Background
  <2>1. /\ pc = "started" /\ pc' = pc
        /\ left' = left /\ accepted' = accepted /\ paying' = paying
        /\ mode' = mode /\ matches' = matches /\ start' = start /\ foreign' = foreign
    BY <1>6 DEF Background
  <2>2. /\ tip' \in Nat /\ tip <= tip'
        /\ template' \in [Thread -> 0..(tip' + 1)]
    <3>1. CASE GetTemplate("background")
      BY <1>1, <3>1, GetTemplateFacts
    <3>2. CASE \E some \in BOOLEAN : Submit("background", some)
      BY <1>1, <3>2, SubmitFacts
    <3>3. QED
      BY <1>6, <3>1, <3>2 DEF Background
  <2>3. TypeOK'
    BY <1>1, <2>1, <2>2 DEF TypeOK
  <2>4. QED
    BY <2>1, <2>3 DEF Growing, Early
<1>7. CASE Foreign
  <2>1. /\ foreign < MaxForeign /\ pc' = pc
        /\ left' = left /\ accepted' = accepted /\ paying' = paying
        /\ mode' = mode /\ matches' = matches /\ start' = start
    BY <1>7 DEF Foreign
  <2>2. /\ tip' \in Nat /\ tip <= tip'
        /\ foreign' \in 0..MaxForeign /\ foreign' \in Nat
        /\ foreign <= foreign' /\ (tip' # tip => foreign' > 0)
        /\ template' \in [Thread -> 0..(tip' + 1)]
        /\ template'["main"] = template["main"]
    <3>1. CASE GetTemplate("foreign") /\ UNCHANGED foreign
      BY <1>1, <2>1, <3>1, GetTemplateFacts
    <3>2. CASE /\ \E some \in BOOLEAN : Submit("foreign", some)
               /\ foreign' = IF Extends("foreign") THEN foreign + 1 ELSE foreign
      <4>1. PICK some \in BOOLEAN : Submit("foreign", some)
        BY <3>2
      <4>2. /\ tip' \in Nat /\ tip <= tip'
            /\ template' \in [Thread -> 0..(tip' + 1)]
            /\ template'["main"] = template["main"]
        BY <1>1, <4>1, SubmitFacts
      <4>3. tip' # tip => Extends("foreign")
        BY <4>1 DEF Submit
      <4>4. MaxForeign \in Nat /\ foreign < MaxForeign
        BY <1>1, <2>1
      <4>5. /\ foreign' \in 0..MaxForeign /\ foreign' \in Nat
            /\ foreign <= foreign' /\ (tip' # tip => foreign' > 0)
        BY <1>1, <3>2, <4>3, <4>4
      <4>6. QED
        BY <4>2, <4>5
    <3>3. QED
      BY <1>7, <3>1, <3>2 DEF Foreign
  <2>3. TypeOK'
    BY <1>1, <2>1, <2>2 DEF TypeOK
  <2>4. Growing'
    BY <1>1, <2>1, <2>2 DEF Growing
  <2>5. Early'
    <3>1. /\ FirstReward \in Nat /\ tip \in Nat /\ foreign \in Nat /\ paying \in Nat
          /\ tip' \in Nat /\ foreign' \in Nat
      BY <1>1, <2>2
    <3>2. CASE tip' = tip
      BY <2>1, <2>2, <3>1, <3>2 DEF Early
    <3>3. CASE tip' # tip
      <4>1. foreign' > 0 /\ tip <= tip' /\ foreign <= foreign'
        BY <2>2, <3>3
      <4>2. PICK f, t \in Nat : f = foreign' /\ t = tip'
        BY <3>1
      <4>3. paying <= foreign => paying <= foreign'
        BY <3>1, <4>1, <4>2
      <4>4. tip >= FirstReward => tip' >= FirstReward
        BY <3>1, <4>1, <4>2
      <4>5. QED
        BY <2>1, <4>1, <4>3, <4>4 DEF Early
    <3>4. QED
      BY <3>2, <3>3
  <2>6. QED
    BY <2>3, <2>4, <2>5
<1>8. CASE UNCHANGED vars
  BY <1>8 DEF vars, TypeOK, Growing, Early
<1>9. QED
  BY <1>2, <1>3, <1>4, <1>5, <1>6, <1>7, <1>8 DEF Next, Main

(* The invariant holds in every state.                                     *)
THEOREM Invariance == Spec => []Inv
BY InitInv, NextInv, PTL DEF Spec

(* The variables keep their types; the tip of the node never goes back.    *)
THEOREM TypeCorrect == Spec => []TypeOK
<1>1. Inv => TypeOK
  BY DEF Inv
<1>2. QED
  BY <1>1, Invariance, PTL

(* Mine mode leaves a chain at least that many blocks longer, although it  *)
(* makes up for no block that is refused.                                  *)
THEOREM GrowsEnough == Spec => []GrowsByBlocks
<1>1. Inv => GrowsByBlocks
  <2> SUFFICES ASSUME Inv, pc = "done"
               PROVE  tip >= start + Blocks
    BY DEF GrowsByBlocks
  <2>1. CASE mode = "mine"
    BY <2>1, MiningAssumption DEF Inv, Growing, TypeOK
  <2>2. QED
    BY <2>1 DEF Inv, Early, TypeOK
<1>2. QED
  BY <1>1, Invariance, PTL

(* Bench mode submits at most one block that pays somebody before it has   *)
(* compared the accounts, and none unless another miner's block is on the  *)
(* chain.                                                                  *)
THEOREM MistakesAreNoticed == Spec => []NoticedEarly
<1>1. Inv => NoticedEarly
  BY DEF Inv, Early, NoticedEarly
<1>2. QED
  BY <1>1, Invariance, PTL

=============================================================================
