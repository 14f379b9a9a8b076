--------------------------- MODULE StartupProofs ----------------------------
(***************************************************************************)
(* The hand-over of the startup, for every chain that a run can find and   *)
(* every size of the constants.  The invariants come in layers, and each   *)
(* is inductive relative to those before it.                               *)
(*                                                                         *)
(*   Shape    the types; a transfer moves the reward of an earlier block,  *)
(*            and a template is for a block that was the next one.         *)
(*   Quiet    nothing is transferred before the transfer thread is         *)
(*            spawned: until then the blocks that are mined are empty.     *)
(*   Scanned  pull_until holds exactly the cells that are live up to the   *)
(*            block it has scanned.                                        *)
(*   Kept     what the main thread owes to the chain monitor stays in its  *)
(*            two sets until the hand-over, and in the channel or in the   *)
(*            list of the chain monitor after it (NothingLeftOut).         *)
(*   Counted  with histories that have settled: nothing was transferred    *)
(*            above the confirmed tip, so that what was scanned below it   *)
(*            is live at the tip (CountedIsLive).                          *)
(*   Unused   when no block is mined for the capacity of the miner, each   *)
(*            reward is once in the two sets, then once in the channel or  *)
(*            in the list, and not transferred (SpendsOnce).               *)
(***************************************************************************)
EXTENDS Startup, SequenceTheorems, FiniteSetTheorems, TLAPS

-----------------------------------------------------------------------------
(* Lists                                                                   *)

(* The cells of a hash map, in an order.                                   *)
LEMMA OrderProperties ==
  ASSUME NEW T, NEW S \in SUBSET T, IsFiniteSet(S), NEW s \in Orders(S)
  PROVE  s \in Seq(T) /\ Range(s) = S /\ IsInjective(s)
<1>1. /\ s \in [1..Cardinality(S) -> S]
      /\ IsInjective(s)
      /\ \A c \in S : \E i \in 1..Cardinality(S) : s[i] = c
  BY DEF Orders, Bijection, Injection, Surjection
<1>2. Cardinality(S) \in Nat
  BY FS_CardinalityType
<1>3. s \in Seq(T)
  BY <1>1, <1>2
<1>4. Range(s) = S
  BY <1>1 DEF Range
<1>5. QED
  BY <1>1, <1>3, <1>4

LEMMA RangeOfConcat ==
  ASSUME NEW S, NEW s \in Seq(S), NEW t \in Seq(S)
  PROVE  s \o t \in Seq(S) /\ Range(s \o t) = Range(s) \cup Range(t)
BY RangeConcatenation, ConcatProperties

(* A list that is cut in two.                                              *)
LEMMA CutInTwo ==
  ASSUME NEW S, NEW s \in Seq(S), NEW k \in 0..Len(s)
  PROVE  /\ SubSeq(s, 1, k) \in Seq(S) /\ SubSeq(s, k + 1, Len(s)) \in Seq(S)
         /\ Len(SubSeq(s, 1, k)) = k /\ Len(SubSeq(s, k + 1, Len(s))) = Len(s) - k
         /\ \A i \in 1..k : SubSeq(s, 1, k)[i] = s[i]
         /\ \A i \in 1..(Len(s) - k) : SubSeq(s, k + 1, Len(s))[i] = s[k + i]
         /\ Range(s) = Range(SubSeq(s, 1, k)) \cup Range(SubSeq(s, k + 1, Len(s)))
<1>1. Len(s) \in Nat /\ k \in Nat /\ k <= Len(s) /\ \A i \in 1..Len(s) : s[i] \in S
  BY ElementOfSeq
<1>2. PICK a : a = SubSeq(s, 1, k)
  OBVIOUS
<1>3. PICK b : b = SubSeq(s, k + 1, Len(s))
  OBVIOUS
<1>4. a \in Seq(S) /\ Len(a) = k /\ \A i \in 1..k : a[i] = s[i]
  <2>1. \A i \in 1..k : s[i] \in S
    BY <1>1
  <2>2. QED
    BY <1>1, <1>2, <2>1, SubSeqProperties
<1>5. b \in Seq(S) /\ Len(b) = Len(s) - k /\ \A i \in 1..(Len(s) - k) : b[i] = s[k + i]
  <2>1. \A i \in (k + 1)..Len(s) : s[i] \in S
    BY <1>1
  <2>2. /\ b \in Seq(S)
        /\ Len(b) = IF k + 1 <= Len(s) THEN Len(s) - (k + 1) + 1 ELSE 0
        /\ \A i \in 1..(Len(s) - (k + 1) + 1) : b[i] = s[(k + 1) + i - 1]
    BY <1>1, <1>3, <2>1, SubSeqProperties
  <2>3. Len(b) = Len(s) - k
    BY <1>1, <2>2
  <2>4. ASSUME NEW i \in 1..(Len(s) - k)
        PROVE  b[i] = s[k + i]
    <3>1. i \in 1..(Len(s) - (k + 1) + 1) /\ (k + 1) + i - 1 = k + i
      BY <1>1
    <3>2. QED
      BY <2>2, <3>1
  <2>5. QED
    BY <2>2, <2>3, <2>4
<1>6. Range(s) = Range(a) \cup Range(b)
  <2>1. DOMAIN s = 1..Len(s) /\ DOMAIN a = 1..k /\ DOMAIN b = 1..(Len(s) - k)
    BY <1>1, <1>4, <1>5
  <2>2. ASSUME NEW i \in 1..Len(s)
        PROVE  s[i] \in Range(a) \cup Range(b)
    <3>1. CASE i <= k
      BY <1>1, <1>4, <2>1, <3>1 DEF Range
    <3>2. CASE ~ (i <= k)
      <4>1. i - k \in 1..(Len(s) - k) /\ k + (i - k) = i
        BY <1>1, <3>2
      <4>2. b[i - k] = s[i]
        BY <1>5, <4>1
      <4>3. QED
        BY <2>1, <4>1, <4>2 DEF Range
    <3>3. QED
      BY <3>1, <3>2
  <2>3. ASSUME NEW i \in 1..k
        PROVE  a[i] \in Range(s)
    BY <1>1, <1>4, <2>1 DEF Range
  <2>4. ASSUME NEW i \in 1..(Len(s) - k)
        PROVE  b[i] \in Range(s)
    <3>1. k + i \in 1..Len(s)
      BY <1>1
    <3>2. QED
      BY <1>5, <2>1, <3>1 DEF Range
  <2>5. QED
    BY <2>1, <2>2, <2>3, <2>4 DEF Range
<1>7. QED
  BY <1>2, <1>3, <1>4, <1>5, <1>6

(* A list without repetition, cut in two, and put together from two.       *)
LEMMA CutInjective ==
  ASSUME NEW S, NEW s \in Seq(S), NEW k \in 0..Len(s), IsInjective(s)
  PROVE  /\ IsInjective(SubSeq(s, 1, k)) /\ IsInjective(SubSeq(s, k + 1, Len(s)))
         /\ Range(SubSeq(s, 1, k)) \cap Range(SubSeq(s, k + 1, Len(s))) = {}
<1>1. PICK a : a = SubSeq(s, 1, k)
  OBVIOUS
<1>2. PICK b : b = SubSeq(s, k + 1, Len(s))
  OBVIOUS
<1>3. /\ Len(s) \in Nat /\ k \in Nat /\ k <= Len(s)
      /\ DOMAIN s = 1..Len(s) /\ DOMAIN a = 1..k /\ DOMAIN b = 1..(Len(s) - k)
      /\ \A i \in 1..k : a[i] = s[i]
      /\ \A i \in 1..(Len(s) - k) : b[i] = s[k + i]
  <2>1. /\ a \in Seq(S) /\ b \in Seq(S) /\ Len(a) = k /\ Len(b) = Len(s) - k
        /\ \A i \in 1..k : a[i] = s[i]
        /\ \A i \in 1..(Len(s) - k) : b[i] = s[k + i]
    BY <1>1, <1>2, CutInTwo
  <2>2. Len(s) \in Nat /\ k \in Nat /\ k <= Len(s)
    OBVIOUS
  <2>3. QED
    BY <2>1, <2>2
<1>4. \A i, j \in 1..Len(s) : s[i] = s[j] => i = j
  BY <1>3 DEF IsInjective
<1>5. IsInjective(a)
  BY <1>3, <1>4 DEF IsInjective
<1>6. IsInjective(b)
  <2>1. ASSUME NEW i \in 1..(Len(s) - k), NEW j \in 1..(Len(s) - k), b[i] = b[j]
        PROVE  i = j
    <3>1. k + i \in 1..Len(s) /\ k + j \in 1..Len(s) /\ s[k + i] = s[k + j]
      BY <1>3, <2>1
    <3>2. k + i = k + j
      BY <1>4, <3>1
    <3>3. QED
      BY <1>3, <3>2
  <2>2. QED
    BY <1>3, <2>1 DEF IsInjective
<1>7. ASSUME NEW i \in 1..k, NEW j \in 1..(Len(s) - k), a[i] = b[j]
      PROVE  FALSE
  <2>1. k + j \in 1..Len(s) /\ i \in 1..Len(s) /\ s[i] = s[k + j] /\ i # k + j
    BY <1>3, <1>7
  <2>2. QED
    BY <1>4, <2>1
<1>8. Range(a) \cap Range(b) = {}
  BY <1>3, <1>7 DEF Range
<1>9. QED
  BY <1>1, <1>2, <1>5, <1>6, <1>8

LEMMA ConcatInjective ==
  ASSUME NEW S, NEW s \in Seq(S), NEW t \in Seq(S),
         IsInjective(s), IsInjective(t), Range(s) \cap Range(t) = {}
  PROVE  IsInjective(s \o t)
<1>1. PICK u : u = s \o t
  OBVIOUS
<1>2. PICK m, n \in Nat : m = Len(s) /\ n = Len(t)
  BY LenProperties
<1>3. /\ DOMAIN s = 1..m /\ DOMAIN t = 1..n /\ DOMAIN u = 1..(m + n)
      /\ \A i \in 1..(m + n) : u[i] = IF i <= m THEN s[i] ELSE t[i - m]
  BY <1>1, <1>2, ConcatProperties, LenProperties
<1>4. ASSUME NEW i \in 1..(m + n), NEW j \in 1..(m + n), u[i] = u[j]
      PROVE  i = j
  <2>1. CASE i <= m /\ j <= m
    BY <1>3, <1>4, <2>1 DEF IsInjective
  <2>2. CASE i > m /\ j > m
    <3>1. i - m \in 1..n /\ j - m \in 1..n /\ t[i - m] = t[j - m]
      BY <1>3, <1>4, <2>2
    <3>2. i - m = j - m
      BY <1>3, <3>1 DEF IsInjective
    <3>3. QED
      BY <3>2
  <2>3. CASE i <= m /\ j > m
    <3>1. i \in 1..m /\ j - m \in 1..n /\ s[i] = t[j - m]
      BY <1>3, <1>4, <2>3
    <3>2. QED
      BY <1>3, <3>1 DEF Range
  <2>4. CASE i > m /\ j <= m
    <3>1. j \in 1..m /\ i - m \in 1..n /\ s[j] = t[i - m]
      BY <1>3, <1>4, <2>4
    <3>2. QED
      BY <1>3, <3>1 DEF Range
  <2>5. QED
    BY <2>1, <2>2, <2>3, <2>4
<1>5. QED
  BY <1>1, <1>3, <1>4 DEF IsInjective

(* The head of a list without repetition is not in its tail.               *)
LEMMA TailOfInjective ==
  ASSUME NEW S, NEW s \in Seq(S), s # <<>>
  PROVE  /\ Head(s) \in S /\ Tail(s) \in Seq(S)
         /\ Range(s) = {Head(s)} \cup Range(Tail(s))
         /\ IsInjective(s) => IsInjective(Tail(s)) /\ Head(s) \notin Range(Tail(s))
<1>1. PICK n \in Nat : n = Len(s)
  BY LenProperties
<1>2. PICK t : t = Tail(s)
  OBVIOUS
<1>3. /\ n >= 1 /\ DOMAIN s = 1..n /\ t \in Seq(S) /\ DOMAIN t = 1..(n - 1)
      /\ \A i \in 1..(n - 1) : t[i] = s[i + 1]
      /\ Head(s) = s[1] /\ Head(s) \in S
  BY <1>1, <1>2, EmptySeq, HeadTailProperties, LenProperties
<1>4. Range(s) = {s[1]} \cup Range(t)
  <2>1. \A i \in 1..n : i = 1 \/ (i - 1 \in 1..(n - 1) /\ t[i - 1] = s[i])
    BY <1>3
  <2>2. \A i \in 1..(n - 1) : i + 1 \in 1..n /\ t[i] = s[i + 1]
    BY <1>3
  <2>3. Range(s) \subseteq {s[1]} \cup Range(t)
    BY <1>3, <2>1 DEF Range
  <2>4. Range(t) \subseteq Range(s)
    BY <1>3, <2>2 DEF Range
  <2>5. s[1] \in Range(s)
    <3>1. 1 \in DOMAIN s
      BY <1>3
    <3>2. QED
      BY <3>1 DEF Range
  <2>6. QED
    BY <2>3, <2>4, <2>5
<1>5. ASSUME IsInjective(s)
      PROVE  IsInjective(t) /\ s[1] \notin Range(t)
  <2>1. \A i, j \in 1..n : s[i] = s[j] => i = j
    BY <1>3, <1>5 DEF IsInjective
  <2>2. ASSUME NEW i \in 1..(n - 1), NEW j \in 1..(n - 1), t[i] = t[j]
        PROVE  i = j
    <3>1. i + 1 \in 1..n /\ j + 1 \in 1..n /\ s[i + 1] = s[j + 1]
      BY <1>3, <2>2
    <3>2. i + 1 = j + 1
      BY <2>1, <3>1
    <3>3. QED
      BY <3>2
  <2>3. ASSUME NEW i \in 1..(n - 1), t[i] = s[1]
        PROVE  FALSE
    <3>1. i + 1 \in 1..n /\ 1 \in 1..n /\ s[i + 1] = s[1] /\ i + 1 # 1
      BY <1>3, <2>3
    <3>2. QED
      BY <2>1, <3>1
  <2>4. QED
    BY <1>3, <2>2, <2>3 DEF IsInjective, Range
<1>6. QED
  BY <1>2, <1>3, <1>4, <1>5

-----------------------------------------------------------------------------
(* The invariants                                                          *)

(* MovedBy and LiveAt on any chain.                                        *)
MovedIn(ch, n) == UNION {ch[i] : i \in 1..n}

LiveIn(s, ch, a, n) ==
  IF a = "miner" THEN {Reward(m) : m \in (1..n) \ MovedIn(ch, n)}
  ELSE IF s THEN {Reward(m) : m \in (1..n) \ MovedIn(ch, n)}
                   \cup {Paid(m) : m \in MovedIn(ch, n)}
  ELSE {Paid(m) : m \in MovedIn(ch, n)}

(* A transfer moves the reward of an earlier block, and a template is for  *)
(* a block that was the next one.                                          *)
Shape ==
  /\ TypeOK
  /\ Len(chain) <= MaxHeight
  /\ \A n \in 1..Len(chain) : chain[n] \subseteq 1..(n - 1)
  /\ \A t \in Thread : template[t] # <<>> => template[t][1] <= Len(chain) + 1
  /\ pc = "until" => pulling <= header
  /\ pc = "submit" => template["main"] # <<>> /\ template["main"][1] > header
  /\ pc = "pull" => pulling > header
  /\ same => acct = "bencher"

(* Nothing is transferred before the transfer thread is spawned.           *)
Quiet ==
  /\ acct = "miner" \/ same => transfer = "off"
  /\ transfer = "off" => pool = {}
  /\ transfer = "off" =>
       \A t \in Thread : template[t] # <<>> => template[t][2] = {}

(* pull_until collects the live cells, and only mature ones as matured.    *)
Scanned ==
  /\ pc = "until" => utxoset \cup unmatureds = LiveIn(same, chain, acct, pulling)
  /\ \A c \in utxoset : c[1] = "reward" => Len(chain) > c[2] + Maturity

(* What the main thread owes to the chain monitor.                         *)
Due ==
  IF acct = "miner" THEN {Reward(m) : m \in (1..header) \ MovedIn(chain, Len(chain))}
  ELSE LiveIn(same, chain, "bencher", header)

(* The cells that the chain monitor of a has sent or keeps.                *)
Held(a) == Range(chan[a]) \cup Range(waiting[a])

(* No cell that is live is lost on its way to the channel.                 *)
Kept ==
  /\ pc \in {"ensure", "submit", "pull"} => Due \subseteq utxoset \cup unmatureds
  /\ same /\ pc = "submit" =>
       \A n \in 1..Len(chain) : n >= template["main"][1] => chain[n] = {}
  /\ same /\ pc = "pull" => chain[pulling] = {}
  /\ transfer = "on" =>
       \A m \in (1..at["miner"]) \ (MovedIn(chain, Len(chain)) \cup pool) :
         Reward(m) \in Held("miner")
  /\ pc = "done" => LiveIn(same, chain, "bencher", at["bencher"]) \subseteq Held("bencher")

(* An earlier run of the program has settled: no block that is not yet     *)
(* confirmed holds a transfer.  Without it the theorems that assume it     *)
(* are false: the main thread counts a cell spent above the confirmed tip. *)
SettledHistories ==
  \A h \in Histories : \A n \in 1..Len(h) : n + Confirmation > Len(h) => h[n] = {}

(* Nothing was transferred in the blocks that pull_until does not scan, so *)
(* that what it counts stays live.                                         *)
Counted ==
  /\ transfer = "off" =>
       \A n \in 1..Len(chain) : n + Confirmation > Len(chain) => chain[n] = {}
  /\ pc \notin {"scan", "done"} /\ (acct = "miner" \/ same) =>
       \A n \in 1..Len(chain) : n > header => chain[n] = {}
  /\ pc \in {"ensure", "submit", "pull"} =>
       utxoset \cup unmatureds \subseteq LiveIn(same, chain, acct, Len(chain))

(* The rewards that are moved, or that the node is to move.                *)
Gone == MovedIn(chain, Len(chain)) \cup pool

(* Two lists of rewards that are not gone, each once.                      *)
Once(c, w, n, gone) ==
  /\ IsInjective(c) /\ IsInjective(w)
  /\ Range(c) \cap Range(w) = {}
  /\ Range(c) \cup Range(w) \subseteq {Reward(m) : m \in (1..n) \ gone}
  /\ gone \subseteq 1..n

(* When no block is mined for the capacity of the miner, each reward is    *)
(* once in the hands of the chain monitor, and not transferred.            *)
Unused ==
  /\ \A t \in Thread : template[t] # <<>> => template[t][2] \subseteq Gone
  /\ acct = "miner" /\ pc = "until" => utxoset \cap unmatureds = {}
  /\ acct = "miner" /\ pc = "pull" => mined["miner"] > 0
  /\ acct = "miner" /\ mined["miner"] = 0 /\ pc \in {"ensure", "submit"} =>
       /\ utxoset \cap unmatureds = {}
       /\ utxoset \cup unmatureds \subseteq {Reward(m) : m \in 1..header}
  /\ transfer = "on" /\ mined["miner"] = 0 =>
       Once(chan["miner"], waiting["miner"], at["miner"], Gone)
  /\ SpendsOnce
-----------------------------------------------------------------------------
(* Chains                                                                  *)

IsChain(ch) ==
  ch \in Seq(SUBSET Nat) /\ \A n \in 1..Len(ch) : ch[n] \subseteq 1..(n - 1)

LEMMA MovedNext ==
  ASSUME NEW ch, NEW n \in Nat
  PROVE  MovedIn(ch, n + 1) = MovedIn(ch, n) \cup ch[n + 1]
<1>1. 1..(n + 1) = (1..n) \cup {n + 1}
  OBVIOUS
<1>2. ASSUME NEW m
      PROVE  (\E i \in 1..(n + 1) : m \in ch[i])
               <=> ((\E i \in 1..n : m \in ch[i]) \/ m \in ch[n + 1])
  BY <1>1
<1>3. QED
  BY <1>2 DEF MovedIn

(* The blocks up to n move the rewards of earlier blocks.                  *)
LEMMA MovedBefore ==
  ASSUME NEW ch, IsChain(ch), NEW n \in 0..Len(ch)
  PROVE  /\ MovedIn(ch, n) \subseteq 1..n
         /\ n + 1 \notin MovedIn(ch, n)
         /\ MovedIn(ch, n) \subseteq MovedIn(ch, Len(ch))
<1>1. Len(ch) \in Nat
  BY LenProperties DEF IsChain
<1>2. ASSUME NEW i \in 1..n
      PROVE  ch[i] \subseteq 1..n /\ n + 1 \notin ch[i] /\ i \in 1..Len(ch)
  <2>1. i \in 1..Len(ch)
    BY <1>1
  <2>2. ch[i] \subseteq 1..(i - 1)
    BY <2>1 DEF IsChain
  <2>3. QED
    BY <1>1, <2>1, <2>2
<1>3. QED
  BY <1>2 DEF MovedIn

(* It is the same on chains with the same blocks up to n.                  *)
LEMMA MovedSame ==
  ASSUME NEW ch, NEW dh, NEW n, \A i \in 1..n : ch[i] = dh[i]
  PROVE  MovedIn(ch, n) = MovedIn(dh, n)
BY DEF MovedIn

LEMMA NoneMoved ==
  ASSUME NEW ch, IsChain(ch), NEW n \in 0..Len(ch),
         \A i \in 1..Len(ch) : i > n => ch[i] = {}
  PROVE  MovedIn(ch, Len(ch)) = MovedIn(ch, n)
<1>1. Len(ch) \in Nat
  BY LenProperties DEF IsChain
<1>2. ASSUME NEW i \in 1..Len(ch), NEW m \in ch[i]
      PROVE  i \in 1..n
  BY <1>1, <1>2
<1>3. MovedIn(ch, Len(ch)) \subseteq MovedIn(ch, n)
  BY <1>2 DEF MovedIn
<1>4. QED
  BY <1>3, MovedBefore

LEMMA LiveZero ==
  ASSUME NEW ch, NEW s, NEW a
  PROVE  LiveIn(s, ch, a, 0) = {}
<1>1. 1..0 = {}
  OBVIOUS
<1>2. MovedIn(ch, 0) = {}
  BY <1>1 DEF MovedIn
<1>3. QED
  BY <1>1, <1>2 DEF LiveIn

(* One cell is a reward or a paid one.                                     *)
LEMMA CellsDiffer ==
  /\ \A m, n : Reward(m) # Paid(n)
  /\ \A m, n : (Reward(m) = Reward(n)) <=> (m = n)
  /\ \A m, n : (Paid(m) = Paid(n)) <=> (m = n)
  /\ \A m : NumberOf(Reward(m)) = m /\ NumberOf(Paid(m)) = m
  /\ \A m : Reward(m)[1] = "reward" /\ Paid(m)[1] = "paid"
BY DEF Reward, Paid, NumberOf

(* What get_owned_utxos makes of block n of a chain.                       *)
LEMMA LiveNext ==
  ASSUME NEW ch, IsChain(ch), NEW n \in Nat, n + 1 <= Len(ch), NEW s \in BOOLEAN,
         NEW a \in Account
  PROVE  LiveIn(s, ch, a, n + 1) =
           ((LiveIn(s, ch, a, n)
               \cup (IF a = "bencher" THEN {Paid(m) : m \in ch[n + 1]} ELSE {}))
               \cup (IF a = "miner" \/ s THEN {Reward(n + 1)} ELSE {}))
             \ {Reward(m) : m \in ch[n + 1]}
<1>1. MovedIn(ch, n + 1) = MovedIn(ch, n) \cup ch[n + 1]
  BY MovedNext
<1>2. n + 1 \notin MovedIn(ch, n) /\ n + 1 \notin ch[n + 1]
  <2>1. Len(ch) \in Nat
    BY LenProperties DEF IsChain
  <2>2. ch[n + 1] \subseteq 1..n
    <3>1. n + 1 \in 1..Len(ch)
      BY <2>1
    <3>2. QED
      BY <3>1 DEF IsChain
  <2>3. QED
    BY <2>1, <2>2, MovedBefore
<1>3. 1..(n + 1) = (1..n) \cup {n + 1}
  OBVIOUS
<1>4. (1..(n + 1)) \ MovedIn(ch, n + 1) =
        (((1..n) \ MovedIn(ch, n)) \cup {n + 1}) \ ch[n + 1]
  BY <1>1, <1>2, <1>3
<1>5. {Reward(m) : m \in (1..(n + 1)) \ MovedIn(ch, n + 1)} =
        ({Reward(m) : m \in (1..n) \ MovedIn(ch, n)} \cup {Reward(n + 1)})
          \ {Reward(m) : m \in ch[n + 1]}
  BY <1>4, CellsDiffer
<1>6. {Paid(m) : m \in MovedIn(ch, n + 1)} =
        {Paid(m) : m \in MovedIn(ch, n)} \cup {Paid(m) : m \in ch[n + 1]}
  BY <1>1
<1>7. PICK R, P, Q :
        /\ R = {Reward(m) : m \in (1..n) \ MovedIn(ch, n)}
        /\ P = {Paid(m) : m \in MovedIn(ch, n)}
        /\ Q = {Paid(m) : m \in ch[n + 1]}
  OBVIOUS
<1>8. PICK S : S = {Reward(m) : m \in ch[n + 1]}
  OBVIOUS
<1>9. /\ {Reward(m) : m \in (1..(n + 1)) \ MovedIn(ch, n + 1)} =
           (R \cup {Reward(n + 1)}) \ S
      /\ {Paid(m) : m \in MovedIn(ch, n + 1)} = P \cup Q
      /\ P \cap S = {} /\ Q \cap S = {} /\ Reward(n + 1) \notin S
  <2>1. P \cap S = {} /\ Q \cap S = {}
    BY <1>7, <1>8, CellsDiffer
  <2>2. Reward(n + 1) \notin S
    BY <1>2, <1>8, CellsDiffer
  <2>3. QED
    BY <1>5, <1>6, <1>7, <1>8, <2>1, <2>2
<1>10. LiveIn(s, ch, a, n + 1) =
         IF a = "miner" THEN (R \cup {Reward(n + 1)}) \ S
         ELSE IF s THEN ((R \cup {Reward(n + 1)}) \ S) \cup (P \cup Q) ELSE P \cup Q
  BY <1>9 DEF LiveIn
<1>11. LiveIn(s, ch, a, n) = IF a = "miner" THEN R ELSE IF s THEN R \cup P ELSE P
  BY <1>7 DEF LiveIn
<1>12. LiveIn(s, ch, a, n + 1) =
         ((LiveIn(s, ch, a, n) \cup (IF a = "bencher" THEN Q ELSE {}))
            \cup (IF a = "miner" \/ s THEN {Reward(n + 1)} ELSE {})) \ S
  <2>1. CASE a = "miner"
    BY <1>10, <1>11, <2>1
  <2>2. CASE a = "bencher" /\ s
    BY <1>9, <1>10, <1>11, <2>2
  <2>3. CASE a = "bencher" /\ ~ s
    BY <1>9, <1>10, <1>11, <2>3
  <2>4. QED
    BY <2>1, <2>2, <2>3 DEF Account
<1>13. QED
  BY <1>7, <1>8, <1>12

(* A block that moves nothing, and one more.                               *)
LEMMA LiveGrows ==
  ASSUME NEW ch, IsChain(ch), NEW n \in 0..Len(ch), NEW k \in 0..n, NEW s \in BOOLEAN,
         NEW a \in Account,
         (a = "bencher" /\ ~ s) \/ MovedIn(ch, n) = MovedIn(ch, k)
  PROVE  LiveIn(s, ch, a, k) \subseteq LiveIn(s, ch, a, n)
<1>1. MovedIn(ch, k) \subseteq MovedIn(ch, n) /\ 1..k \subseteq 1..n
  <2>1. Len(ch) \in Nat
    BY LenProperties DEF IsChain
  <2>2. 1..k \subseteq 1..n
    BY <2>1
  <2>3. QED
    BY <2>2 DEF MovedIn
<1>2. CASE a = "bencher" /\ ~ s
  BY <1>1, <1>2 DEF LiveIn
<1>3. CASE MovedIn(ch, n) = MovedIn(ch, k)
  BY <1>1, <1>3 DEF LiveIn
<1>4. QED
  BY <1>2, <1>3
-----------------------------------------------------------------------------
(* Types                                                                   *)

CellsTo(n) == {"reward", "paid"} \X (1..n)

(* The types of the variables on a chain of n blocks.                      *)
TypedTo(n) ==
  /\ pool \subseteq 1..n
  /\ template \in [Thread -> {<<>>} \cup ((1..MaxHeight) \X SUBSET (1..n))]
  /\ pulling \in 0..n
  /\ utxoset \subseteq CellsTo(n)
  /\ unmatureds \subseteq CellsTo(n)
  /\ header \in 0..n
  /\ at \in [Account -> 0..n]
  /\ waiting \in [Account -> Seq(CellsTo(n))]
  /\ chan \in [Account -> Seq(CellsTo(n))]

LEMMA TypedGrows ==
  ASSUME NEW m \in Nat, NEW n \in Nat, m <= n, TypedTo(m)
  PROVE  TypedTo(n)
<1>1. 1..m \subseteq 1..n /\ 0..m \subseteq 0..n
  OBVIOUS
<1>2. CellsTo(m) \subseteq CellsTo(n)
  BY <1>1 DEF CellsTo
<1>3. Seq(CellsTo(m)) \subseteq Seq(CellsTo(n))
  BY <1>2
<1>4. (1..MaxHeight) \X SUBSET (1..m) \subseteq (1..MaxHeight) \X SUBSET (1..n)
  BY <1>1
<1>5. template \in [Thread -> {<<>>} \cup ((1..MaxHeight) \X SUBSET (1..n))]
  BY <1>4 DEF TypedTo
<1>6. /\ waiting \in [Account -> Seq(CellsTo(n))]
      /\ chan \in [Account -> Seq(CellsTo(n))]
  BY <1>3 DEF TypedTo
<1>7. QED
  BY <1>1, <1>2, <1>5, <1>6 DEF TypedTo

LEMMA CellsToFinite ==
  ASSUME Shape
  PROVE  IsFiniteSet(CellsTo(Len(chain)))
<1>1. Len(chain) \in Nat
  BY LenProperties DEF Shape, TypeOK
<1>2. IsFiniteSet(1..Len(chain))
  BY <1>1, FS_Interval
<1>3. IsFiniteSet({"reward"})
  BY FS_Singleton
<1>4. {"reward"} \cup {"paid"} = {"reward", "paid"}
  OBVIOUS
<1>5. IsFiniteSet({"reward", "paid"})
  BY <1>3, <1>4, FS_AddElement
<1>6. QED
  BY <1>2, <1>5, FS_Product DEF CellsTo

LEMMA ShapeTyped ==
  ASSUME Shape
  PROVE  /\ Len(chain) \in Nat
         /\ TypedTo(Len(chain))
         /\ IsChain(chain)
         /\ DOMAIN chain = 1..Len(chain)
         /\ IsFiniteSet(utxoset) /\ IsFiniteSet(unmatureds)
         /\ Cells = CellsTo(Len(chain))
<1>1. chain \in Seq(SUBSET (1..MaxHeight))
  BY DEF Shape, TypeOK
<1>2. Len(chain) \in Nat /\ DOMAIN chain = 1..Len(chain)
  BY <1>1, LenProperties
<1>3. TypedTo(Len(chain))
  BY DEF Shape, TypeOK, TypedTo, Cells, CellsTo
<1>4. IsChain(chain)
  <2>1. MaxHeight \in Nat
    BY StartupAssumption
  <2>2. SUBSET (1..MaxHeight) \subseteq SUBSET Nat
    BY <2>1
  <2>3. chain \in Seq(SUBSET Nat)
    BY <1>1, <2>2
  <2>4. QED
    BY <2>3 DEF Shape, IsChain
<1>5. IsFiniteSet(CellsTo(Len(chain)))
  BY CellsToFinite
<1>6. IsFiniteSet(utxoset) /\ IsFiniteSet(unmatureds)
  BY <1>3, <1>5, FS_Subset DEF TypedTo
<1>7. QED
  BY <1>2, <1>3, <1>4, <1>6 DEF Cells, CellsTo

LEMMA Retyped ==
  ASSUME NEW S, NEW T, NEW s \in Seq(S), \A i \in 1..Len(s) : s[i] \in T
  PROVE  s \in Seq(T)
BY LenProperties, SeqDef

LEMMA InitShape ==
  ASSUME Init
  PROVE  Shape
<1>1. /\ chain \in Seq(SUBSET Nat) /\ Len(chain) <= MaxHeight
      /\ \A n \in 1..Len(chain) : chain[n] \subseteq 1..(n - 1)
      /\ MaxHeight \in Nat
  BY StartupAssumption DEF Init
<1>2. Len(chain) \in Nat
  BY <1>1, LenProperties
<1>3. chain \in Seq(SUBSET (1..MaxHeight))
  <2>1. ASSUME NEW n \in 1..Len(chain)
        PROVE  chain[n] \in SUBSET (1..MaxHeight)
    <3>1. chain[n] \subseteq 1..(n - 1) /\ 1..(n - 1) \subseteq 1..MaxHeight
      BY <1>1, <1>2
    <3>2. QED
      BY <3>1
  <2>2. QED
    BY <1>1, <1>2, <2>1, Retyped
<1>4. TypedTo(Len(chain))
  <2>1. /\ waiting \in [Account -> Seq(CellsTo(Len(chain)))]
        /\ chan \in [Account -> Seq(CellsTo(Len(chain)))]
    BY DEF Init
  <2>2. template \in [Thread -> {<<>>} \cup ((1..MaxHeight) \X SUBSET (1..Len(chain)))]
    BY DEF Init
  <2>3. QED
    BY <1>2, <2>1, <2>2 DEF Init, TypedTo
<1>5. TypeOK
  BY <1>3, <1>4 DEF Init, TypeOK, TypedTo, Cells, CellsTo, Account
<1>6. QED
  BY <1>1, <1>5 DEF Init, Shape

(* One more block.                                                         *)
LEMMA Lengthened ==
  ASSUME Shape, NEW B \in SUBSET (1..Len(chain)), NEW ch, ch = Append(chain, B)
  PROVE  /\ ch \in Seq(SUBSET (1..MaxHeight)) /\ Len(ch) = Len(chain) + 1
         /\ \A n \in 1..Len(chain) : ch[n] = chain[n]
         /\ ch[Len(chain) + 1] = B
         /\ \A n \in 1..Len(ch) : ch[n] \subseteq 1..(n - 1)
<1>1. chain \in Seq(SUBSET (1..MaxHeight)) /\ Len(chain) \in Nat /\ MaxHeight \in Nat
      /\ Len(chain) <= MaxHeight
  BY ShapeTyped, StartupAssumption DEF Shape, TypeOK
<1>2. B \in SUBSET (1..MaxHeight)
  BY <1>1
<1>3. /\ ch \in Seq(SUBSET (1..MaxHeight)) /\ Len(ch) = Len(chain) + 1
      /\ \A n \in 1..Len(chain) : ch[n] = chain[n]
      /\ ch[Len(chain) + 1] = B
  BY <1>1, <1>2, AppendProperties
<1>4. ASSUME NEW n \in 1..Len(ch)
      PROVE  ch[n] \subseteq 1..(n - 1)
  <2>1. CASE n \in 1..Len(chain)
    BY <1>3, <2>1 DEF Shape
  <2>2. CASE n = Len(chain) + 1
    <3>1. n - 1 = Len(chain) /\ ch[n] = B
      BY <1>1, <1>3, <2>2
    <3>2. QED
      BY <3>1
  <2>3. Len(ch) = Len(chain) + 1 /\ n \in 1..Len(ch)
    BY <1>3
  <2>4. n \in 1..Len(chain) \/ n = Len(chain) + 1
    BY <1>1, <2>3
  <2>5. QED
    BY <2>1, <2>2, <2>4
<1>5. QED
  BY <1>3, <1>4

(* submit_block adds the block, or comes too late.                         *)
LEMMA Submitted ==
  ASSUME Shape, NEW t \in Thread, NEW accepted \in BOOLEAN, Submit(t, accepted)
  PROVE  /\ template[t][1] \in 1..(Len(chain) + 1)
         /\ template[t][2] \in SUBSET (1..Len(chain))
         /\ \/ /\ chain' = chain /\ pool' = pool
               /\ template[t][1] <= Len(chain)
            \/ /\ accepted /\ template[t][1] = Len(chain) + 1
               /\ chain' = Append(chain, template[t][2])
               /\ pool' = pool \ template[t][2]
               /\ Len(chain) + 1 <= MaxHeight
<1>1. /\ Len(chain) \in Nat /\ MaxHeight \in Nat
      /\ template \in [Thread -> {<<>>} \cup ((1..MaxHeight) \X SUBSET (1..Len(chain)))]
  BY ShapeTyped, StartupAssumption DEF TypedTo
<1>2. template[t] # <<>>
  BY DEF Submit
<1>3. template[t] \in (1..MaxHeight) \X SUBSET (1..Len(chain))
  BY <1>1, <1>2
<1>4. /\ template[t][1] \in 1..MaxHeight
      /\ template[t][2] \in SUBSET (1..Len(chain))
  BY <1>3
<1>5. template[t][1] <= Len(chain) + 1
  BY <1>2 DEF Shape
<1>6. template[t][1] \in 1..(Len(chain) + 1)
  BY <1>1, <1>4, <1>5
<1>7. CASE template[t][1] = Len(chain) + 1
  BY <1>1, <1>4, <1>6, <1>7 DEF Submit
<1>8. CASE template[t][1] # Len(chain) + 1
  BY <1>1, <1>4, <1>6, <1>8 DEF Submit, nodeVars
<1>9. QED
  BY <1>7, <1>8

(* What submit_block leaves.                                               *)
LEMMA SubmittedTyped ==
  ASSUME Shape, NEW t \in Thread, NEW accepted \in BOOLEAN, Submit(t, accepted)
  PROVE  /\ chain' \in Seq(SUBSET (1..MaxHeight))
         /\ Len(chain') \in Nat /\ Len(chain) <= Len(chain') /\ Len(chain') <= MaxHeight
         /\ \A n \in 1..Len(chain') : chain'[n] \subseteq 1..(n - 1)
         /\ \A n \in 1..Len(chain) : chain'[n] = chain[n]
         /\ template[t][1] \in 1..Len(chain')
         /\ pool' \subseteq 1..Len(chain')
         /\ template' \in
              [Thread -> {<<>>} \cup ((1..MaxHeight) \X SUBSET (1..Len(chain')))]
         /\ \A u \in Thread : template'[u] # <<>> =>
              /\ u # t /\ template[u] # <<>> /\ template'[u] = template[u]
              /\ template'[u][1] <= Len(chain') + 1
         /\ TypedTo(Len(chain'))
<1>1. /\ Len(chain) \in Nat /\ TypedTo(Len(chain))
      /\ chain \in Seq(SUBSET (1..MaxHeight)) /\ Len(chain) <= MaxHeight
      /\ \A n \in 1..Len(chain) : chain[n] \subseteq 1..(n - 1)
      /\ MaxHeight \in Nat
  BY ShapeTyped, StartupAssumption DEF Shape, TypeOK
<1>2. PICK ch, p : ch = chain' /\ p = pool'
  OBVIOUS
<1>3. /\ ch \in Seq(SUBSET (1..MaxHeight)) /\ Len(ch) \in Nat /\ Len(chain) <= Len(ch)
      /\ Len(ch) <= MaxHeight
      /\ \A n \in 1..Len(ch) : ch[n] \subseteq 1..(n - 1)
      /\ \A n \in 1..Len(chain) : ch[n] = chain[n]
      /\ template[t][1] \in 1..Len(ch)
      /\ p \subseteq pool
  <2>1. /\ template[t][1] \in 1..(Len(chain) + 1)
        /\ template[t][2] \in SUBSET (1..Len(chain))
        /\ \/ ch = chain /\ p = pool /\ template[t][1] <= Len(chain)
           \/ /\ template[t][1] = Len(chain) + 1
              /\ ch = Append(chain, template[t][2])
              /\ p = pool \ template[t][2]
              /\ Len(chain) + 1 <= MaxHeight
    BY <1>2, Submitted
  <2>2. CASE ch = chain /\ p = pool /\ template[t][1] <= Len(chain)
    BY <1>1, <2>1, <2>2
  <2>3. CASE /\ template[t][1] = Len(chain) + 1
             /\ ch = Append(chain, template[t][2])
             /\ p = pool \ template[t][2]
             /\ Len(chain) + 1 <= MaxHeight
    <3>1. /\ ch \in Seq(SUBSET (1..MaxHeight)) /\ Len(ch) = Len(chain) + 1
          /\ \A n \in 1..Len(chain) : ch[n] = chain[n]
          /\ \A n \in 1..Len(ch) : ch[n] \subseteq 1..(n - 1)
      <4>1. PICK B \in SUBSET (1..Len(chain)) : B = template[t][2]
        BY <2>1
      <4>2. ch = Append(chain, B)
        BY <2>3, <4>1
      <4>3. QED
        BY <4>2, Lengthened
    <3>2. Len(ch) \in Nat /\ Len(chain) <= Len(ch) /\ Len(ch) <= MaxHeight
          /\ template[t][1] \in 1..Len(ch)
      BY <1>1, <2>1, <2>3, <3>1
    <3>3. p \subseteq pool
      BY <2>3
    <3>4. QED
      BY <3>1, <3>2, <3>3
  <2>4. QED
    BY <2>1, <2>2, <2>3
<1>4. TypedTo(Len(ch))
  BY <1>1, <1>3, TypedGrows
<1>5. template' = [template EXCEPT ![t] = <<>>]
  BY DEF Submit
<1>6. template' \in [Thread -> {<<>>} \cup ((1..MaxHeight) \X SUBSET (1..Len(ch)))]
  BY <1>4, <1>5 DEF TypedTo
<1>7. ASSUME NEW u \in Thread, template'[u] # <<>>
      PROVE  /\ u # t /\ template[u] # <<>> /\ template'[u] = template[u]
             /\ template'[u][1] <= Len(ch) + 1
  <2>1. u # t /\ template'[u] = template[u]
    BY <1>4, <1>5, <1>7 DEF TypedTo
  <2>2. template[u][1] <= Len(chain) + 1 /\ template[u] # <<>>
    BY <1>7, <2>1 DEF Shape
  <2>3. template[u] \in (1..MaxHeight) \X SUBSET (1..Len(chain))
    BY <1>1, <2>2 DEF TypedTo
  <2>4. template[u][1] \in Nat
    BY <1>1, <2>3
  <2>5. QED
    BY <1>1, <1>3, <2>1, <2>2, <2>4
<1>8. p \subseteq 1..Len(ch)
  BY <1>3, <1>4 DEF TypedTo
<1>9. QED
  BY <1>2, <1>3, <1>4, <1>6, <1>7, <1>8

LEMMA CellsOfBlock ==
  ASSUME Shape, NEW a \in Account, NEW n \in 1..Len(chain)
  PROVE  /\ MaturedIn(a, n) \subseteq CellsTo(Len(chain))
         /\ UnmaturedIn(a, n) \subseteq CellsTo(Len(chain))
         /\ IsFiniteSet(MaturedIn(a, n)) /\ IsFiniteSet(UnmaturedIn(a, n))
<1>1. Len(chain) \in Nat /\ IsChain(chain)
  BY ShapeTyped
<1>2. chain[n] \subseteq 1..(n - 1)
  BY <1>1 DEF IsChain
<1>3. chain[n] \subseteq 1..Len(chain)
  BY <1>1, <1>2
<1>4. MaturedIn(a, n) \subseteq CellsTo(Len(chain))
  BY <1>3 DEF MaturedIn, Paid, CellsTo
<1>5. UnmaturedIn(a, n) \subseteq CellsTo(Len(chain))
  BY <1>1 DEF UnmaturedIn, Reward, CellsTo
<1>6. IsFiniteSet(CellsTo(Len(chain)))
  BY CellsToFinite
<1>7. QED
  BY <1>4, <1>5, <1>6, FS_Subset

(* How many of the list are sent: the first k.                             *)
LEMMA ReadyCount ==
  ASSUME NEW S, NEW s \in Seq(S), NEW R \in SUBSET DOMAIN s
  PROVE  Cardinality(R) \in 0..Len(s)
<1>1. Len(s) \in Nat /\ DOMAIN s = 1..Len(s)
  BY LenProperties
<1>2. IsFiniteSet(1..Len(s)) /\ Cardinality(1..Len(s)) = Len(s)
  <2>1. /\ IsFiniteSet(1..Len(s))
        /\ Cardinality(1..Len(s)) = IF 1 > Len(s) THEN 0 ELSE Len(s) - 1 + 1
    BY <1>1, FS_Interval
  <2>2. QED
    BY <1>1, <2>1
<1>3. IsFiniteSet(R) /\ Cardinality(R) <= Len(s)
  BY <1>1, <1>2, FS_Subset
<1>4. QED
  BY <1>1, <1>3, FS_CardinalityType

(* A turn of pull_forever, without the arithmetic of the list.             *)
LEMMA Followed ==
  ASSUME Shape, NEW a \in Account, Follow(a)
  PROVE  \E n \in 1..Len(chain), k \in 0..Len(waiting[a]) :
           \E s \in Orders(MaturedIn(a, n)), u \in Orders(UnmaturedIn(a, n)) :
             /\ n = at[a] + 1
             /\ at' = [at EXCEPT ![a] = n]
             /\ chan' = [chan EXCEPT ![a] = (chan[a] \o s) \o SubSeq(waiting[a], 1, k)]
             /\ waiting' =
                  [waiting EXCEPT ![a] = SubSeq(waiting[a], k + 1, Len(waiting[a])) \o u]
<1>1. PICK n : n = at[a] + 1
  OBVIOUS
<1>2. PICK R : R = {i \in DOMAIN waiting[a] :
                      \A j \in 1..i : IsMatured(n, NumberOf(waiting[a][j]))}
  OBVIOUS
<1>3. PICK k : k = Cardinality(R)
  OBVIOUS
<1>4. /\ n <= Len(chain)
      /\ at' = [at EXCEPT ![a] = n]
      /\ \E s \in Orders(MaturedIn(a, n)) :
           chan' = [chan EXCEPT ![a] = (chan[a] \o s) \o SubSeq(waiting[a], 1, k)]
      /\ \E u \in Orders(UnmaturedIn(a, n)) :
           waiting' =
             [waiting EXCEPT ![a] = SubSeq(waiting[a], k + 1, Len(waiting[a])) \o u]
  <2>1. TypedTo(Len(chain))
    BY ShapeTyped
  <2>2. chan \in [Account -> Seq(CellsTo(Len(chain)))]
    BY <2>1 DEF TypedTo
  <2>3. QED
    BY <1>1, <1>2, <1>3, <2>2 DEF Follow
<1>5. n \in 1..Len(chain)
  <2>1. Len(chain) \in Nat /\ at \in [Account -> 0..Len(chain)]
    BY ShapeTyped DEF TypedTo
  <2>2. QED
    BY <1>1, <1>4, <2>1
<1>6. k \in 0..Len(waiting[a])
  <2>1. waiting[a] \in Seq(CellsTo(Len(chain)))
    BY ShapeTyped DEF TypedTo
  <2>2. R \in SUBSET DOMAIN waiting[a]
    BY <1>2
  <2>3. QED
    BY <1>3, <2>1, <2>2, ReadyCount
<1>7. PICK s \in Orders(MaturedIn(a, n)) :
        chan' = [chan EXCEPT ![a] = (chan[a] \o s) \o SubSeq(waiting[a], 1, k)]
  BY <1>4
<1>8. PICK u \in Orders(UnmaturedIn(a, n)) :
        waiting' = [waiting EXCEPT ![a] = SubSeq(waiting[a], k + 1, Len(waiting[a])) \o u]
  BY <1>4
<1>9. /\ n = at[a] + 1
      /\ at' = [at EXCEPT ![a] = n]
      /\ chan' = [chan EXCEPT ![a] = (chan[a] \o s) \o SubSeq(waiting[a], 1, k)]
      /\ waiting' =
           [waiting EXCEPT ![a] = SubSeq(waiting[a], k + 1, Len(waiting[a])) \o u]
  BY <1>1, <1>4, <1>7, <1>8
<1>10. QED
  BY <1>5, <1>6, <1>9

LEMMA ConfirmedShape ==
  ASSUME Shape, Confirmed, UNCHANGED same
  PROVE  Shape'
<1>1. Len(chain) \in Nat /\ Confirmation \in Nat
  BY ShapeTyped, StartupAssumption
<1>2. /\ header' \in 0..Len(chain) /\ pulling' = 0 /\ utxoset' = {} /\ unmatureds' = {}
      /\ pc' = "until"
  BY <1>1 DEF Confirmed, ConfirmedNumber
<1>3. /\ chain' = chain /\ pool' = pool /\ template' = template /\ acct' = acct
      /\ mined' = mined /\ at' = at /\ waiting' = waiting /\ chan' = chan
      /\ transfer' = transfer /\ same' = same
  BY DEF Confirmed, nodeVars, monitorVars
<1>4. Cells' = Cells
  BY <1>3 DEF Cells
<1>5. TypeOK'
  BY <1>1, <1>2, <1>3, <1>4 DEF Shape, TypeOK
<1>6. QED
  BY <1>2, <1>3, <1>5 DEF Shape

LEMMA PullUntilShape ==
  ASSUME Shape, PullUntil, UNCHANGED same
  PROVE  Shape'
<1>1. /\ Len(chain) \in Nat /\ TypedTo(Len(chain)) /\ Cells = CellsTo(Len(chain))
      /\ pulling \in 0..Len(chain) /\ header \in 0..Len(chain) /\ acct \in Account
  BY ShapeTyped DEF TypedTo, Shape, TypeOK
<1>2. /\ chain' = chain /\ pool' = pool /\ template' = template /\ acct' = acct
      /\ header' = header /\ mined' = mined /\ at' = at /\ waiting' = waiting
      /\ chan' = chan /\ transfer' = transfer /\ same' = same
  BY DEF PullUntil, nodeVars, monitorVars
<1>3. /\ pulling' \in 0..Len(chain) /\ utxoset' \subseteq Cells
      /\ unmatureds' \subseteq Cells
      /\ \/ pc' = "until" /\ pulling' <= header
         \/ pc' = "ensure"
  <2>1. CASE pulling < header
    <3>1. /\ Scan(pulling + 1) /\ pulling' = pulling + 1 /\ pc' = "until"
      BY <2>1 DEF PullUntil
    <3>2. pulling + 1 \in 1..Len(chain)
      BY <1>1, <2>1
    <3>3. /\ MaturedIn(acct, pulling + 1) \subseteq Cells
          /\ UnmaturedIn(acct, pulling + 1) \subseteq Cells
      BY <1>1, <3>2, CellsOfBlock
    <3>4. utxoset' \subseteq Cells /\ unmatureds' \subseteq Cells
      BY <1>1, <3>1, <3>3 DEF Scan, TypedTo
    <3>5. QED
      BY <1>1, <2>1, <3>1, <3>4
  <2>2. CASE ~ (pulling < header)
    BY <1>1, <2>2 DEF PullUntil, TypedTo
  <2>3. QED
    BY <2>1, <2>2
<1>4. Cells' = Cells
  BY <1>2 DEF Cells
<1>5. TypeOK'
  BY <1>2, <1>3, <1>4 DEF Shape, TypeOK
<1>6. QED
  BY <1>2, <1>3, <1>5 DEF Shape

(* get_block_template.                                                     *)
LEMMA TemplateTyped ==
  ASSUME Shape, NEW t \in Thread, GetTemplate(t)
  PROVE  /\ template[t] = <<>>
         /\ template'[t] # <<>> /\ template'[t][1] = Len(chain) + 1
         /\ template'[t][2] = pool
         /\ template' \in
              [Thread -> {<<>>} \cup ((1..MaxHeight) \X SUBSET (1..Len(chain)))]
         /\ \A u \in Thread : u # t => template'[u] = template[u]
<1>1. /\ Len(chain) \in Nat /\ TypedTo(Len(chain)) /\ MaxHeight \in Nat
      /\ template \in [Thread -> {<<>>} \cup ((1..MaxHeight) \X SUBSET (1..Len(chain)))]
      /\ pool \in SUBSET (1..Len(chain))
  BY ShapeTyped, StartupAssumption DEF TypedTo
<1>2. /\ template[t] = <<>> /\ Len(chain) + 1 \in 1..MaxHeight
      /\ template' = [template EXCEPT ![t] = <<Len(chain) + 1, pool>>]
  BY <1>1 DEF GetTemplate
<1>3. <<Len(chain) + 1, pool>> \in (1..MaxHeight) \X SUBSET (1..Len(chain))
  BY <1>1, <1>2
<1>4. <<Len(chain) + 1, pool>> # <<>>
  OBVIOUS
<1>5. template'[t] = <<Len(chain) + 1, pool>>
  BY <1>1, <1>2
<1>6. QED
  BY <1>1, <1>2, <1>3, <1>4, <1>5

LEMMA EnsureTemplateShape ==
  ASSUME Shape, EnsureTemplate, UNCHANGED same
  PROVE  Shape'
<1>1. /\ template["main"] = <<>>
      /\ template'["main"] # <<>> /\ template'["main"][1] = Len(chain) + 1
      /\ template' \in
           [Thread -> {<<>>} \cup ((1..MaxHeight) \X SUBSET (1..Len(chain)))]
      /\ \A u \in Thread : u # "main" => template'[u] = template[u]
  BY TemplateTyped DEF EnsureTemplate, Thread
<1>2. /\ chain' = chain /\ pool' = pool /\ pulling' = pulling /\ acct' = acct
      /\ utxoset' = utxoset /\ unmatureds' = unmatureds /\ header' = header
      /\ mined' = mined /\ at' = at /\ waiting' = waiting
      /\ chan' = chan /\ transfer' = transfer /\ same' = same /\ pc' = "submit"
  BY DEF EnsureTemplate, nodeVars, scanVars, monitorVars
<1>3. Cells' = Cells
  BY <1>2 DEF Cells
<1>4. TypeOK'
  BY <1>1, <1>2, <1>3 DEF Shape, TypeOK
<1>5. ASSUME NEW u \in Thread, template'[u] # <<>>
      PROVE  template'[u][1] <= Len(chain) + 1
  <2>1. CASE u = "main"
    BY <1>1, <2>1, ShapeTyped
  <2>2. CASE u # "main"
    BY <1>1, <1>5, <2>2 DEF Shape
  <2>3. QED
    BY <2>1, <2>2
<1>6. template'["main"][1] > header
  <2>1. Len(chain) \in Nat /\ header \in 0..Len(chain)
    BY ShapeTyped DEF TypedTo
  <2>2. QED
    BY <1>1, <2>1
<1>7. QED
  BY <1>1, <1>2, <1>4, <1>5, <1>6 DEF Shape

(* What the submission of a block leaves as it is.                         *)
LEMMA GrownTyped ==
  ASSUME Shape, NEW t \in Thread, NEW accepted \in BOOLEAN, Submit(t, accepted)
  PROVE  /\ Len(chain') \in Nat /\ Len(chain) <= Len(chain')
         /\ chain' \in Seq(SUBSET (1..MaxHeight))
         /\ pool' \subseteq 1..Len(chain')
         /\ template' \in
              [Thread -> {<<>>} \cup ((1..MaxHeight) \X SUBSET (1..Len(chain')))]
         /\ pulling \in 0..Len(chain')
         /\ utxoset \subseteq Cells' /\ unmatureds \subseteq Cells'
         /\ header \in 0..Len(chain')
         /\ at \in [Account -> 0..Len(chain')]
         /\ waiting \in [Account -> Seq(Cells')]
         /\ chan \in [Account -> Seq(Cells')]
<1>1. TypedTo(Len(chain'))
  BY SubmittedTyped
<1>2. Cells' = CellsTo(Len(chain'))
  BY DEF Cells, CellsTo
<1>3. QED
  BY <1>1, <1>2, SubmittedTyped DEF TypedTo

LEMMA EnsureSubmitShape ==
  ASSUME Shape, EnsureSubmit, UNCHANGED same
  PROVE  Shape'
<1>1. PICK accepted \in BOOLEAN :
        /\ Submit("main", accepted)
        /\ IF accepted
           THEN /\ pulling' = template["main"][1]
                /\ mined' = [mined EXCEPT ![acct] = @ + 1]
                /\ pc' = "pull"
           ELSE pc' = "ensure" /\ UNCHANGED <<pulling, mined>>
  BY DEF EnsureSubmit
<1>2. "main" \in Thread
  BY DEF Thread
<1>3. /\ acct' = acct /\ utxoset' = utxoset /\ unmatureds' = unmatureds /\ header' = header
      /\ at' = at /\ waiting' = waiting
      /\ chan' = chan /\ transfer' = transfer /\ same' = same
  BY DEF EnsureSubmit, scanVars, monitorVars
<1>4. /\ template["main"][1] \in 1..Len(chain')
      /\ Len(chain') <= MaxHeight
      /\ \A n \in 1..Len(chain') : chain'[n] \subseteq 1..(n - 1)
      /\ \A u \in Thread : template'[u] # <<>> => template'[u][1] <= Len(chain') + 1
      /\ template["main"][1] > header
  BY <1>1, <1>2, SubmittedTyped DEF EnsureSubmit, Shape
<1>5. pulling' \in 0..Len(chain') /\ mined' \in [Account -> Nat] /\ pc' \in {"pull", "ensure"}
      /\ (pc' = "pull" => pulling' > header)
  <2>1. pulling \in 0..Len(chain') /\ Len(chain') \in Nat
    BY <1>1, <1>2, GrownTyped
  <2>2. mined \in [Account -> Nat] /\ acct \in Account
    BY DEF Shape, TypeOK
  <2>3. CASE accepted
    <3>1. pulling' = template["main"][1] /\ pc' = "pull"
      BY <1>1, <2>3
    <3>2. mined' \in [Account -> Nat]
      BY <1>1, <2>2, <2>3
    <3>3. template["main"][1] \in 0..Len(chain')
      BY <1>4, <2>1
    <3>4. QED
      BY <1>4, <3>1, <3>2, <3>3
  <2>4. CASE ~ accepted
    BY <1>1, <2>1, <2>2, <2>4
  <2>5. QED
    BY <2>3, <2>4
<1>6. TypeOK'
  <2>1. /\ chain' \in Seq(SUBSET (1..MaxHeight))
        /\ pool' \subseteq 1..Len(chain')
        /\ template' \in
             [Thread -> {<<>>} \cup ((1..MaxHeight) \X SUBSET (1..Len(chain')))]
    BY <1>1, <1>2, GrownTyped
  <2>2. /\ utxoset \subseteq Cells' /\ unmatureds \subseteq Cells'
        /\ header \in 0..Len(chain')
        /\ at \in [Account -> 0..Len(chain')]
        /\ waiting \in [Account -> Seq(Cells')]
        /\ chan \in [Account -> Seq(Cells')]
    BY <1>1, <1>2, GrownTyped
  <2>3. /\ same' \in BOOLEAN /\ acct' \in Account /\ transfer' \in {"off", "on", "spent", "full"}
    BY <1>3 DEF Shape, TypeOK
  <2>4. QED
    BY <1>3, <1>5, <2>1, <2>2, <2>3 DEF TypeOK
<1>7. same' => acct' = "bencher"
  BY <1>3 DEF Shape
<1>8. QED
  BY <1>3, <1>4, <1>5, <1>6, <1>7 DEF Shape

LEMMA EnsurePullShape ==
  ASSUME Shape, EnsurePull, UNCHANGED same
  PROVE  Shape'
<1>1. /\ Len(chain) \in Nat /\ TypedTo(Len(chain)) /\ Cells = CellsTo(Len(chain))
      /\ pulling \in 0..Len(chain) /\ header \in 0..Len(chain) /\ acct \in Account
      /\ utxoset \subseteq Cells /\ unmatureds \subseteq Cells
  BY ShapeTyped DEF TypedTo, Shape, TypeOK
<1>2. /\ chain' = chain /\ pool' = pool /\ template' = template /\ acct' = acct
      /\ pulling' = pulling /\ header' = header /\ mined' = mined /\ at' = at
      /\ waiting' = waiting /\ chan' = chan /\ transfer' = transfer /\ same' = same
      /\ pc' = "ensure"
  BY DEF EnsurePull, nodeVars, monitorVars
<1>3. utxoset' \subseteq Cells /\ unmatureds' \subseteq Cells
  <2>1. pulling \in 1..Len(chain)
    BY <1>1 DEF EnsurePull, Shape
  <2>2. /\ MaturedIn(acct, pulling) \subseteq Cells
        /\ UnmaturedIn(acct, pulling) \subseteq Cells
    BY <1>1, <2>1, CellsOfBlock
  <2>3. PullFrom(pulling)
    BY DEF EnsurePull
  <2>4. QED
    BY <1>1, <2>2, <2>3 DEF PullFrom
<1>4. Cells' = Cells
  BY <1>2 DEF Cells
<1>5. TypeOK'
  BY <1>2, <1>3, <1>4 DEF Shape, TypeOK
<1>6. QED
  BY <1>2, <1>5 DEF Shape

(* The hand-over to the chain monitor.                                     *)
LEMMA HandedOver ==
  ASSUME Shape, Spawn
  PROVE  \E s \in Sorted(unmatureds), u \in Orders(utxoset) :
           /\ waiting' = [waiting EXCEPT ![acct] = s]
           /\ chan' = [chan EXCEPT ![acct] = u]
           /\ s \in Seq(Cells) /\ Range(s) = unmatureds /\ IsInjective(s)
           /\ u \in Seq(Cells) /\ Range(u) = utxoset /\ IsInjective(u)
<1>1. PICK s \in Sorted(unmatureds) : waiting' = [waiting EXCEPT ![acct] = s]
  BY DEF Spawn
<1>2. PICK u \in Orders(utxoset) : chan' = [chan EXCEPT ![acct] = u]
  BY DEF Spawn
<1>3. /\ utxoset \in SUBSET Cells /\ unmatureds \in SUBSET Cells
      /\ IsFiniteSet(utxoset) /\ IsFiniteSet(unmatureds)
  BY ShapeTyped DEF Shape, TypeOK
<1>4. s \in Orders(unmatureds)
  BY DEF Sorted
<1>5. s \in Seq(Cells) /\ Range(s) = unmatureds /\ IsInjective(s)
  BY <1>3, <1>4, OrderProperties
<1>6. u \in Seq(Cells) /\ Range(u) = utxoset /\ IsInjective(u)
  BY <1>3, OrderProperties
<1>7. QED
  BY <1>1, <1>2, <1>5, <1>6

LEMMA SpawnShape ==
  ASSUME Shape, Spawn, UNCHANGED same
  PROVE  Shape'
<1>1. PICK s, u :
        /\ waiting' = [waiting EXCEPT ![acct] = s]
        /\ chan' = [chan EXCEPT ![acct] = u]
        /\ s \in Seq(Cells) /\ u \in Seq(Cells)
  BY HandedOver
<1>2. /\ chain' = chain /\ pool' = pool /\ template' = template
      /\ pulling' = pulling /\ utxoset' = utxoset /\ unmatureds' = unmatureds
      /\ header' = header /\ mined' = mined /\ same' = same
      /\ at' = [at EXCEPT ![acct] = header]
      /\ pc' \in {"scan", "done"} /\ acct' \in {acct, "bencher"}
      /\ transfer' \in {transfer, "on"}
  BY DEF Spawn, nodeVars, scanVars, FollowFrom
<1>3. Cells' = Cells
  BY <1>2 DEF Cells
<1>4. /\ waiting' \in [Account -> Seq(Cells)] /\ chan' \in [Account -> Seq(Cells)]
      /\ at' \in [Account -> 0..Len(chain)]
      /\ acct' \in Account /\ transfer' \in {"off", "on", "spent", "full"}
  BY <1>1, <1>2 DEF Shape, TypeOK, Account
<1>5. TypeOK'
  BY <1>2, <1>3, <1>4 DEF Shape, TypeOK
<1>6. QED
  BY <1>2, <1>5 DEF Shape

LEMMA MinerThreadShape ==
  ASSUME Shape, MinerThread
  PROVE  Shape'
<1>1. /\ same' = same /\ pc' = pc /\ pulling' = pulling /\ acct' = acct
      /\ utxoset' = utxoset /\ unmatureds' = unmatureds /\ header' = header
      /\ mined' = mined /\ at' = at /\ waiting' = waiting
      /\ chan' = chan /\ transfer' = transfer
  BY DEF MinerThread, scanVars, monitorVars
<1>2. "background" \in Thread /\ "main" \in Thread /\ "main" # "background"
  BY DEF Thread
<1>3. CASE GetTemplate("background") /\ UNCHANGED nodeVars
  <2>1. chain' = chain /\ pool' = pool /\ Cells' = Cells
    BY <1>3 DEF nodeVars, Cells
  <2>2. /\ template'["background"][1] = Len(chain) + 1
        /\ template' \in
             [Thread -> {<<>>} \cup ((1..MaxHeight) \X SUBSET (1..Len(chain)))]
        /\ \A u \in Thread : u # "background" => template'[u] = template[u]
    BY <1>2, <1>3, TemplateTyped
  <2>3. TypeOK'
    BY <1>1, <2>1, <2>2 DEF Shape, TypeOK
  <2>4. ASSUME NEW u \in Thread, template'[u] # <<>>
        PROVE  template'[u][1] <= Len(chain) + 1
    <3>1. CASE u = "background"
      BY <2>2, <3>1, ShapeTyped
    <3>2. CASE u # "background"
      BY <2>2, <2>4, <3>2 DEF Shape
    <3>3. QED
      BY <3>1, <3>2
  <2>5. template'["main"] = template["main"]
    BY <1>2, <2>2
  <2>6. QED
    BY <1>1, <2>1, <2>3, <2>4, <2>5 DEF Shape
<1>4. ASSUME NEW accepted \in BOOLEAN, Submit("background", accepted)
      PROVE  Shape'
  <2>1. /\ chain' \in Seq(SUBSET (1..MaxHeight))
        /\ pool' \subseteq 1..Len(chain')
        /\ template' \in
             [Thread -> {<<>>} \cup ((1..MaxHeight) \X SUBSET (1..Len(chain')))]
        /\ pulling \in 0..Len(chain')
    BY <1>2, <1>4, GrownTyped
  <2>2. /\ utxoset \subseteq Cells' /\ unmatureds \subseteq Cells'
        /\ header \in 0..Len(chain')
        /\ at \in [Account -> 0..Len(chain')]
        /\ waiting \in [Account -> Seq(Cells')]
        /\ chan \in [Account -> Seq(Cells')]
    BY <1>2, <1>4, GrownTyped
  <2>3. TypeOK'
    <3>1. /\ same' \in BOOLEAN /\ acct' \in Account /\ transfer' \in {"off", "on", "spent", "full"}
          /\ mined' \in [Account -> Nat]
          /\ pc' \in {"scan", "until", "ensure", "submit", "pull", "done"}
      BY <1>1 DEF Shape, TypeOK
    <3>2. QED
      BY <1>1, <2>1, <2>2, <3>1 DEF TypeOK
  <2>4. /\ Len(chain') <= MaxHeight
        /\ \A n \in 1..Len(chain') : chain'[n] \subseteq 1..(n - 1)
        /\ \A u \in Thread : template'[u] # <<>> => template'[u][1] <= Len(chain') + 1
    BY <1>2, <1>4, SubmittedTyped
  <2>5. template'["main"] = template["main"]
    <3>1. template' = [template EXCEPT !["background"] = <<>>]
      BY <1>4 DEF Submit
    <3>2. QED
      BY <1>2, <3>1, ShapeTyped DEF TypedTo
  <2>6. QED
    BY <1>1, <2>3, <2>4, <2>5 DEF Shape
<1>5. QED
  BY <1>3, <1>4 DEF MinerThread

(* What a turn of pull_forever makes of the lists.                         *)
LEMMA FollowedTyped ==
  ASSUME Shape, NEW a \in Account, NEW n \in 1..Len(chain), NEW k \in 0..Len(waiting[a]),
         NEW s \in Orders(MaturedIn(a, n)), NEW u \in Orders(UnmaturedIn(a, n))
  PROVE  /\ s \in Seq(Cells) /\ Range(s) = MaturedIn(a, n) /\ IsInjective(s)
         /\ u \in Seq(Cells) /\ Range(u) = UnmaturedIn(a, n) /\ IsInjective(u)
         /\ SubSeq(waiting[a], 1, k) \in Seq(Cells)
         /\ SubSeq(waiting[a], k + 1, Len(waiting[a])) \in Seq(Cells)
         /\ (chan[a] \o s) \o SubSeq(waiting[a], 1, k) \in Seq(Cells)
         /\ SubSeq(waiting[a], k + 1, Len(waiting[a])) \o u \in Seq(Cells)
<1>1. /\ MaturedIn(a, n) \in SUBSET Cells /\ UnmaturedIn(a, n) \in SUBSET Cells
      /\ IsFiniteSet(MaturedIn(a, n)) /\ IsFiniteSet(UnmaturedIn(a, n))
  BY CellsOfBlock, ShapeTyped
<1>2. s \in Seq(Cells) /\ Range(s) = MaturedIn(a, n) /\ IsInjective(s)
  BY <1>1, OrderProperties
<1>3. u \in Seq(Cells) /\ Range(u) = UnmaturedIn(a, n) /\ IsInjective(u)
  BY <1>1, OrderProperties
<1>4. waiting[a] \in Seq(Cells) /\ chan[a] \in Seq(Cells)
  BY DEF Shape, TypeOK
<1>5. PICK p, q : p = SubSeq(waiting[a], 1, k) /\ q = SubSeq(waiting[a], k + 1, Len(waiting[a]))
  OBVIOUS
<1>6. p \in Seq(Cells) /\ q \in Seq(Cells)
  BY <1>4, <1>5, CutInTwo
<1>7. (chan[a] \o s) \o p \in Seq(Cells) /\ q \o u \in Seq(Cells)
  BY <1>2, <1>3, <1>4, <1>6, ConcatProperties
<1>8. QED
  BY <1>2, <1>3, <1>5, <1>6, <1>7

LEMMA FollowShape ==
  ASSUME Shape, NEW a \in Account, Follow(a)
  PROVE  Shape'
<1>1. /\ same' = same /\ pc' = pc /\ pulling' = pulling /\ acct' = acct
      /\ utxoset' = utxoset /\ unmatureds' = unmatureds /\ header' = header
      /\ mined' = mined /\ chain' = chain /\ pool' = pool /\ template' = template
      /\ transfer' = transfer
  BY DEF Follow, scanVars, nodeVars
<1>2. PICK n \in 1..Len(chain), k \in 0..Len(waiting[a]) :
        \E s \in Orders(MaturedIn(a, n)), u \in Orders(UnmaturedIn(a, n)) :
          /\ n = at[a] + 1
          /\ at' = [at EXCEPT ![a] = n]
          /\ chan' = [chan EXCEPT ![a] = (chan[a] \o s) \o SubSeq(waiting[a], 1, k)]
          /\ waiting' =
               [waiting EXCEPT ![a] = SubSeq(waiting[a], k + 1, Len(waiting[a])) \o u]
  BY Followed
<1>3. PICK p \in Seq(Cells), q \in Seq(Cells) :
        /\ at' = [at EXCEPT ![a] = n]
        /\ chan' = [chan EXCEPT ![a] = p]
        /\ waiting' = [waiting EXCEPT ![a] = q]
  BY <1>2, FollowedTyped
<1>4. /\ at' \in [Account -> 0..Len(chain)] /\ chan' \in [Account -> Seq(Cells)]
      /\ waiting' \in [Account -> Seq(Cells)]
  <2>1. n \in 0..Len(chain)
    BY ShapeTyped
  <2>2. QED
    BY <1>3, <2>1 DEF Shape, TypeOK
<1>5. Cells' = Cells
  BY <1>1 DEF Cells
<1>6. TypeOK'
  BY <1>1, <1>4, <1>5 DEF Shape, TypeOK
<1>7. QED
  BY <1>1, <1>6 DEF Shape

(* The transfer of a reward.                                               *)
LEMMA Transferred ==
  ASSUME Shape, TransferCell
  PROVE  \E m \in 1..Len(chain) :
           /\ chan["miner"] # <<>> /\ m = NumberOf(Head(chan["miner"]))
           /\ chan' = [chan EXCEPT !["miner"] = Tail(chan["miner"])]
           /\ Tail(chan["miner"]) \in Seq(Cells)
           /\ \/ transfer' = "full" /\ pool' = pool
              \/ /\ m \in pool \cup MovedIn(chain, Len(chain))
                 /\ transfer' = "spent" /\ pool' = pool
              \/ /\ m \notin pool \cup MovedIn(chain, Len(chain))
                 /\ transfer' = "on" /\ pool' = pool \cup {m}
<1>1. chan \in [Account -> Seq(Cells)] /\ "miner" \in Account
  BY DEF Shape, TypeOK, Account
<1>2. chan["miner"] \in Seq(Cells) /\ chan["miner"] # <<>> /\ transfer = "on"
  BY <1>1 DEF TransferCell
<1>3. Head(chan["miner"]) \in Cells /\ Tail(chan["miner"]) \in Seq(Cells)
  BY <1>2, TailOfInjective
<1>4. PICK m : m = NumberOf(Head(chan["miner"]))
  OBVIOUS
<1>5. m \in 1..Len(chain)
  BY <1>3, <1>4 DEF Cells, NumberOf
<1>6. Moved = MovedIn(chain, Len(chain))
  BY DEF Moved, MovedBy, MovedIn
<1>7. chan' = [chan EXCEPT !["miner"] = Tail(chan["miner"])]
  BY <1>1 DEF TransferCell
<1>8. \/ transfer' = "full" /\ pool' = pool
      \/ m \in pool \cup Moved /\ transfer' = "spent" /\ pool' = pool
      \/ m \notin pool \cup Moved /\ pool' = pool \cup {m} /\ transfer' = transfer
  BY <1>4 DEF TransferCell
<1>9. QED
  BY <1>2, <1>3, <1>4, <1>5, <1>6, <1>7, <1>8

LEMMA TransferCellShape ==
  ASSUME Shape, TransferCell
  PROVE  Shape'
<1>1. /\ same' = same /\ pc' = pc /\ pulling' = pulling /\ acct' = acct
      /\ utxoset' = utxoset /\ unmatureds' = unmatureds /\ header' = header
      /\ mined' = mined /\ chain' = chain /\ template' = template
      /\ at' = at /\ waiting' = waiting
  BY DEF TransferCell, scanVars
<1>2. PICK m \in 1..Len(chain) :
        /\ chan' = [chan EXCEPT !["miner"] = Tail(chan["miner"])]
        /\ Tail(chan["miner"]) \in Seq(Cells)
        /\ \/ transfer' \in {"spent", "full"} /\ pool' = pool
           \/ transfer' = "on" /\ pool' = pool \cup {m}
  BY Transferred
<1>3. /\ chan' \in [Account -> Seq(Cells)] /\ pool' \subseteq 1..Len(chain)
      /\ transfer' \in {"off", "on", "spent", "full"}
  BY <1>2 DEF Shape, TypeOK
<1>4. Cells' = Cells
  BY <1>1 DEF Cells
<1>5. TypeOK'
  BY <1>1, <1>3, <1>4 DEF Shape, TypeOK
<1>6. QED
  BY <1>1, <1>5 DEF Shape

LEMMA NextShape ==
  ASSUME Shape, [Next]_vars
  PROVE  Shape'
<1>1. ASSUME Main
      PROVE  Shape'
  BY <1>1, ConfirmedShape, PullUntilShape, EnsureTemplateShape, EnsureSubmitShape,
     EnsurePullShape, SpawnShape DEF Main
<1>2. ASSUME UNCHANGED vars
      PROVE  Shape'
  <2>1. /\ same' = same /\ pc' = pc /\ pulling' = pulling /\ acct' = acct
        /\ utxoset' = utxoset /\ unmatureds' = unmatureds /\ header' = header
        /\ mined' = mined /\ chain' = chain /\ template' = template
        /\ at' = at /\ waiting' = waiting /\ chan' = chan /\ pool' = pool
        /\ transfer' = transfer
    BY <1>2 DEF vars, nodeVars, scanVars, monitorVars
  <2>2. Cells' = Cells
    BY <2>1 DEF Cells
  <2>3. TypeOK'
    BY <2>1, <2>2 DEF Shape, TypeOK
  <2>4. QED
    BY <2>1, <2>3 DEF Shape
<1>3. QED
  BY <1>1, <1>2, MinerThreadShape, FollowShape, TransferCellShape DEF Next

LEMMA AlwaysShape == Spec => []Shape
<1>1. Shape /\ [Next]_vars => Shape'
  BY NextShape
<1>2. QED
  BY <1>1, InitShape, PTL DEF Spec

(* The types of the variables.                                             *)
THEOREM TypeCorrect == Spec => []TypeOK
<1>1. Shape => TypeOK
  BY DEF Shape
<1>2. QED
  BY <1>1, AlwaysShape, PTL

-----------------------------------------------------------------------------
(* How a step changes the chain                                            *)

(* t submits the next block.                                               *)
Mines(t) ==
  /\ template[t] # <<>> /\ template[t][1] = Len(chain) + 1
  /\ chain' = Append(chain, template[t][2])
  /\ pool' = pool \ template[t][2]
  /\ Len(chain') = Len(chain) + 1
  /\ chain'[Len(chain) + 1] = template[t][2]
  /\ MovedIn(chain', Len(chain')) = MovedIn(chain, Len(chain)) \cup template[t][2]

LEMMA SubmitMines ==
  ASSUME Shape, NEW t \in Thread, NEW accepted \in BOOLEAN, Submit(t, accepted)
  PROVE  \/ chain' = chain /\ pool' = pool /\ template[t][1] <= Len(chain)
         \/ Mines(t) /\ accepted
<1>1. template[t] # <<>>
  BY DEF Submit
<1>2. PICK B \in SUBSET (1..Len(chain)) : B = template[t][2]
  BY Submitted
<1>3. CASE /\ accepted /\ template[t][1] = Len(chain) + 1
           /\ chain' = Append(chain, B) /\ pool' = pool \ template[t][2]
  <2>1. PICK ch : ch = chain'
    OBVIOUS
  <2>2. /\ Len(ch) = Len(chain) + 1
        /\ \A n \in 1..Len(chain) : ch[n] = chain[n]
        /\ ch[Len(chain) + 1] = B
    BY <1>3, <2>1, Lengthened
  <2>3. PICK n \in Nat : n = Len(chain)
    BY ShapeTyped
  <2>4. MovedIn(ch, n + 1) = MovedIn(ch, n) \cup ch[n + 1]
    BY MovedNext
  <2>5. MovedIn(ch, n) = MovedIn(chain, n)
    BY <2>2, <2>3, MovedSame
  <2>6. MovedIn(ch, Len(ch)) = MovedIn(chain, Len(chain)) \cup B
    BY <2>2, <2>3, <2>4, <2>5
  <2>7. QED
    BY <1>1, <1>2, <1>3, <2>1, <2>2, <2>6 DEF Mines
<1>4. QED
  BY <1>2, <1>3, Submitted

(* The blocks of a chain stay, and with them what is live up to a block.   *)
LEMMA ChainStep ==
  ASSUME Shape, [Next]_vars
  PROVE  /\ same' = same
         /\ Len(chain) \in Nat /\ Len(chain') \in Nat /\ Len(chain) <= Len(chain')
         /\ \A n \in 1..Len(chain) : chain'[n] = chain[n]
         /\ IsChain(chain) /\ IsChain(chain')
         /\ \A n \in 0..Len(chain) : \A s, a :
              LiveIn(s, chain', a, n) = LiveIn(s, chain, a, n)
         /\ MovedIn(chain, Len(chain)) \subseteq MovedIn(chain', Len(chain'))
         /\ \/ chain' = chain
            \/ \E t \in Thread : Mines(t)
<1>1. Len(chain) \in Nat /\ Len(chain') \in Nat /\ IsChain(chain) /\ IsChain(chain')
  <2>1. Shape'
    BY NextShape
  <2>2. IsChain(chain') /\ Len(chain') \in Nat
    <3>1. chain' \in Seq(SUBSET (1..MaxHeight)) /\ MaxHeight \in Nat
      BY <2>1, StartupAssumption DEF Shape, TypeOK
    <3>2. SUBSET (1..MaxHeight) \subseteq SUBSET Nat
      BY <3>1
    <3>3. chain' \in Seq(SUBSET Nat)
      BY <3>1, <3>2
    <3>4. \A n \in 1..Len(chain') : chain'[n] \subseteq 1..(n - 1)
      BY <2>1 DEF Shape
    <3>5. Len(chain') \in Nat
      BY <3>1, LenProperties
    <3>6. QED
      BY <3>3, <3>4, <3>5 DEF IsChain
  <2>3. QED
    BY <2>2, ShapeTyped
<1>2. same' = same
  BY DEF Main, MinerThread, Follow, TransferCell, Next, vars
<1>3. chain' = chain \/ \E t \in Thread : Mines(t)
  <2>1. CASE EnsureSubmit
    <3>1. \E accepted \in BOOLEAN : Submit("main", accepted) /\ "main" \in Thread
      BY <2>1 DEF EnsureSubmit, Thread
    <3>2. QED
      BY <3>1, SubmitMines
  <2>2. CASE MinerThread
    <3>1. \/ UNCHANGED nodeVars
          \/ \E accepted \in BOOLEAN : Submit("background", accepted) /\ "background" \in Thread
      BY <2>2 DEF MinerThread, Thread
    <3>2. QED
      BY <3>1, SubmitMines DEF nodeVars
  <2>3. CASE Confirmed \/ PullUntil \/ EnsureTemplate \/ EnsurePull \/ Spawn
    BY <2>3 DEF Confirmed, PullUntil, EnsureTemplate, EnsurePull, Spawn, nodeVars
  <2>4. QED
    BY <2>1, <2>2, <2>3 DEF Next, Main, Follow, TransferCell, vars, nodeVars
<1>4. /\ Len(chain) <= Len(chain')
      /\ \A n \in 1..Len(chain) : chain'[n] = chain[n]
      /\ MovedIn(chain, Len(chain)) \subseteq MovedIn(chain', Len(chain'))
  <2>1. CASE chain' = chain
    BY <1>1, <2>1
  <2>2. ASSUME NEW t \in Thread, Mines(t)
        PROVE  /\ Len(chain) <= Len(chain')
               /\ \A n \in 1..Len(chain) : chain'[n] = chain[n]
               /\ MovedIn(chain, Len(chain)) \subseteq MovedIn(chain', Len(chain'))
    <3>1. /\ Len(chain') = Len(chain) + 1
          /\ MovedIn(chain', Len(chain')) = MovedIn(chain, Len(chain)) \cup template[t][2]
          /\ chain' = Append(chain, template[t][2])
      BY <2>2 DEF Mines
    <3>2. template[t][2] \in SUBSET (1..Len(chain))
      BY <2>2, ShapeTyped DEF Mines, TypedTo
    <3>3. PICK ch : ch = chain'
      OBVIOUS
    <3>4. \A n \in 1..Len(chain) : ch[n] = chain[n]
      BY <3>1, <3>2, <3>3, Lengthened
    <3>5. QED
      BY <1>1, <3>1, <3>3, <3>4
  <2>3. QED
    BY <1>3, <2>1, <2>2
<1>5. \A n \in 0..Len(chain) : \A s, a : LiveIn(s, chain', a, n) = LiveIn(s, chain, a, n)
  <2>1. ASSUME NEW n \in 0..Len(chain), NEW s, NEW a
        PROVE  LiveIn(s, chain', a, n) = LiveIn(s, chain, a, n)
    <3>1. PICK ch : ch = chain'
      OBVIOUS
    <3>2. \A i \in 1..n : ch[i] = chain[i]
      BY <1>1, <1>4, <3>1
    <3>3. MovedIn(ch, n) = MovedIn(chain, n)
      BY <3>2, MovedSame
    <3>4. LiveIn(s, ch, a, n) = LiveIn(s, chain, a, n)
      BY <3>3 DEF LiveIn
    <3>5. QED
      BY <3>1, <3>4
  <2>2. QED
    BY <2>1
<1>6. QED
  BY <1>1, <1>2, <1>3, <1>4, <1>5

(* Which variables an action leaves alone.                                 *)
LEMMA Leaves ==
  ASSUME [Next]_vars
  PROVE  /\ ~ (Main /\ Spawn) => acct' = acct /\ (~ TransferCell => transfer' = transfer)
         /\ ~ Main => pc' = pc /\ mined' = mined /\ header' = header /\ pulling' = pulling
                        /\ utxoset' = utxoset /\ unmatureds' = unmatureds
         /\ ~ Main /\ ~ (\E a \in Account : Follow(a)) => at' = at /\ waiting' = waiting
         /\ ~ Main /\ ~ (\E a \in Account : Follow(a)) /\ ~ TransferCell => chan' = chan
         /\ ~ Main /\ ~ MinerThread => template' = template /\ chain' = chain
<1>1. ASSUME Main, ~ Spawn
      PROVE  acct' = acct /\ transfer' = transfer
  BY <1>1 DEF Main, Confirmed, PullUntil, EnsureTemplate, EnsureSubmit, EnsurePull,
              monitorVars
<1>2. ASSUME MinerThread
      PROVE  /\ acct' = acct /\ transfer' = transfer /\ pc' = pc /\ mined' = mined
             /\ header' = header /\ pulling' = pulling
             /\ utxoset' = utxoset /\ unmatureds' = unmatureds
             /\ at' = at /\ waiting' = waiting /\ chan' = chan
  BY <1>2 DEF MinerThread, scanVars, monitorVars
<1>3. ASSUME NEW a \in Account, Follow(a)
      PROVE  /\ acct' = acct /\ transfer' = transfer /\ pc' = pc /\ mined' = mined
             /\ header' = header /\ pulling' = pulling
             /\ utxoset' = utxoset /\ unmatureds' = unmatureds
             /\ template' = template /\ chain' = chain
  BY <1>3 DEF Follow, scanVars, nodeVars
<1>4. ASSUME TransferCell
      PROVE  /\ acct' = acct /\ pc' = pc /\ mined' = mined
             /\ header' = header /\ pulling' = pulling
             /\ utxoset' = utxoset /\ unmatureds' = unmatureds
             /\ template' = template /\ chain' = chain /\ at' = at /\ waiting' = waiting
  BY <1>4 DEF TransferCell, scanVars
<1>5. ASSUME UNCHANGED vars
      PROVE  /\ acct' = acct /\ transfer' = transfer /\ pc' = pc /\ mined' = mined
             /\ header' = header /\ pulling' = pulling
             /\ utxoset' = utxoset /\ unmatureds' = unmatureds
             /\ template' = template /\ chain' = chain /\ at' = at /\ waiting' = waiting
             /\ chan' = chan
  BY <1>5 DEF vars, scanVars, monitorVars, nodeVars
<1>6. CASE Main
  BY <1>1, <1>6
<1>7. CASE ~ Main
  BY <1>2, <1>3, <1>4, <1>5, <1>7 DEF Next
<1>8. QED
  BY <1>6, <1>7

(* The templates and the pool.                                             *)
LEMMA TemplateStep ==
  ASSUME Shape, [Next]_vars
  PROVE  /\ \A t \in Thread : template'[t] # <<>> =>
              \/ template[t] # <<>> /\ template'[t] = template[t]
              \/ /\ template[t] = <<>> /\ template'[t][2] = pool /\ pool' = pool
                 /\ template'[t][1] = Len(chain) + 1 /\ chain' = chain
         /\ \/ pool' \subseteq pool
            \/ TransferCell
         /\ pool \subseteq pool' \cup MovedIn(chain', Len(chain'))
<1>1. "main" \in Thread /\ "background" \in Thread
  BY DEF Thread
<1>2. ASSUME NEW t \in Thread, NEW accepted \in BOOLEAN, Submit(t, accepted)
      PROVE  /\ \A u \in Thread : template'[u] # <<>> =>
                  template[u] # <<>> /\ template'[u] = template[u]
             /\ pool' \subseteq pool
             /\ pool \subseteq pool' \cup MovedIn(chain', Len(chain'))
  <2>1. pool' \subseteq pool /\ pool \subseteq pool' \cup MovedIn(chain', Len(chain'))
    <3>1. CASE chain' = chain /\ pool' = pool
      BY <3>1
    <3>2. CASE Mines(t)
      BY <3>2 DEF Mines
    <3>3. QED
      BY <1>2, <3>1, <3>2, SubmitMines
  <2>2. \A u \in Thread : template'[u] # <<>> =>
          template[u] # <<>> /\ template'[u] = template[u]
    BY <1>2, SubmittedTyped
  <2>3. QED
    BY <2>1, <2>2
<1>3. ASSUME NEW t \in Thread, GetTemplate(t), chain' = chain, pool' = pool
      PROVE  \A u \in Thread : template'[u] # <<>> =>
               \/ template[u] # <<>> /\ template'[u] = template[u]
               \/ /\ template[u] = <<>> /\ template'[u][2] = pool
                  /\ template'[u][1] = Len(chain) + 1
  <2>1. /\ template[t] = <<>> /\ template'[t][2] = pool
        /\ template'[t][1] = Len(chain) + 1
        /\ \A u \in Thread : u # t => template'[u] = template[u]
    BY <1>3, TemplateTyped
  <2>2. QED
    BY <2>1
<1>4. CASE EnsureSubmit
  BY <1>1, <1>2, <1>4 DEF EnsureSubmit
<1>5. CASE MinerThread
  <2>1. CASE GetTemplate("background") /\ UNCHANGED nodeVars
    BY <1>1, <1>3, <2>1 DEF nodeVars
  <2>2. CASE \E accepted \in BOOLEAN : Submit("background", accepted)
    BY <1>1, <1>2, <2>2
  <2>3. QED
    BY <1>5, <2>1, <2>2 DEF MinerThread
<1>6. CASE EnsureTemplate
  BY <1>1, <1>3, <1>6 DEF EnsureTemplate, nodeVars
<1>7. CASE TransferCell
  <2>1. pool \subseteq pool' /\ template' = template
    BY <1>7 DEF TransferCell
  <2>2. QED
    BY <1>7, <2>1
<1>8. CASE UNCHANGED <<nodeVars, template>>
  BY <1>8 DEF nodeVars
<1>9. CASE Confirmed \/ PullUntil \/ EnsurePull \/ Spawn \/ (\E a \in Account : Follow(a))
           \/ UNCHANGED vars
  BY <1>8, <1>9 DEF Confirmed, PullUntil, EnsurePull, Spawn, Follow, vars
<1>10. QED
  BY <1>4, <1>5, <1>6, <1>7, <1>9 DEF Next, Main

-----------------------------------------------------------------------------
(* Nothing is transferred before the transfer thread is spawned            *)

LEMMA NextQuiet ==
  ASSUME Shape, Quiet, [Next]_vars
  PROVE  Quiet'
<1>1. same' = same
  BY ChainStep
<1>2. CASE Main /\ Spawn
  <2>1. /\ pool' = pool /\ template' = template
        /\ IF acct = "miner" THEN transfer' = "on" /\ acct' = "bencher"
           ELSE transfer' = transfer /\ acct' = acct
    BY <1>2 DEF Spawn, nodeVars
  <2>2. same => acct # "miner"
    BY DEF Shape
  <2>3. QED
    BY <1>1, <2>1, <2>2 DEF Quiet
<1>3. CASE TransferCell
  <2>1. transfer = "on" /\ transfer' # "off" /\ acct' = acct
    <3>1. transfer' \in {"on", "spent", "full"}
      BY <1>3, Transferred
    <3>2. QED
      BY <1>3, <3>1 DEF TransferCell
  <2>2. QED
    BY <1>1, <2>1 DEF Quiet
<1>4. CASE ~ (Main /\ Spawn) /\ ~ TransferCell
  <2>1. acct' = acct /\ transfer' = transfer /\ pool' \subseteq pool
    BY <1>4, Leaves, TemplateStep
  <2>2. ASSUME transfer = "off", NEW t \in Thread, template'[t] # <<>>
        PROVE  template'[t][2] = {}
    BY <2>2, TemplateStep DEF Quiet
  <2>3. QED
    BY <1>1, <2>1, <2>2 DEF Quiet
<1>5. QED
  BY <1>2, <1>3, <1>4

LEMMA InitQuiet ==
  ASSUME Init
  PROVE  Quiet
BY DEF Init, Quiet

-----------------------------------------------------------------------------
(* pull_until                                                              *)

(* One turn, for the union of the two sets of cells.                       *)
LEMMA ScanStep ==
  ASSUME Shape, Scanned, pc = "until", pulling < header, Scan(pulling + 1)
  PROVE  /\ utxoset' \cup unmatureds' = LiveIn(same, chain, acct, pulling + 1)
         /\ \A c \in utxoset' : c[1] = "reward" => Len(chain) > c[2] + Maturity
<1>1. /\ IsChain(chain) /\ pulling \in Nat /\ pulling + 1 <= Len(chain)
      /\ same \in BOOLEAN /\ acct \in Account /\ Maturity \in Nat
      /\ header \in 0..Len(chain) /\ Len(chain) \in Nat
  BY ShapeTyped, StartupAssumption DEF TypedTo, Shape, TypeOK
<1>2. PICK M, U, P, R :
        /\ M = MaturedIn(acct, pulling + 1) /\ U = UnmaturedIn(acct, pulling + 1)
        /\ P = SpentIn(pulling + 1)
        /\ R = {c \in U : IsMatured(header, pulling + 1)}
  OBVIOUS
<1>3. /\ utxoset' = ((utxoset \cup M) \cup R) \ P
      /\ unmatureds' = (unmatureds \cup (U \ R)) \ P
  BY <1>2 DEF Scan
<1>4. LiveIn(same, chain, acct, pulling + 1) =
        ((LiveIn(same, chain, acct, pulling) \cup M) \cup U) \ P
  <2>1. M = IF acct = "bencher" THEN {Paid(m) : m \in chain[pulling + 1]} ELSE {}
    BY <1>2 DEF MaturedIn
  <2>2. U = IF acct = "miner" \/ same THEN {Reward(pulling + 1)} ELSE {}
    BY <1>2 DEF UnmaturedIn
  <2>3. P = {Reward(m) : m \in chain[pulling + 1]}
    BY <1>2 DEF SpentIn
  <2>4. QED
    BY <1>1, <2>1, <2>2, <2>3, LiveNext
<1>5. R \subseteq U
  BY <1>2
<1>6. utxoset' \cup unmatureds' = LiveIn(same, chain, acct, pulling + 1)
  BY <1>3, <1>4, <1>5 DEF Scanned
<1>7. ASSUME NEW c \in utxoset', c[1] = "reward"
      PROVE  Len(chain) > c[2] + Maturity
  <2>1. CASE c \in utxoset
    BY <1>7, <2>1 DEF Scanned
  <2>2. CASE c \in M
    BY <1>2, <1>7, <2>2 DEF MaturedIn, Paid
  <2>3. CASE c \in R
    <3>1. c = Reward(pulling + 1) /\ header > (pulling + 1) + Maturity
      BY <1>2, <2>3 DEF UnmaturedIn, IsMatured
    <3>2. c[2] = pulling + 1
      BY <3>1 DEF Reward
    <3>3. QED
      BY <1>1, <3>1, <3>2
  <2>4. QED
    BY <1>3, <1>7, <2>1, <2>2, <2>3
<1>8. QED
  BY <1>6, <1>7

(* pull_from_block_number sends mature cells only.                         *)
LEMMA PullRipe ==
  ASSUME Shape, Scanned, pc = "pull", PullFrom(pulling)
  PROVE  \A c \in utxoset' : c[1] = "reward" => Len(chain) > c[2] + Maturity
<1>1. /\ pulling \in 0..Len(chain) /\ Len(chain) \in Nat /\ Maturity \in Nat
      /\ unmatureds \subseteq CellsTo(Len(chain)) /\ header \in Nat /\ pulling > header
      /\ acct \in Account
  BY ShapeTyped, StartupAssumption DEF TypedTo, Shape, TypeOK
<1>2. UnmaturedIn(acct, pulling) \subseteq CellsTo(Len(chain))
  <2>1. pulling \in 1..Len(chain)
    BY <1>1
  <2>2. QED
    BY <1>1, <2>1, CellsOfBlock
<1>3. ASSUME NEW c \in utxoset', c[1] = "reward"
      PROVE  Len(chain) > c[2] + Maturity
  <2>1. CASE c \in utxoset
    BY <1>3, <2>1 DEF Scanned
  <2>2. CASE c \in MaturedIn(acct, pulling)
    BY <1>3, <2>2 DEF MaturedIn, Paid
  <2>3. CASE /\ c \in unmatureds \cup UnmaturedIn(acct, pulling)
             /\ IsMatured(pulling, NumberOf(c))
    <3>1. pulling > c[2] + Maturity
      BY <2>3 DEF IsMatured, NumberOf
    <3>2. c[2] \in Nat
      BY <1>1, <1>2, <2>3 DEF CellsTo
    <3>3. QED
      BY <1>1, <3>1, <3>2
  <2>4. QED
    BY <1>3, <2>1, <2>2, <2>3 DEF PullFrom
<1>4. QED
  BY <1>3

LEMMA InitScanned ==
  ASSUME Init
  PROVE  Scanned
BY DEF Init, Scanned

LEMMA NextScanned ==
  ASSUME Shape, Scanned, [Next]_vars
  PROVE  Scanned'
<1>1. /\ same' = same /\ Len(chain) \in Nat /\ Len(chain') \in Nat
      /\ Len(chain) <= Len(chain') /\ Maturity \in Nat
      /\ \A n \in 0..Len(chain) : \A s, a :
           LiveIn(s, chain', a, n) = LiveIn(s, chain, a, n)
  BY ChainStep, StartupAssumption
<1>2. ASSUME NEW c \in utxoset, c[1] = "reward"
      PROVE  Len(chain') > c[2] + Maturity
  <2>1. c[2] \in Nat
    BY ShapeTyped DEF TypedTo, CellsTo
  <2>2. Len(chain) > c[2] + Maturity
    BY <1>2 DEF Scanned
  <2>3. QED
    BY <1>1, <2>1, <2>2
<1>3. CASE Main /\ Confirmed
  <2>1. utxoset' = {} /\ unmatureds' = {} /\ pulling' = 0
    BY <1>3 DEF Confirmed
  <2>2. LiveIn(same', chain', acct', 0) = {}
    BY LiveZero
  <2>3. QED
    BY <2>1, <2>2 DEF Scanned
<1>4. CASE Main /\ PullUntil
  <2>1. /\ chain' = chain /\ acct' = acct /\ pc = "until"
    BY <1>4 DEF PullUntil, nodeVars
  <2>2. CASE pulling < header
    <3>1. Scan(pulling + 1) /\ pulling' = pulling + 1
      BY <1>4, <2>2 DEF PullUntil
    <3>2. /\ utxoset' \cup unmatureds' = LiveIn(same, chain, acct, pulling + 1)
          /\ \A c \in utxoset' : c[1] = "reward" => Len(chain) > c[2] + Maturity
      BY <2>1, <2>2, <3>1, ScanStep
    <3>3. QED
      BY <1>1, <2>1, <3>1, <3>2 DEF Scanned
  <2>3. CASE ~ (pulling < header)
    <3>1. pc' = "ensure" /\ utxoset' = utxoset
      BY <1>4, <2>3 DEF PullUntil
    <3>2. QED
      BY <1>2, <3>1 DEF Scanned
  <2>4. QED
    BY <2>2, <2>3
<1>5. CASE Main /\ EnsurePull
  <2>1. PullFrom(pulling) /\ pc = "pull" /\ pc' = "ensure" /\ chain' = chain
    BY <1>5 DEF EnsurePull, nodeVars
  <2>2. QED
    BY <2>1, PullRipe DEF Scanned
<1>6. CASE Main /\ (EnsureTemplate \/ EnsureSubmit \/ Spawn)
  <2>1. utxoset' = utxoset /\ pc' # "until"
    BY <1>6 DEF EnsureTemplate, EnsureSubmit, Spawn, scanVars
  <2>2. QED
    BY <1>2, <2>1 DEF Scanned
<1>7. CASE ~ Main
  <2>1. /\ pc' = pc /\ pulling' = pulling /\ utxoset' = utxoset /\ unmatureds' = unmatureds
        /\ acct' = acct
    BY <1>7, Leaves
  <2>2. pulling \in 0..Len(chain)
    BY ShapeTyped DEF TypedTo
  <2>3. LiveIn(same, chain', acct, pulling) = LiveIn(same, chain, acct, pulling)
    BY <1>1, <2>2
  <2>4. pc' = "until" =>
          utxoset' \cup unmatureds' = LiveIn(same', chain', acct', pulling')
    BY <1>1, <2>1, <2>3 DEF Scanned
  <2>5. QED
    BY <1>2, <2>1, <2>4 DEF Scanned
<1>8. QED
  BY <1>3, <1>4, <1>5, <1>6, <1>7 DEF Main

LEMMA AlwaysScanned == Spec => [](Shape /\ Quiet /\ Scanned)
<1>1. Init => Shape /\ Quiet /\ Scanned
  BY InitShape, InitQuiet, InitScanned
<1>2. Shape /\ Quiet /\ Scanned /\ [Next]_vars => (Shape /\ Quiet /\ Scanned)'
  BY NextShape, NextQuiet, NextScanned
<1>3. QED
  BY <1>1, <1>2, PTL DEF Spec

-----------------------------------------------------------------------------
(* Nothing is left out                                                     *)

LEMMA DueShrinks ==
  ASSUME Shape, [Next]_vars, acct' = acct, header' = header
  PROVE  Due' \subseteq Due
<1>1. same' = same /\ MovedIn(chain, Len(chain)) \subseteq MovedIn(chain', Len(chain'))
  BY ChainStep
<1>2. LiveIn(same, chain', "bencher", header) = LiveIn(same, chain, "bencher", header)
  <2>1. header \in 0..Len(chain)
    BY ShapeTyped DEF TypedTo
  <2>2. QED
    BY <2>1, ChainStep
<1>3. CASE acct = "miner"
  BY <1>1, <1>3 DEF Due
<1>4. CASE acct # "miner"
  BY <1>1, <1>2, <1>4 DEF Due
<1>5. QED
  BY <1>3, <1>4

(* What pull_until has found when it ends.                                 *)
LEMMA DueFound ==
  ASSUME Shape, Scanned, pc = "until", ~ (pulling < header)
  PROVE  Due \subseteq utxoset \cup unmatureds
<1>1. pulling = header /\ header \in 0..Len(chain) /\ IsChain(chain) /\ acct \in Account
  BY ShapeTyped DEF TypedTo, Shape, TypeOK
<1>2. utxoset \cup unmatureds = LiveIn(same, chain, acct, header)
  BY <1>1 DEF Scanned
<1>3. MovedIn(chain, header) \subseteq MovedIn(chain, Len(chain))
  BY <1>1, MovedBefore
<1>4. CASE acct = "miner"
  BY <1>2, <1>3, <1>4 DEF Due, LiveIn
<1>5. CASE acct = "bencher"
  BY <1>2, <1>5 DEF Due
<1>6. QED
  BY <1>1, <1>4, <1>5 DEF Account

(* pull_from_block_number removes nothing that is due.                     *)
LEMMA DuePulled ==
  ASSUME Shape, Kept, pc = "pull", PullFrom(pulling)
  PROVE  Due \subseteq utxoset' \cup unmatureds'
<1>1. /\ pulling \in 1..Len(chain) /\ acct \in Account
  BY ShapeTyped DEF TypedTo, Shape, TypeOK
<1>2. Due \cap SpentIn(pulling) = {}
  <2>1. chain[pulling] \subseteq MovedIn(chain, Len(chain))
    BY <1>1 DEF MovedIn
  <2>2. CASE acct = "miner"
    <3>1. Due = {Reward(m) : m \in (1..header) \ MovedIn(chain, Len(chain))}
      BY <2>2 DEF Due
    <3>2. QED
      BY <2>1, <3>1, CellsDiffer DEF SpentIn
  <2>3. CASE acct = "bencher" /\ same
    <3>1. chain[pulling] = {}
      BY <2>3 DEF Kept
    <3>2. QED
      BY <3>1 DEF SpentIn
  <2>4. CASE acct = "bencher" /\ ~ same
    <3>1. Due = {Paid(m) : m \in MovedIn(chain, header)}
      BY <2>4 DEF Due, LiveIn
    <3>2. QED
      BY <3>1, CellsDiffer DEF SpentIn
  <2>5. QED
    BY <1>1, <2>2, <2>3, <2>4 DEF Account
<1>3. (utxoset \cup unmatureds) \ SpentIn(pulling) \subseteq utxoset' \cup unmatureds'
  BY DEF PullFrom
<1>4. QED
  BY <1>2, <1>3 DEF Kept

LEMMA KeptDue ==
  ASSUME Shape, Scanned, Kept, [Next]_vars
  PROVE  pc' \in {"ensure", "submit", "pull"} => Due' \subseteq utxoset' \cup unmatureds'
<1>1. CASE Main /\ Confirmed
  BY <1>1 DEF Confirmed
<1>2. CASE Main /\ PullUntil
  <2>1. acct' = acct /\ header' = header /\ pc = "until"
    BY <1>2 DEF PullUntil
  <2>2. CASE pulling < header
    BY <1>2, <2>1, <2>2 DEF PullUntil
  <2>3. CASE ~ (pulling < header)
    <3>1. utxoset' = utxoset /\ unmatureds' = unmatureds
      BY <1>2, <2>3 DEF PullUntil
    <3>2. QED
      BY <2>1, <2>3, <3>1, DueFound, DueShrinks
  <2>4. QED
    BY <2>2, <2>3
<1>3. CASE Main /\ (EnsureTemplate \/ EnsureSubmit)
  <2>1. /\ acct' = acct /\ header' = header /\ pc \in {"ensure", "submit"}
        /\ utxoset' = utxoset /\ unmatureds' = unmatureds
    BY <1>3 DEF EnsureTemplate, EnsureSubmit, scanVars
  <2>2. QED
    BY <2>1, DueShrinks DEF Kept
<1>4. CASE Main /\ EnsurePull
  <2>1. acct' = acct /\ header' = header /\ pc = "pull" /\ PullFrom(pulling)
    BY <1>4 DEF EnsurePull
  <2>2. QED
    BY <2>1, DuePulled, DueShrinks
<1>5. CASE Main /\ Spawn
  BY <1>5 DEF Spawn
<1>6. CASE ~ Main
  <2>1. /\ acct' = acct /\ header' = header /\ pc' = pc
        /\ utxoset' = utxoset /\ unmatureds' = unmatureds
    BY <1>6, Leaves
  <2>2. QED
    BY <2>1, DueShrinks DEF Kept
<1>7. QED
  BY <1>1, <1>2, <1>3, <1>4, <1>5, <1>6 DEF Main

(* The blocks that are mined before the transfer thread is spawned.        *)
LEMMA MinesNothing ==
  ASSUME Shape, Quiet, [Next]_vars, transfer = "off",
         NEW k \in 1..(Len(chain) + 1), \A n \in 1..Len(chain) : n >= k => chain[n] = {}
  PROVE  \A n \in 1..Len(chain') : n >= k => chain'[n] = {}
<1>1. Len(chain) \in Nat /\ \A n \in 1..Len(chain) : chain'[n] = chain[n]
  BY ChainStep
<1>2. CASE chain' = chain
  BY <1>2
<1>3. ASSUME NEW t \in Thread, Mines(t)
      PROVE  \A n \in 1..Len(chain') : n >= k => chain'[n] = {}
  <2>1. Len(chain') = Len(chain) + 1 /\ chain'[Len(chain) + 1] = {}
    BY <1>3 DEF Mines, Quiet
  <2>2. QED
    BY <1>1, <2>1
<1>4. QED
  BY <1>2, <1>3, ChainStep

LEMMA KeptSame ==
  ASSUME Shape, Quiet, Kept, [Next]_vars, same
  PROVE  /\ pc' = "submit" =>
              \A n \in 1..Len(chain') : n >= template'["main"][1] => chain'[n] = {}
         /\ pc' = "pull" => chain'[pulling'] = {}
<1>1. /\ Len(chain) \in Nat /\ "main" \in Thread /\ transfer = "off"
      /\ TypedTo(Len(chain))
  BY ShapeTyped DEF Thread, Quiet
<1>2. CASE Main /\ EnsureTemplate
  <2>1. template'["main"][1] = Len(chain) + 1 /\ chain' = chain /\ pc' = "submit"
    BY <1>1, <1>2, TemplateTyped DEF EnsureTemplate, nodeVars
  <2>2. QED
    BY <1>1, <2>1
<1>3. CASE Main /\ EnsureSubmit
  <2>1. PICK accepted \in BOOLEAN :
          /\ Submit("main", accepted)
          /\ IF accepted THEN pulling' = template["main"][1] /\ pc' = "pull"
             ELSE pc' = "ensure"
    BY <1>3 DEF EnsureSubmit
  <2>2. pc = "submit" /\ template["main"][1] \in 1..(Len(chain) + 1)
    BY <1>1, <1>3, <2>1, Submitted DEF EnsureSubmit
  <2>3. chain'[template["main"][1]] = {}
    <3>1. CASE chain' = chain /\ template["main"][1] <= Len(chain)
      <4>1. template["main"][1] \in 1..Len(chain)
        BY <1>1, <2>2, <3>1
      <4>2. \A n \in 1..Len(chain) : n >= template["main"][1] => chain[n] = {}
        BY <2>2 DEF Kept
      <4>3. QED
        BY <1>1, <3>1, <4>1, <4>2
    <3>2. CASE Mines("main")
      BY <1>1, <3>2 DEF Mines, Quiet
    <3>3. QED
      BY <1>1, <2>1, <3>1, <3>2, SubmitMines
  <2>4. QED
    BY <2>1, <2>3
<1>4. CASE Main /\ (Confirmed \/ PullUntil \/ EnsurePull \/ Spawn)
  BY <1>4 DEF Confirmed, PullUntil, EnsurePull, Spawn
<1>5. CASE ~ Main
  <2>1. pc' = pc /\ pulling' = pulling
    BY <1>5, Leaves
  <2>2. ASSUME pc = "submit"
        PROVE  \A n \in 1..Len(chain') : n >= template'["main"][1] => chain'[n] = {}
    <3>1. template["main"] # <<>> /\ template["main"][1] <= Len(chain) + 1
      BY <1>1, <2>2 DEF Shape
    <3>2. template["main"] \in (1..MaxHeight) \X SUBSET (1..Len(chain))
      BY <1>1, <3>1 DEF TypedTo
    <3>3. template["main"][1] \in 1..(Len(chain) + 1)
      BY <1>1, <3>1, <3>2, StartupAssumption
    <3>4. template'["main"] = template["main"]
      <4>1. template'["main"] # <<>>
        BY <2>1, <2>2, NextShape DEF Shape
      <4>2. QED
        BY <1>1, <3>1, <4>1, TemplateStep
    <3>5. \A n \in 1..Len(chain) : n >= template["main"][1] => chain[n] = {}
      BY <2>2 DEF Kept
    <3>6. PICK k \in 1..(Len(chain) + 1) : k = template["main"][1]
      BY <3>3
    <3>7. \A n \in 1..Len(chain') : n >= k => chain'[n] = {}
      <4>1. \A n \in 1..Len(chain) : n >= k => chain[n] = {}
        BY <3>5, <3>6
      <4>2. QED
        BY <1>1, <4>1, MinesNothing
    <3>8. QED
      BY <3>4, <3>6, <3>7
  <2>3. ASSUME pc = "pull"
        PROVE  chain'[pulling] = {}
    <3>1. pulling \in 1..Len(chain)
      BY <1>1, <2>3 DEF TypedTo, Shape
    <3>2. QED
      BY <2>3, <3>1, ChainStep DEF Kept
  <2>4. QED
    BY <2>1, <2>2, <2>3
<1>6. QED
  BY <1>2, <1>3, <1>4, <1>5 DEF Main

(* The lists after a turn of pull_forever.                                 *)
LEMMA FollowedHeld ==
  ASSUME Shape, NEW a \in Account, Follow(a)
  PROVE  /\ at[a] + 1 \in 1..Len(chain)
         /\ at' = [at EXCEPT ![a] = at[a] + 1]
         /\ Held(a)' = (Held(a) \cup MaturedIn(a, at[a] + 1)) \cup UnmaturedIn(a, at[a] + 1)
         /\ \A b \in Account : b # a => Held(b)' = Held(b) /\ at'[b] = at[b]
<1>1. PICK n \in 1..Len(chain), k \in 0..Len(waiting[a]) :
        \E s \in Orders(MaturedIn(a, n)), u \in Orders(UnmaturedIn(a, n)) :
          /\ n = at[a] + 1
          /\ at' = [at EXCEPT ![a] = n]
          /\ chan' = [chan EXCEPT ![a] = (chan[a] \o s) \o SubSeq(waiting[a], 1, k)]
          /\ waiting' =
               [waiting EXCEPT ![a] = SubSeq(waiting[a], k + 1, Len(waiting[a])) \o u]
  BY Followed
<1>2. PICK s \in Orders(MaturedIn(a, n)), u \in Orders(UnmaturedIn(a, n)) :
        /\ n = at[a] + 1
        /\ at' = [at EXCEPT ![a] = n]
        /\ chan' = [chan EXCEPT ![a] = (chan[a] \o s) \o SubSeq(waiting[a], 1, k)]
        /\ waiting' =
             [waiting EXCEPT ![a] = SubSeq(waiting[a], k + 1, Len(waiting[a])) \o u]
  BY <1>1
<1>3. /\ at \in [Account -> 0..Len(chain)] /\ waiting \in [Account -> Seq(Cells)]
      /\ chan \in [Account -> Seq(Cells)]
  BY DEF Shape, TypeOK
<1>4. PICK w \in Seq(Cells), c \in Seq(Cells) : w = waiting[a] /\ c = chan[a]
  BY <1>3
<1>5. PICK p, q : p = SubSeq(w, 1, k) /\ q = SubSeq(w, k + 1, Len(w))
  OBVIOUS
<1>6. p \in Seq(Cells) /\ q \in Seq(Cells) /\ Range(w) = Range(p) \cup Range(q)
  BY <1>4, <1>5, CutInTwo
<1>7. /\ s \in Seq(Cells) /\ Range(s) = MaturedIn(a, n)
      /\ u \in Seq(Cells) /\ Range(u) = UnmaturedIn(a, n)
  BY FollowedTyped
<1>8. /\ c \o s \in Seq(Cells) /\ Range(c \o s) = Range(c) \cup Range(s)
      /\ Range((c \o s) \o p) = Range(c \o s) \cup Range(p)
      /\ Range(q \o u) = Range(q) \cup Range(u)
  <2>1. c \o s \in Seq(Cells) /\ Range(c \o s) = Range(c) \cup Range(s)
    BY <1>7, RangeOfConcat
  <2>2. Range((c \o s) \o p) = Range(c \o s) \cup Range(p)
    <3>1. PICK t \in Seq(Cells), r \in Seq(Cells) : t = c \o s /\ r = p
      BY <1>6, <2>1
    <3>2. Range(t \o r) = Range(t) \cup Range(r)
      BY RangeOfConcat
    <3>3. QED
      BY <3>1, <3>2
  <2>3. Range(q \o u) = Range(q) \cup Range(u)
    BY <1>6, <1>7, RangeOfConcat
  <2>4. QED
    BY <2>1, <2>2, <2>3
<1>9. chan'[a] = (c \o s) \o p /\ waiting'[a] = q \o u
  BY <1>2, <1>3, <1>4, <1>5
<1>10. Held(a)' = Range(chan'[a]) \cup Range(waiting'[a])
  BY DEF Held
<1>11. Held(a)' = (Held(a) \cup MaturedIn(a, n)) \cup UnmaturedIn(a, n)
  <2>1. Held(a) = Range(c) \cup Range(w)
    BY <1>4 DEF Held
  <2>2. QED
    BY <1>6, <1>7, <1>8, <1>9, <1>10, <2>1
<1>12. ASSUME NEW b \in Account, b # a
       PROVE  Held(b)' = Held(b) /\ at'[b] = at[b]
  <2>1. chan'[b] = chan[b] /\ waiting'[b] = waiting[b] /\ at'[b] = at[b]
    BY <1>2, <1>3, <1>12
  <2>2. QED
    BY <2>1 DEF Held
<1>13. QED
  BY <1>2, <1>11, <1>12

(* The lists after the hand-over.                                          *)
LEMMA SpawnedHeld ==
  ASSUME Shape, Spawn
  PROVE  /\ at' = [at EXCEPT ![acct] = header]
         /\ chan'[acct] \in Seq(Cells) /\ Range(chan'[acct]) = utxoset
         /\ IsInjective(chan'[acct])
         /\ waiting'[acct] \in Seq(Cells) /\ Range(waiting'[acct]) = unmatureds
         /\ IsInjective(waiting'[acct])
         /\ \A b \in Account : b # acct =>
              chan'[b] = chan[b] /\ waiting'[b] = waiting[b] /\ at'[b] = at[b]
<1>1. PICK s, u :
        /\ waiting' = [waiting EXCEPT ![acct] = s]
        /\ chan' = [chan EXCEPT ![acct] = u]
        /\ s \in Seq(Cells) /\ Range(s) = unmatureds /\ IsInjective(s)
        /\ u \in Seq(Cells) /\ Range(u) = utxoset /\ IsInjective(u)
  BY HandedOver
<1>2. /\ at \in [Account -> 0..Len(chain)] /\ waiting \in [Account -> Seq(Cells)]
      /\ chan \in [Account -> Seq(Cells)] /\ acct \in Account
  BY DEF Shape, TypeOK
<1>3. at' = [at EXCEPT ![acct] = header]
  BY DEF Spawn, FollowFrom
<1>4. chan'[acct] = u /\ waiting'[acct] = s
  BY <1>1, <1>2
<1>5. \A b \in Account : b # acct =>
        chan'[b] = chan[b] /\ waiting'[b] = waiting[b] /\ at'[b] = at[b]
  BY <1>1, <1>2, <1>3
<1>6. QED
  BY <1>1, <1>3, <1>4, <1>5

(* The other steps leave them, but for the transfer of a cell.             *)
LEMMA OthersHeld ==
  ASSUME Shape, [Next]_vars, ~ (Main /\ Spawn), \A a \in Account : ~ Follow(a)
  PROVE  /\ at' = at /\ waiting' = waiting
         /\ ~ TransferCell => chan' = chan
         /\ chan'["bencher"] = chan["bencher"]
         /\ (pc' = "done") <=> (pc = "done")
<1>1. chan \in [Account -> Seq(Cells)] /\ "bencher" \in Account
  BY DEF Shape, TypeOK, Account
<1>2. CASE Main
  BY <1>2 DEF Main, Confirmed, PullUntil, EnsureTemplate, EnsureSubmit, EnsurePull,
              monitorVars
<1>3. CASE TransferCell
  BY <1>1, <1>3 DEF TransferCell
<1>4. CASE ~ Main /\ ~ TransferCell
  BY <1>4, Leaves
<1>5. QED
  BY <1>2, <1>3, <1>4

LEMMA KeptMiner ==
  ASSUME Shape, Quiet, Kept, [Next]_vars, transfer' = "on",
         NEW m \in (1..at'["miner"]) \ (MovedIn(chain', Len(chain')) \cup pool')
  PROVE  Reward(m) \in Held("miner")'
<1>1. /\ "miner" \in Account /\ Len(chain) \in Nat
      /\ at \in [Account -> 0..Len(chain)] /\ acct \in Account
      /\ MovedIn(chain, Len(chain)) \subseteq MovedIn(chain', Len(chain'))
  BY ShapeTyped, ChainStep DEF Account, Shape, TypeOK
<1>2. pool \subseteq pool' \cup MovedIn(chain', Len(chain'))
  BY TemplateStep
<1>3. m \notin MovedIn(chain, Len(chain)) \cup pool
  BY <1>1, <1>2
<1>4. Held("miner")' = Range(chan'["miner"]) \cup Range(waiting'["miner"])
  BY DEF Held
<1>5. ASSUME transfer = "on", m \in 1..at["miner"]
      PROVE  Reward(m) \in Held("miner")
  BY <1>3, <1>5 DEF Kept
<1>6. CASE Main /\ Spawn /\ acct = "miner"
  <2>1. /\ Range(chan'["miner"]) = utxoset /\ Range(waiting'["miner"]) = unmatureds
        /\ at'["miner"] = header /\ pc = "ensure"
    BY <1>1, <1>6, SpawnedHeld DEF Spawn
  <2>2. Due \subseteq utxoset \cup unmatureds
    BY <2>1 DEF Kept
  <2>3. m \in (1..header) \ MovedIn(chain, Len(chain))
    BY <1>3, <2>1
  <2>4. Reward(m) \in Due
    BY <1>6, <2>3 DEF Due
  <2>5. QED
    BY <1>4, <2>1, <2>2, <2>4
<1>7. CASE Main /\ Spawn /\ acct # "miner"
  <2>1. /\ chan'["miner"] = chan["miner"] /\ waiting'["miner"] = waiting["miner"]
        /\ at'["miner"] = at["miner"]
    BY <1>1, <1>7, SpawnedHeld
  <2>2. transfer = "on"
    BY <1>7 DEF Spawn
  <2>3. QED
    BY <1>4, <1>5, <2>1, <2>2 DEF Held
<1>8. ASSUME NEW a \in Account, Follow(a)
      PROVE  Reward(m) \in Held("miner")'
  <2>1. transfer = "on"
    BY <1>8 DEF Follow
  <2>2. CASE a = "miner"
    <3>1. /\ at'["miner"] = at["miner"] + 1
          /\ Held("miner")' = (Held("miner") \cup MaturedIn("miner", at["miner"] + 1))
                                \cup UnmaturedIn("miner", at["miner"] + 1)
      BY <1>1, <1>8, <2>2, FollowedHeld
    <3>2. UnmaturedIn("miner", at["miner"] + 1) = {Reward(at["miner"] + 1)}
      BY DEF UnmaturedIn
    <3>3. CASE m = at["miner"] + 1
      BY <3>1, <3>2, <3>3
    <3>4. CASE m # at["miner"] + 1
      <4>1. m \in 1..at["miner"]
        BY <1>1, <3>1, <3>4
      <4>2. QED
        BY <1>5, <2>1, <3>1, <4>1
    <3>5. QED
      BY <3>3, <3>4
  <2>3. CASE a # "miner"
    <3>1. Held("miner")' = Held("miner") /\ at'["miner"] = at["miner"]
      BY <1>1, <1>8, <2>3, FollowedHeld
    <3>2. QED
      BY <1>5, <2>1, <3>1
  <2>4. QED
    BY <2>2, <2>3
<1>9. CASE TransferCell
  <2>1. PICK d \in 1..Len(chain) :
          /\ chan["miner"] # <<>> /\ d = NumberOf(Head(chan["miner"]))
          /\ chan' = [chan EXCEPT !["miner"] = Tail(chan["miner"])]
          /\ \/ transfer' \in {"spent", "full"}
             \/ pool' = pool \cup {d}
    BY <1>9, Transferred
  <2>2. transfer = "on" /\ at' = at /\ waiting' = waiting
    BY <1>9 DEF TransferCell
  <2>3. Reward(m) \in Held("miner")
    BY <1>5, <2>2
  <2>4. m # d
    BY <2>1
  <2>5. chan \in [Account -> Seq(Cells)]
    BY DEF Shape, TypeOK
  <2>6. /\ Range(chan["miner"]) = {Head(chan["miner"])} \cup Range(Tail(chan["miner"]))
        /\ chan'["miner"] = Tail(chan["miner"])
    <3>1. chan["miner"] \in Seq(Cells)
      BY <1>1, <2>5
    <3>2. QED
      BY <1>1, <2>1, <2>5, <3>1, TailOfInjective
  <2>7. Reward(m) # Head(chan["miner"])
    BY <2>1, <2>4, CellsDiffer
  <2>8. QED
    BY <1>4, <2>2, <2>3, <2>6, <2>7 DEF Held
<1>10. CASE ~ (Main /\ Spawn) /\ (\A a \in Account : ~ Follow(a)) /\ ~ TransferCell
  <2>1. at' = at /\ waiting' = waiting /\ chan' = chan /\ transfer' = transfer
    BY <1>10, OthersHeld, Leaves
  <2>2. QED
    BY <1>4, <1>5, <2>1 DEF Held
<1>11. QED
  BY <1>6, <1>7, <1>8, <1>9, <1>10

LEMMA KeptBencher ==
  ASSUME Shape, Kept, [Next]_vars, pc' = "done"
  PROVE  LiveIn(same', chain', "bencher", at'["bencher"]) \subseteq Held("bencher")'
<1>1. /\ "bencher" \in Account /\ Len(chain) \in Nat /\ IsChain(chain)
      /\ at \in [Account -> 0..Len(chain)] /\ acct \in Account /\ same \in BOOLEAN
      /\ header \in 0..Len(chain) /\ same' = same
      /\ \A n \in 0..Len(chain) : \A s, a :
           LiveIn(s, chain', a, n) = LiveIn(s, chain, a, n)
  BY ShapeTyped, ChainStep DEF Account, Shape, TypeOK
<1>2. Held("bencher")' = Range(chan'["bencher"]) \cup Range(waiting'["bencher"])
  BY DEF Held
<1>3. pc = "done" => LiveIn(same, chain', "bencher", at["bencher"]) \subseteq Held("bencher")
  <2>1. at["bencher"] \in 0..Len(chain)
    BY <1>1
  <2>2. LiveIn(same, chain', "bencher", at["bencher"])
          = LiveIn(same, chain, "bencher", at["bencher"])
    BY <1>1, <2>1
  <2>3. QED
    BY <2>2 DEF Kept
<1>4. CASE Main /\ Spawn
  <2>1. acct = "bencher" /\ pc = "ensure"
    BY <1>1, <1>4 DEF Spawn, Account
  <2>2. /\ Range(chan'["bencher"]) = utxoset /\ Range(waiting'["bencher"]) = unmatureds
        /\ at'["bencher"] = header
    BY <1>1, <1>4, <2>1, SpawnedHeld
  <2>3. LiveIn(same, chain, "bencher", header) \subseteq utxoset \cup unmatureds
    BY <2>1 DEF Kept, Due
  <2>4. LiveIn(same, chain', "bencher", header) = LiveIn(same, chain, "bencher", header)
    BY <1>1
  <2>5. QED
    BY <1>1, <1>2, <2>2, <2>3, <2>4
<1>5. ASSUME NEW a \in Account, Follow(a)
      PROVE  LiveIn(same', chain', "bencher", at'["bencher"]) \subseteq Held("bencher")'
  <2>1. pc = "done"
    BY <1>5 DEF Follow
  <2>2. CASE a = "bencher"
    <3>1. PICK n \in Nat : n = at["bencher"]
      BY <1>1
    <3>2. /\ n + 1 \in 1..Len(chain) /\ at'["bencher"] = n + 1
          /\ Held("bencher")' = (Held("bencher") \cup MaturedIn("bencher", n + 1))
                                  \cup UnmaturedIn("bencher", n + 1)
      BY <1>1, <1>5, <2>2, <3>1, FollowedHeld
    <3>3. LiveIn(same, chain, "bencher", n + 1) \subseteq
            (LiveIn(same, chain, "bencher", n) \cup MaturedIn("bencher", n + 1))
              \cup UnmaturedIn("bencher", n + 1)
      <4>1. n + 1 <= Len(chain)
        BY <1>1, <3>2
      <4>2. /\ MaturedIn("bencher", n + 1) = {Paid(m) : m \in chain[n + 1]}
            /\ UnmaturedIn("bencher", n + 1) = IF same THEN {Reward(n + 1)} ELSE {}
        BY DEF MaturedIn, UnmaturedIn
      <4>3. LiveIn(same, chain, "bencher", n + 1) =
              ((LiveIn(same, chain, "bencher", n)
                  \cup (IF "bencher" = "bencher" THEN {Paid(m) : m \in chain[n + 1]} ELSE {}))
                  \cup (IF "bencher" = "miner" \/ same THEN {Reward(n + 1)} ELSE {}))
                \ {Reward(m) : m \in chain[n + 1]}
        BY <1>1, <4>1, LiveNext
      <4>4. QED
        BY <4>2, <4>3
    <3>4. LiveIn(same, chain, "bencher", n) \subseteq Held("bencher")
      BY <2>1, <3>1 DEF Kept
    <3>5. LiveIn(same, chain', "bencher", n + 1) = LiveIn(same, chain, "bencher", n + 1)
      BY <1>1, <3>2
    <3>6. QED
      BY <1>1, <3>2, <3>3, <3>4, <3>5
  <2>3. CASE a # "bencher"
    <3>1. Held("bencher")' = Held("bencher") /\ at'["bencher"] = at["bencher"]
      BY <1>1, <1>5, <2>3, FollowedHeld
    <3>2. QED
      BY <1>1, <1>3, <2>1, <3>1
  <2>4. QED
    BY <2>2, <2>3
<1>6. CASE ~ (Main /\ Spawn) /\ (\A a \in Account : ~ Follow(a))
  <2>1. /\ at' = at /\ waiting' = waiting /\ chan'["bencher"] = chan["bencher"]
        /\ pc = "done"
    BY <1>6, OthersHeld
  <2>2. QED
    BY <1>1, <1>2, <1>3, <2>1 DEF Held
<1>7. QED
  BY <1>4, <1>5, <1>6

LEMMA InitKept ==
  ASSUME Init
  PROVE  Kept
<1>1. pc = "scan" /\ transfer = "off"
  BY DEF Init
<1>2. QED
  BY <1>1 DEF Kept

LEMMA AlwaysKept == Spec => []Kept
<1>1. Shape /\ Quiet /\ Scanned /\ Kept /\ [Next]_vars => Kept'
  <2> SUFFICES ASSUME Shape, Quiet, Scanned, Kept, [Next]_vars
               PROVE  Kept'
    OBVIOUS
  <2>1. pc' \in {"ensure", "submit", "pull"} => Due' \subseteq utxoset' \cup unmatureds'
    BY KeptDue
  <2>2. same' = same
    BY ChainStep
  <2>3. /\ same' /\ pc' = "submit" =>
             \A n \in 1..Len(chain') : n >= template'["main"][1] => chain'[n] = {}
        /\ same' /\ pc' = "pull" => chain'[pulling'] = {}
    BY <2>2, KeptSame
  <2>4. transfer' = "on" =>
          \A m \in (1..at'["miner"]) \ (MovedIn(chain', Len(chain')) \cup pool') :
            Reward(m) \in Held("miner")'
    BY KeptMiner
  <2>5. pc' = "done" =>
          LiveIn(same', chain', "bencher", at'["bencher"]) \subseteq Held("bencher")'
    BY KeptBencher
  <2>6. QED
    BY <2>1, <2>3, <2>4, <2>5 DEF Kept
<1>2. QED
  BY <1>1, InitKept, AlwaysScanned, PTL DEF Spec

(* The hand-over from the main thread to the chain monitor leaves no cell  *)
(* out, whatever the background miner did meanwhile.                       *)
THEOREM HandOverIsComplete == Spec => []NothingLeftOut
<1>1. Kept => NothingLeftOut
  <2> SUFFICES ASSUME Kept PROVE NothingLeftOut
    OBVIOUS
  <2>1. Moved = MovedIn(chain, Len(chain))
    BY DEF Moved, MovedBy, MovedIn
  <2>2. LiveAt("bencher", at["bencher"]) = LiveIn(same, chain, "bencher", at["bencher"])
    BY DEF LiveAt, MovedBy, LiveIn, MovedIn
  <2>3. QED
    BY <2>1, <2>2 DEF Kept, NothingLeftOut, Held
<1>2. QED
  BY <1>1, AlwaysKept, PTL

-----------------------------------------------------------------------------
(* What is counted is live                                                 *)

LEMMA TransferStarts ==
  ASSUME Shape, [Next]_vars, transfer' = "off"
  PROVE  transfer = "off"
<1>1. transfer \in {"off", "on", "spent", "full"}
  BY DEF Shape, TypeOK
<1>2. CASE TransferCell
  <2>1. transfer' \in {"on", "spent", "full"}
    BY <1>2, Transferred
  <2>2. QED
    BY <2>1
<1>3. CASE Main /\ Spawn
  BY <1>3 DEF Spawn
<1>4. CASE ~ TransferCell /\ ~ (Main /\ Spawn)
  BY <1>4, Leaves
<1>5. QED
  BY <1>2, <1>3, <1>4

(* The blocks that are not confirmed.                                      *)
LEMMA CountedSettled ==
  ASSUME Shape, Quiet, Counted, [Next]_vars, transfer' = "off",
         NEW n \in 1..Len(chain'), n + Confirmation > Len(chain')
  PROVE  chain'[n] = {}
<1>1. /\ transfer = "off" /\ Confirmation \in Nat
      /\ Len(chain) \in Nat /\ Len(chain') \in Nat /\ Len(chain) <= Len(chain')
      /\ \A i \in 1..Len(chain) : chain'[i] = chain[i]
  BY TransferStarts, ChainStep, StartupAssumption
<1>2. CASE n \in 1..Len(chain)
  <2>1. n + Confirmation > Len(chain)
    BY <1>1
  <2>2. QED
    BY <1>1, <1>2, <2>1 DEF Counted
<1>3. CASE n \notin 1..Len(chain)
  <2>1. chain' # chain
    BY <1>3
  <2>2. PICK t \in Thread : Mines(t)
    BY <2>1, ChainStep
  <2>3. n = Len(chain) + 1
    BY <1>1, <1>3, <2>2 DEF Mines
  <2>4. QED
    BY <1>1, <2>2, <2>3 DEF Mines, Quiet
<1>4. QED
  BY <1>2, <1>3

(* The blocks above the tip that was confirmed.                            *)
LEMMA CountedAbove ==
  ASSUME Shape, Quiet, Counted, [Next]_vars,
         pc' \notin {"scan", "done"}, acct' = "miner" \/ same',
         NEW n \in 1..Len(chain'), n > header'
  PROVE  chain'[n] = {}
<1>1. /\ Len(chain) \in Nat /\ same' = same /\ Confirmation \in Nat
      /\ header \in 0..Len(chain)
      /\ \A i \in 1..Len(chain) : chain'[i] = chain[i]
  BY ShapeTyped, ChainStep, StartupAssumption DEF TypedTo
<1>2. acct' = acct
  <2>1. ~ (Main /\ Spawn)
    BY DEF Spawn
  <2>2. QED
    BY <2>1, Leaves
<1>3. transfer = "off"
  BY <1>1, <1>2 DEF Quiet
<1>4. CASE Main /\ Confirmed
  <2>1. header' = ConfirmedNumber /\ chain' = chain
    BY <1>4 DEF Confirmed, nodeVars
  <2>2. n + Confirmation > Len(chain)
    BY <1>1, <2>1 DEF ConfirmedNumber
  <2>3. QED
    BY <1>3, <2>1, <2>2 DEF Counted
<1>5. CASE ~ (Main /\ Confirmed)
  <2>1. header' = header /\ pc \notin {"scan", "done"}
    <3>1. CASE Main
      BY <1>5, <3>1 DEF Main, PullUntil, EnsureTemplate, EnsureSubmit, EnsurePull, Spawn,
                        scanVars
    <3>2. CASE ~ Main
      BY <3>2, Leaves
    <3>3. QED
      BY <3>1, <3>2
  <2>2. PICK k \in 1..(Len(chain) + 1) : k = header + 1
    BY <1>1
  <2>3. ASSUME NEW i \in 1..Len(chain), i >= k
        PROVE  chain[i] = {}
    <3>1. i > header
      BY <1>1, <2>2, <2>3
    <3>2. QED
      BY <1>1, <1>2, <2>1, <3>1 DEF Counted
  <2>4. \A i \in 1..Len(chain') : i >= k => chain'[i] = {}
    BY <1>3, <2>3, MinesNothing
  <2>5. n >= k
    <3>1. n \in Nat /\ n > header
      BY <2>1
    <3>2. QED
      BY <1>1, <2>2, <3>1
  <2>6. QED
    BY <2>4, <2>5
<1>6. QED
  BY <1>4, <1>5

(* What is live stays so when the chain grows.                             *)
LEMMA LiveStays ==
  ASSUME Shape, Quiet, [Next]_vars
  PROVE  LiveIn(same, chain, acct, Len(chain)) \subseteq LiveIn(same, chain', acct, Len(chain'))
<1>1. CASE chain' = chain
  BY <1>1
<1>2. ASSUME NEW t \in Thread, Mines(t)
      PROVE  LiveIn(same, chain, acct, Len(chain))
               \subseteq LiveIn(same, chain', acct, Len(chain'))
  <2>1. PICK ch : ch = chain'
    OBVIOUS
  <2>2. PICK n \in Nat : n = Len(chain)
    BY ShapeTyped
  <2>3. ch = chain' /\ n = Len(chain)
    BY <2>1, <2>2
  <2>4. /\ Len(ch) = n + 1 /\ IsChain(ch) /\ ch[n + 1] = template[t][2]
        /\ same \in BOOLEAN /\ acct \in Account
    BY <1>2, <2>3, ChainStep DEF Mines, Shape, TypeOK
  <2>5. PICK P : P = {Reward(m) : m \in ch[n + 1]}
    OBVIOUS
  <2>6. LiveIn(same, ch, acct, n) \ P \subseteq LiveIn(same, ch, acct, n + 1)
    <3>1. n + 1 <= Len(ch)
      BY <2>4
    <3>2. LiveIn(same, ch, acct, n + 1) =
            ((LiveIn(same, ch, acct, n)
                \cup (IF acct = "bencher" THEN {Paid(m) : m \in ch[n + 1]} ELSE {}))
                \cup (IF acct = "miner" \/ same THEN {Reward(n + 1)} ELSE {}))
              \ {Reward(m) : m \in ch[n + 1]}
      BY <2>4, <3>1, LiveNext
    <3>3. QED
      BY <2>5, <3>2
  <2>7. LiveIn(same, ch, acct, n) \cap P = {}
    <3>1. CASE acct = "miner" \/ same
      <4>1. ch[n + 1] = {}
        BY <1>2, <2>4, <3>1 DEF Mines, Quiet
      <4>2. QED
        BY <2>5, <4>1
    <3>2. CASE acct = "bencher" /\ ~ same
      <4>1. LiveIn(same, ch, acct, n) = {Paid(m) : m \in MovedIn(ch, n)}
        BY <3>2 DEF LiveIn
      <4>2. QED
        BY <2>5, <4>1, CellsDiffer
    <3>3. QED
      BY <2>4, <3>1, <3>2 DEF Account
  <2>8. LiveIn(same, ch, acct, n) = LiveIn(same, chain, acct, n)
    <3>1. n \in 0..Len(chain)
      BY <2>3
    <3>2. QED
      BY <2>3, <3>1, ChainStep
  <2>9. QED
    BY <2>3, <2>4, <2>6, <2>7, <2>8
<1>3. QED
  BY <1>1, <1>2, ChainStep

(* The rewards moved when nothing was moved above header.                  *)
LEMMA MovedBelow ==
  ASSUME Shape, Counted, pc \notin {"scan", "done"}, acct = "miner" \/ same
  PROVE  /\ MovedIn(chain, Len(chain)) = MovedIn(chain, header)
         /\ MovedIn(chain, Len(chain)) \subseteq 1..header
<1>1. IsChain(chain) /\ header \in 0..Len(chain)
  BY ShapeTyped DEF TypedTo
<1>2. \A i \in 1..Len(chain) : i > header => chain[i] = {}
  BY DEF Counted
<1>3. MovedIn(chain, Len(chain)) = MovedIn(chain, header)
  BY <1>1, <1>2, NoneMoved
<1>4. MovedIn(chain, header) \subseteq 1..header
  BY <1>1, MovedBefore
<1>5. QED
  BY <1>3, <1>4

LEMMA CountedFound ==
  ASSUME Shape, Scanned, Counted, pc = "until", ~ (pulling < header)
  PROVE  utxoset \cup unmatureds \subseteq LiveIn(same, chain, acct, Len(chain))
<1>1. /\ pulling = header /\ header \in 0..Len(chain) /\ IsChain(chain)
      /\ acct \in Account /\ same \in BOOLEAN /\ Len(chain) \in Nat
  BY ShapeTyped DEF TypedTo, Shape, TypeOK
<1>2. utxoset \cup unmatureds = LiveIn(same, chain, acct, header)
  BY <1>1 DEF Scanned
<1>3. (acct = "bencher" /\ ~ same) \/ MovedIn(chain, Len(chain)) = MovedIn(chain, header)
  BY <1>1, MovedBelow DEF Account
<1>4. Len(chain) \in 0..Len(chain)
  BY <1>1
<1>5. LiveIn(same, chain, acct, header) \subseteq LiveIn(same, chain, acct, Len(chain))
  BY <1>1, <1>3, <1>4, LiveGrows
<1>6. QED
  BY <1>2, <1>5

LEMMA CountedPulled ==
  ASSUME Shape, Counted, pc = "pull", PullFrom(pulling)
  PROVE  utxoset' \cup unmatureds' \subseteq LiveIn(same, chain, acct, Len(chain))
<1>1. /\ pulling \in 1..Len(chain) /\ pulling > header /\ header \in Nat /\ acct \in Account
  BY ShapeTyped DEF TypedTo, Shape, TypeOK
<1>2. MaturedIn(acct, pulling) \subseteq LiveIn(same, chain, acct, Len(chain))
  <2>1. chain[pulling] \subseteq MovedIn(chain, Len(chain))
    BY <1>1 DEF MovedIn
  <2>2. CASE acct = "bencher"
    BY <2>1, <2>2 DEF MaturedIn, LiveIn
  <2>3. QED
    BY <2>2 DEF MaturedIn
<1>3. UnmaturedIn(acct, pulling) \subseteq LiveIn(same, chain, acct, Len(chain))
  <2>1. CASE acct = "miner" \/ same
    <3>1. pulling \notin MovedIn(chain, Len(chain))
      <4>1. pulling \notin 1..header
        BY <1>1
      <4>2. QED
        BY <2>1, <4>1, MovedBelow
    <3>2. UnmaturedIn(acct, pulling) = {Reward(pulling)}
      BY <2>1 DEF UnmaturedIn
    <3>3. QED
      BY <1>1, <2>1, <3>1, <3>2 DEF LiveIn
  <2>2. QED
    BY <2>1 DEF UnmaturedIn
<1>4. utxoset \cup unmatureds \subseteq LiveIn(same, chain, acct, Len(chain))
  BY DEF Counted
<1>5. utxoset' \cup unmatureds' \subseteq
        (utxoset \cup unmatureds) \cup MaturedIn(acct, pulling) \cup UnmaturedIn(acct, pulling)
  BY DEF PullFrom
<1>6. QED
  BY <1>2, <1>3, <1>4, <1>5

LEMMA CountedCells ==
  ASSUME Shape, Quiet, Scanned, Counted, [Next]_vars, pc' \in {"ensure", "submit", "pull"}
  PROVE  utxoset' \cup unmatureds' \subseteq LiveIn(same', chain', acct', Len(chain'))
<1>1. same' = same
  BY ChainStep
<1>2. acct' = acct
  <2>1. ~ (Main /\ Spawn)
    BY DEF Spawn
  <2>2. QED
    BY <2>1, Leaves
<1>3. utxoset' \cup unmatureds' \subseteq LiveIn(same, chain, acct, Len(chain))
  <2>1. CASE Main /\ Confirmed
    BY <2>1 DEF Confirmed
  <2>2. CASE Main /\ PullUntil
    <3>1. pc = "until" /\ ~ (pulling < header)
      BY <2>2 DEF PullUntil
    <3>2. utxoset' = utxoset /\ unmatureds' = unmatureds
      BY <2>2, <3>1 DEF PullUntil
    <3>3. QED
      BY <3>1, <3>2, CountedFound
  <2>3. CASE Main /\ EnsurePull
    <3>1. pc = "pull" /\ PullFrom(pulling)
      BY <2>3 DEF EnsurePull
    <3>2. QED
      BY <3>1, CountedPulled
  <2>4. CASE Main /\ (EnsureTemplate \/ EnsureSubmit)
    <3>1. /\ utxoset' = utxoset /\ unmatureds' = unmatureds
          /\ pc \in {"ensure", "submit", "pull"}
      BY <2>4 DEF EnsureTemplate, EnsureSubmit, scanVars
    <3>2. QED
      BY <3>1 DEF Counted
  <2>5. CASE Main /\ Spawn
    BY <2>5 DEF Spawn
  <2>6. CASE ~ Main
    <3>1. utxoset' = utxoset /\ unmatureds' = unmatureds /\ pc' = pc
      BY <2>6, Leaves
    <3>2. QED
      BY <3>1 DEF Counted
  <2>7. QED
    BY <2>1, <2>2, <2>3, <2>4, <2>5, <2>6 DEF Main
<1>4. QED
  BY <1>1, <1>2, <1>3, LiveStays

LEMMA NextCounted ==
  ASSUME Shape, Quiet, Scanned, Counted, [Next]_vars
  PROVE  Counted'
<1>1. transfer' = "off" =>
        \A n \in 1..Len(chain') : n + Confirmation > Len(chain') => chain'[n] = {}
  BY CountedSettled
<1>2. pc' \notin {"scan", "done"} /\ (acct' = "miner" \/ same') =>
        \A n \in 1..Len(chain') : n > header' => chain'[n] = {}
  BY CountedAbove
<1>3. pc' \in {"ensure", "submit", "pull"} =>
        utxoset' \cup unmatureds' \subseteq LiveIn(same', chain', acct', Len(chain'))
  BY CountedCells
<1>4. QED
  BY <1>1, <1>2, <1>3 DEF Counted

LEMMA InitCounted ==
  ASSUME SettledHistories, Init
  PROVE  Counted
<1>1. chain \in Histories /\ pc = "scan"
  BY DEF Init
<1>2. QED
  BY <1>1 DEF Counted, SettledHistories

LEMMA AlwaysCounted ==
  ASSUME SettledHistories
  PROVE  Spec => []Counted
<1>1. Init => Counted
  BY InitCounted
<1>2. Shape /\ Quiet /\ Scanned /\ Counted /\ [Next]_vars => Counted'
  BY NextCounted
<1>3. QED
  BY <1>1, <1>2, AlwaysScanned, PTL DEF Spec

(* What the main thread counts to decide that the capacity is sufficient   *)
(* is really there, although the blocks of the background miner between    *)
(* those it mines, and those above the confirmed tip, are not scanned.     *)
THEOREM CapacityIsLive ==
  ASSUME SettledHistories
  PROVE  Spec => []CountedIsLive
<1>1. Shape /\ Scanned /\ Counted => CountedIsLive
  <2> SUFFICES ASSUME Scanned, Counted, pc \in {"ensure", "submit", "pull"},
                      NEW c \in utxoset
               PROVE  c \in Mature(acct, Len(chain))
    BY DEF CountedIsLive
  <2>1. c \in LiveIn(same, chain, acct, Len(chain))
    BY DEF Counted
  <2>2. LiveAt(acct, Len(chain)) = LiveIn(same, chain, acct, Len(chain))
    BY DEF LiveAt, MovedBy, LiveIn, MovedIn
  <2>3. c[1] = "reward" => Len(chain) > NumberOf(c) + Maturity
    BY DEF Scanned, NumberOf
  <2>4. QED
    BY <2>1, <2>2, <2>3 DEF Mature
<1>2. QED
  BY <1>1, AlwaysScanned, AlwaysCounted, PTL

(* "Miner will generate blocks until capacity is enough for benching":     *)
(* it does, when no block above the confirmed tip held a transfer.  With   *)
(* one that did, the run StartupCapacity refutes it.                       *)
THEOREM CapacityIsEnsured ==
  ASSUME SettledHistories
  PROVE  Spec => []CapacityEnsured
<1>1. Shape /\ CountedIsLive => CapacityEnsured
  <2> SUFFICES ASSUME Shape, CountedIsLive, pc = "ensure", Matured >= Enough
               PROVE  Cardinality(Mature(acct, Len(chain))) >= Enough
    BY DEF CapacityEnsured
  <2>1. PICK M : M = Mature(acct, Len(chain))
    OBVIOUS
  <2>2. utxoset \in SUBSET M
    BY <2>1 DEF CountedIsLive
  <2>3. IsFiniteSet(M)
    <3>1. IsFiniteSet(CellsTo(Len(chain)))
      BY CellsToFinite
    <3>2. M \in SUBSET CellsTo(Len(chain))
      <4>1. Len(chain) \in Nat /\ IsChain(chain) /\ MovedIn(chain, Len(chain)) \subseteq 1..Len(chain)
        <5>1. Len(chain) \in Nat /\ IsChain(chain)
          BY ShapeTyped
        <5>2. Len(chain) \in 0..Len(chain)
          BY <5>1
        <5>3. QED
          BY <5>1, <5>2, MovedBefore
      <4>2. LiveAt(acct, Len(chain)) = LiveIn(same, chain, acct, Len(chain))
        BY DEF LiveAt, MovedBy, LiveIn, MovedIn
      <4>3. LiveIn(same, chain, acct, Len(chain)) \subseteq CellsTo(Len(chain))
        BY <4>1 DEF LiveIn, CellsTo, Reward, Paid
      <4>4. QED
        BY <2>1, <4>2, <4>3 DEF Mature
    <3>3. QED
      BY <3>1, <3>2, FS_Subset
  <2>4. Cardinality(utxoset) <= Cardinality(M)
    BY <2>2, <2>3, FS_Subset
  <2>5. Cardinality(utxoset) \in Nat /\ Cardinality(M) \in Nat /\ Enough \in Nat
    BY <2>3, ShapeTyped, FS_CardinalityType, StartupAssumption
  <2>6. QED
    BY <2>1, <2>4, <2>5 DEF Matured
<1>2. QED
  BY <1>1, AlwaysScanned, CapacityIsLive, PTL

-----------------------------------------------------------------------------
(* No cell is spent twice                                                  *)

LEMMA MinedStep ==
  ASSUME Shape, [Next]_vars
  PROVE  /\ mined["miner"] \in Nat
         /\ \/ mined'["miner"] = mined["miner"]
            \/ mined'["miner"] = mined["miner"] + 1 /\ acct = "miner" /\ pc' = "pull"
         /\ acct = "miner" /\ pc' = "pull" /\ pc # "pull" =>
              mined'["miner"] = mined["miner"] + 1
<1>1. mined \in [Account -> Nat] /\ "miner" \in Account /\ acct \in Account
  BY DEF Shape, TypeOK, Account
<1>2. CASE Main /\ EnsureSubmit
  BY <1>1, <1>2 DEF EnsureSubmit
<1>3. CASE Main /\ ~ EnsureSubmit
  BY <1>1, <1>3 DEF Main, Confirmed, PullUntil, EnsureTemplate, EnsurePull, Spawn
<1>4. CASE ~ Main
  BY <1>1, <1>4, Leaves
<1>5. QED
  BY <1>2, <1>3, <1>4

(* A reward that is gone is gone for good, and only a transfer takes one.  *)
LEMMA GoneStep ==
  ASSUME Shape, Unused, [Next]_vars
  PROVE  Gone \subseteq Gone' /\ (~ TransferCell => Gone' = Gone)
<1>1. Gone' = MovedIn(chain', Len(chain')) \cup pool'
  BY DEF Gone
<1>2. Gone \subseteq Gone'
  BY <1>1, ChainStep, TemplateStep DEF Gone
<1>3. ASSUME ~ TransferCell
      PROVE  Gone' \subseteq Gone
  <2>1. pool' \subseteq pool
    BY <1>3, TemplateStep
  <2>2. MovedIn(chain', Len(chain')) \subseteq Gone
    <3>1. CASE chain' = chain
      BY <3>1 DEF Gone
    <3>2. ASSUME NEW t \in Thread, Mines(t)
          PROVE  MovedIn(chain', Len(chain')) \subseteq Gone
      BY <3>2 DEF Mines, Unused, Gone
    <3>3. QED
      BY <3>1, <3>2, ChainStep
  <2>3. QED
    BY <1>1, <2>1, <2>2 DEF Gone
<1>4. QED
  BY <1>2, <1>3

LEMMA UnusedTemplates ==
  ASSUME Shape, Unused, [Next]_vars, NEW t \in Thread, template'[t] # <<>>
  PROVE  template'[t][2] \subseteq Gone'
<1>1. Gone' = MovedIn(chain', Len(chain')) \cup pool'
  BY DEF Gone
<1>2. CASE template[t] # <<>> /\ template'[t] = template[t]
  BY <1>2, GoneStep DEF Unused
<1>3. CASE template'[t][2] = pool /\ pool' = pool
  BY <1>1, <1>3
<1>4. QED
  BY <1>2, <1>3, TemplateStep

LEMMA StaysMiner ==
  ASSUME Shape, [Next]_vars, acct' = "miner"
  PROVE  acct = "miner" /\ ~ (Main /\ Spawn)
<1>1. acct \in Account
  BY DEF Shape, TypeOK
<1>2. CASE Main /\ Spawn
  BY <1>1, <1>2 DEF Spawn, Account
<1>3. CASE ~ (Main /\ Spawn)
  BY <1>3, Leaves
<1>4. QED
  BY <1>2, <1>3

(* pull_until puts each reward into one of the two sets.                   *)
LEMMA UnusedUntil ==
  ASSUME Shape, Scanned, Unused, [Next]_vars, acct' = "miner", pc' = "until"
  PROVE  utxoset' \cap unmatureds' = {}
<1>1. acct = "miner" /\ ~ (Main /\ Spawn)
  BY StaysMiner
<1>2. CASE Main /\ Confirmed
  BY <1>2 DEF Confirmed
<1>3. CASE Main /\ PullUntil
  <2>1. pc = "until" /\ Scan(pulling + 1) /\ pulling \in Nat
    BY <1>3, ShapeTyped DEF PullUntil, TypedTo
  <2>2. /\ utxoset \cap unmatureds = {}
        /\ utxoset \cup unmatureds = LiveIn(same, chain, "miner", pulling)
    BY <1>1, <2>1 DEF Unused, Scanned
  <2>3. Reward(pulling + 1) \notin utxoset \cup unmatureds
    <3>1. pulling + 1 \notin 1..pulling
      BY <2>1
    <3>2. QED
      BY <2>2, <3>1, CellsDiffer DEF LiveIn
  <2>4. /\ UnmaturedIn(acct, pulling + 1) = {Reward(pulling + 1)}
        /\ MaturedIn(acct, pulling + 1) = {}
    BY <1>1 DEF UnmaturedIn, MaturedIn
  <2>5. PICK R : R = {c \in UnmaturedIn(acct, pulling + 1) : IsMatured(header, pulling + 1)}
    OBVIOUS
  <2>6. /\ utxoset' \subseteq utxoset \cup R
        /\ unmatureds' \subseteq unmatureds \cup ({Reward(pulling + 1)} \ R)
        /\ R \subseteq {Reward(pulling + 1)}
    BY <2>1, <2>4, <2>5 DEF Scan
  <2>7. QED
    BY <2>2, <2>3, <2>6
<1>4. CASE Main /\ (EnsureTemplate \/ EnsureSubmit \/ EnsurePull)
  BY <1>4 DEF EnsureTemplate, EnsureSubmit, EnsurePull
<1>5. CASE ~ Main
  BY <1>1, <1>5, Leaves DEF Unused
<1>6. QED
  BY <1>1, <1>2, <1>3, <1>4, <1>5 DEF Main

LEMMA UnusedPull ==
  ASSUME Shape, Unused, [Next]_vars, acct' = "miner", pc' = "pull"
  PROVE  mined'["miner"] > 0
<1>1. acct = "miner"
  BY StaysMiner
<1>2. PICK k \in Nat : k = mined["miner"]
  BY MinedStep
<1>3. CASE pc = "pull"
  <2>1. k > 0
    BY <1>1, <1>2, <1>3 DEF Unused
  <2>2. mined'["miner"] = k \/ mined'["miner"] = k + 1
    BY <1>2, MinedStep
  <2>3. QED
    BY <2>1, <2>2
<1>4. CASE pc # "pull"
  <2>1. mined'["miner"] = k + 1
    BY <1>1, <1>2, <1>4, MinedStep
  <2>2. QED
    BY <2>1
<1>5. QED
  BY <1>3, <1>4

(* No block was mined to ensure the capacity.                              *)
LEMMA UnusedEnsure ==
  ASSUME Shape, Scanned, Unused, [Next]_vars,
         acct' = "miner", mined'["miner"] = 0, pc' \in {"ensure", "submit"}
  PROVE  /\ utxoset' \cap unmatureds' = {}
         /\ utxoset' \cup unmatureds' \subseteq {Reward(m) : m \in 1..header'}
<1>1. acct = "miner" /\ ~ (Main /\ Spawn)
  BY StaysMiner
<1>2. mined["miner"] = 0
  BY MinedStep
<1>3. CASE Main /\ PullUntil
  <2>1. /\ pc = "until" /\ ~ (pulling < header) /\ header' = header
        /\ utxoset' = utxoset /\ unmatureds' = unmatureds
    BY <1>3 DEF PullUntil
  <2>2. pulling = header
    BY <2>1, ShapeTyped DEF Shape, TypedTo
  <2>3. utxoset \cup unmatureds = LiveIn(same, chain, "miner", header)
    BY <1>1, <2>1, <2>2 DEF Scanned
  <2>4. QED
    BY <1>1, <2>1, <2>3 DEF Unused, LiveIn
<1>4. CASE Main /\ (EnsureTemplate \/ EnsureSubmit)
  <2>1. /\ pc \in {"ensure", "submit"} /\ header' = header
        /\ utxoset' = utxoset /\ unmatureds' = unmatureds
    BY <1>4 DEF EnsureTemplate, EnsureSubmit, scanVars
  <2>2. QED
    BY <1>1, <1>2, <2>1 DEF Unused
<1>5. CASE Main /\ Confirmed
  BY <1>5 DEF Confirmed
<1>6. CASE Main /\ EnsurePull
  <2>1. pc = "pull"
    BY <1>6 DEF EnsurePull
  <2>2. QED
    BY <1>1, <1>2, <2>1 DEF Unused
<1>7. CASE ~ Main
  <2>1. /\ pc' = pc /\ header' = header
        /\ utxoset' = utxoset /\ unmatureds' = unmatureds
    BY <1>7, Leaves
  <2>2. QED
    BY <1>1, <1>2, <2>1 DEF Unused
<1>8. QED
  BY <1>1, <1>3, <1>4, <1>5, <1>6, <1>7 DEF Main

LEMMA OnceHandedOver ==
  ASSUME Shape, Quiet, Scanned, Counted, Unused, Spawn, acct = "miner", mined["miner"] = 0
  PROVE  Once(chan'["miner"], waiting'["miner"], at'["miner"], Gone)
<1>1. /\ Range(chan'["miner"]) = utxoset /\ IsInjective(chan'["miner"])
      /\ Range(waiting'["miner"]) = unmatureds /\ IsInjective(waiting'["miner"])
      /\ at' = [at EXCEPT !["miner"] = header]
  BY SpawnedHeld
<1>2. at'["miner"] = header
  BY <1>1, ShapeTyped DEF TypedTo, Account
<1>3. /\ utxoset \cap unmatureds = {}
      /\ utxoset \cup unmatureds \subseteq {Reward(m) : m \in 1..header}
  BY DEF Unused, Spawn
<1>4. Gone = MovedIn(chain, Len(chain)) /\ Gone \subseteq 1..header
  <2>1. pool = {}
    BY DEF Quiet
  <2>2. MovedIn(chain, Len(chain)) \subseteq 1..header
    BY MovedBelow DEF Spawn
  <2>3. QED
    BY <2>1, <2>2 DEF Gone
<1>5. utxoset \cup unmatureds \subseteq {Reward(m) : m \in (1..Len(chain)) \ Gone}
  BY <1>4 DEF Counted, Spawn, LiveIn
<1>6. utxoset \cup unmatureds \subseteq {Reward(m) : m \in (1..header) \ Gone}
  BY <1>3, <1>5, CellsDiffer
<1>7. QED
  BY <1>1, <1>2, <1>3, <1>4, <1>6 DEF Once

(* A turn of the chain monitor of the miner.                               *)
LEMMA OnceFollowed ==
  ASSUME Shape, Follow("miner"), Once(chan["miner"], waiting["miner"], at["miner"], Gone)
  PROVE  Once(chan'["miner"], waiting'["miner"], at'["miner"], Gone)
<1>1. /\ at \in [Account -> 0..Len(chain)] /\ waiting \in [Account -> Seq(Cells)]
      /\ chan \in [Account -> Seq(Cells)] /\ "miner" \in Account
  BY DEF Shape, TypeOK, Account
<1>2. PICK n \in 1..Len(chain), k \in 0..Len(waiting["miner"]) :
        \E s \in Orders(MaturedIn("miner", n)), u \in Orders(UnmaturedIn("miner", n)) :
          /\ n = at["miner"] + 1
          /\ at' = [at EXCEPT !["miner"] = n]
          /\ chan' = [chan EXCEPT !["miner"] =
                        (chan["miner"] \o s) \o SubSeq(waiting["miner"], 1, k)]
          /\ waiting' = [waiting EXCEPT !["miner"] =
                           SubSeq(waiting["miner"], k + 1, Len(waiting["miner"])) \o u]
  BY <1>1, Followed
<1>3. PICK s \in Orders(MaturedIn("miner", n)), u \in Orders(UnmaturedIn("miner", n)) :
        /\ n = at["miner"] + 1
        /\ at' = [at EXCEPT !["miner"] = n]
        /\ chan' = [chan EXCEPT !["miner"] =
                      (chan["miner"] \o s) \o SubSeq(waiting["miner"], 1, k)]
        /\ waiting' = [waiting EXCEPT !["miner"] =
                         SubSeq(waiting["miner"], k + 1, Len(waiting["miner"])) \o u]
  BY <1>2
<1>4. PICK w \in Seq(Cells), c \in Seq(Cells) : w = waiting["miner"] /\ c = chan["miner"]
  BY <1>1
<1>5. PICK p, q : p = SubSeq(w, 1, k) /\ q = SubSeq(w, k + 1, Len(w))
  OBVIOUS
<1>6. /\ IsInjective(c) /\ IsInjective(w) /\ Range(c) \cap Range(w) = {}
      /\ Range(c) \cup Range(w) \subseteq {Reward(m) : m \in (1..at["miner"]) \ Gone}
      /\ Gone \subseteq 1..at["miner"]
  BY <1>4 DEF Once
<1>7. /\ p \in Seq(Cells) /\ q \in Seq(Cells) /\ Range(w) = Range(p) \cup Range(q)
      /\ IsInjective(p) /\ IsInjective(q) /\ Range(p) \cap Range(q) = {}
  BY <1>4, <1>5, <1>6, CutInTwo, CutInjective
<1>8. /\ s \in Seq(Cells) /\ Range(s) = {} /\ IsInjective(s)
      /\ u \in Seq(Cells) /\ Range(u) = {Reward(n)} /\ IsInjective(u)
  <2>1. MaturedIn("miner", n) = {} /\ UnmaturedIn("miner", n) = {Reward(n)}
    BY DEF MaturedIn, UnmaturedIn
  <2>2. QED
    BY <1>1, <2>1, FollowedTyped
<1>9. PICK t : t = c \o s
  OBVIOUS
<1>10. t \in Seq(Cells) /\ Range(t) = Range(c) /\ IsInjective(t)
  <2>1. Range(c) \cap Range(s) = {}
    BY <1>8
  <2>2. c \o s \in Seq(Cells) /\ Range(c \o s) = Range(c) \cup Range(s)
    <3>1. PICK r \in Seq(Cells) : r = s
      BY <1>8
    <3>2. c \o r \in Seq(Cells) /\ Range(c \o r) = Range(c) \cup Range(r)
      BY RangeOfConcat
    <3>3. QED
      BY <3>1, <3>2
  <2>3. IsInjective(c \o s)
    BY <1>6, <1>8, <2>1, ConcatInjective
  <2>4. QED
    BY <1>8, <1>9, <2>2, <2>3
<1>11. /\ Range(t \o p) = Range(t) \cup Range(p) /\ IsInjective(t \o p)
  <2>1. Range(t) \cap Range(p) = {}
    BY <1>6, <1>7, <1>10
  <2>2. Range(t \o p) = Range(t) \cup Range(p)
    BY <1>7, <1>10, RangeOfConcat
  <2>3. IsInjective(t \o p)
    BY <1>7, <1>10, <2>1, ConcatInjective
  <2>4. QED
    BY <2>2, <2>3
<1>12. Reward(n) \notin Range(c) \cup Range(w) /\ n \notin Gone
  <2>1. n \notin 1..at["miner"]
    BY <1>1, <1>3
  <2>2. QED
    BY <1>6, <2>1, CellsDiffer
<1>13. Range(q \o u) = Range(q) \cup Range(u) /\ IsInjective(q \o u)
  <2>1. Range(q) \cap Range(u) = {}
    BY <1>7, <1>8, <1>12
  <2>2. Range(q \o u) = Range(q) \cup Range(u)
    BY <1>7, <1>8, RangeOfConcat
  <2>3. IsInjective(q \o u)
    BY <1>7, <1>8, <2>1, ConcatInjective
  <2>4. QED
    BY <2>2, <2>3
<1>14. /\ chan'["miner"] = t \o p /\ waiting'["miner"] = q \o u /\ at'["miner"] = n
  BY <1>1, <1>3, <1>4, <1>5, <1>9
<1>15. Range(t \o p) \cap Range(q \o u) = {}
  BY <1>6, <1>7, <1>8, <1>10, <1>11, <1>12, <1>13
<1>16. Range(t \o p) \cup Range(q \o u) \subseteq {Reward(m) : m \in (1..n) \ Gone}
  <2>1. 1..at["miner"] \subseteq 1..n /\ n \in 1..n
    BY <1>1, <1>3
  <2>2. {Reward(m) : m \in (1..at["miner"]) \ Gone} \subseteq {Reward(m) : m \in (1..n) \ Gone}
    BY <2>1
  <2>3. Reward(n) \in {Reward(m) : m \in (1..n) \ Gone}
    BY <1>12, <2>1
  <2>4. Range(t \o p) \cup Range(q \o u) = (Range(c) \cup Range(w)) \cup {Reward(n)}
    BY <1>7, <1>8, <1>10, <1>11, <1>13
  <2>5. QED
    BY <1>6, <2>2, <2>3, <2>4
<1>17. Gone \subseteq 1..n
  <2>1. 1..at["miner"] \subseteq 1..n
    BY <1>1, <1>3
  <2>2. QED
    BY <1>6, <2>1
<1>18. QED
  BY <1>11, <1>13, <1>14, <1>15, <1>16, <1>17 DEF Once

(* A transfer: the node accepts it, unless its pool is full.               *)
LEMMA OnceTransferred ==
  ASSUME Shape, TransferCell, Once(chan["miner"], waiting["miner"], at["miner"], Gone)
  PROVE  \/ transfer' = "full"
         \/ /\ transfer' = "on"
            /\ Once(chan'["miner"], waiting["miner"], at["miner"], Gone')
<1>1. PICK m \in 1..Len(chain) :
        /\ chan["miner"] # <<>> /\ m = NumberOf(Head(chan["miner"]))
        /\ chan' = [chan EXCEPT !["miner"] = Tail(chan["miner"])]
        /\ \/ transfer' = "full" /\ pool' = pool
           \/ /\ m \in pool \cup MovedIn(chain, Len(chain))
              /\ transfer' = "spent" /\ pool' = pool
           \/ /\ m \notin pool \cup MovedIn(chain, Len(chain))
              /\ transfer' = "on" /\ pool' = pool \cup {m}
  BY Transferred
<1> SUFFICES ASSUME transfer' # "full"
             PROVE  /\ transfer' = "on"
                    /\ Once(chan'["miner"], waiting["miner"], at["miner"], Gone')
  OBVIOUS
<1>2. chan \in [Account -> Seq(Cells)] /\ "miner" \in Account
  BY DEF Shape, TypeOK, Account
<1>3. PICK c \in Seq(Cells) : c = chan["miner"]
  BY <1>2
<1>4. PICK d : d = Tail(c)
  OBVIOUS
<1>5. /\ Range(c) = {Head(c)} \cup Range(d)
      /\ IsInjective(d) /\ Head(c) \notin Range(d)
  BY <1>1, <1>3, <1>4, TailOfInjective DEF Once
<1>6. Head(c) = Reward(m) /\ m \in (1..at["miner"]) \ Gone
  <2>1. Head(c) \in {Reward(i) : i \in (1..at["miner"]) \ Gone}
    BY <1>3, <1>5 DEF Once
  <2>2. PICK i \in (1..at["miner"]) \ Gone : Head(c) = Reward(i)
    BY <2>1
  <2>3. i = m
    BY <1>1, <1>3, <2>2, CellsDiffer
  <2>4. QED
    BY <2>2, <2>3
<1>7. transfer' = "on" /\ pool' = pool \cup {m}
  BY <1>1, <1>6 DEF Gone
<1>8. Gone' = Gone \cup {m}
  <2>1. chain' = chain
    BY DEF TransferCell
  <2>2. QED
    BY <1>7, <2>1 DEF Gone
<1>9. chan'["miner"] = d
  BY <1>1, <1>2, <1>3, <1>4
<1>10. Range(d) \cup Range(waiting["miner"]) \subseteq
         {Reward(i) : i \in (1..at["miner"]) \ Gone'}
  <2>1. Reward(m) \notin Range(d) \cup Range(waiting["miner"])
    BY <1>3, <1>5, <1>6 DEF Once
  <2>2. Range(d) \cup Range(waiting["miner"]) \subseteq
          {Reward(i) : i \in (1..at["miner"]) \ Gone}
    BY <1>3, <1>5 DEF Once
  <2>3. QED
    BY <1>8, <2>1, <2>2
<1>11. Range(d) \cap Range(waiting["miner"]) = {} /\ Gone' \subseteq 1..at["miner"]
       /\ IsInjective(waiting["miner"])
  BY <1>3, <1>5, <1>6, <1>8 DEF Once
<1>12. QED
  BY <1>5, <1>7, <1>9, <1>10, <1>11 DEF Once

LEMMA UnusedOnce ==
  ASSUME Shape, Quiet, Scanned, Counted, Unused, [Next]_vars, mined'["miner"] = 0
  PROVE  /\ transfer' = "on" =>
              Once(chan'["miner"], waiting'["miner"], at'["miner"], Gone')
         /\ transfer' # "spent"
<1>1. mined["miner"] = 0
  BY MinedStep
<1>2. /\ transfer = "on" => Once(chan["miner"], waiting["miner"], at["miner"], Gone)
      /\ transfer # "spent"
  BY <1>1 DEF Unused, SpendsOnce, Once, Gone
<1>3. /\ at \in [Account -> 0..Len(chain)] /\ waiting \in [Account -> Seq(Cells)]
      /\ chan \in [Account -> Seq(Cells)] /\ "miner" \in Account /\ acct \in Account
  BY DEF Shape, TypeOK, Account
<1>4. CASE TransferCell
  <2>1. transfer = "on" /\ waiting' = waiting /\ at' = at
    BY <1>4 DEF TransferCell
  <2>2. QED
    BY <1>2, <1>4, <2>1, OnceTransferred
<1>5. CASE ~ TransferCell
  <2>1. Gone' = Gone
    BY <1>5, GoneStep
  <2>2. CASE Main /\ Spawn /\ acct = "miner"
    <3>1. transfer' = "on"
      BY <2>2 DEF Spawn
    <3>2. QED
      BY <1>1, <2>1, <2>2, <3>1, OnceHandedOver
  <2>3. CASE Main /\ Spawn /\ acct # "miner"
    <3>1. /\ chan'["miner"] = chan["miner"] /\ waiting'["miner"] = waiting["miner"]
          /\ at'["miner"] = at["miner"]
      BY <1>3, <2>3, SpawnedHeld
    <3>2. transfer' = transfer
      BY <2>3 DEF Spawn
    <3>3. QED
      BY <1>2, <2>1, <3>1, <3>2
  <2>4. ASSUME NEW a \in Account, Follow(a)
        PROVE  /\ transfer' = "on" =>
                    Once(chan'["miner"], waiting'["miner"], at'["miner"], Gone')
               /\ transfer' # "spent"
    <3>1. transfer' = transfer
      BY <2>4 DEF Follow
    <3>2. CASE a = "miner"
      BY <1>2, <2>1, <2>4, <3>1, <3>2, OnceFollowed
    <3>3. CASE a # "miner"
      <4>1. /\ chan'["miner"] = chan["miner"] /\ waiting'["miner"] = waiting["miner"]
            /\ at'["miner"] = at["miner"]
        <5>1. PICK n \in 1..Len(chain), k \in 0..Len(waiting[a]) :
                \E s \in Orders(MaturedIn(a, n)), u \in Orders(UnmaturedIn(a, n)) :
                  /\ n = at[a] + 1
                  /\ at' = [at EXCEPT ![a] = n]
                  /\ chan' = [chan EXCEPT ![a] =
                                (chan[a] \o s) \o SubSeq(waiting[a], 1, k)]
                  /\ waiting' = [waiting EXCEPT ![a] =
                                   SubSeq(waiting[a], k + 1, Len(waiting[a])) \o u]
          BY <2>4, Followed
        <5>2. QED
          BY <1>3, <3>3, <5>1
      <4>2. QED
        BY <1>2, <2>1, <3>1, <4>1
    <3>4. QED
      BY <3>2, <3>3
  <2>5. CASE ~ (Main /\ Spawn) /\ \A a \in Account : ~ Follow(a)
    <3>1. at' = at /\ waiting' = waiting /\ chan' = chan /\ transfer' = transfer
      BY <1>5, <2>5, OthersHeld, Leaves
    <3>2. QED
      BY <1>2, <2>1, <3>1
  <2>6. QED
    BY <2>2, <2>3, <2>4, <2>5
<1>6. QED
  BY <1>4, <1>5

LEMMA NextUnused ==
  ASSUME Shape, Quiet, Scanned, Counted, Unused, [Next]_vars
  PROVE  Unused'
<1>1. \A t \in Thread : template'[t] # <<>> =>
        template'[t][2] \subseteq Gone'
  BY UnusedTemplates
<1>2. acct' = "miner" /\ pc' = "until" => utxoset' \cap unmatureds' = {}
  BY UnusedUntil
<1>3. acct' = "miner" /\ pc' = "pull" => mined'["miner"] > 0
  BY UnusedPull
<1>4. acct' = "miner" /\ mined'["miner"] = 0 /\ pc' \in {"ensure", "submit"} =>
        /\ utxoset' \cap unmatureds' = {}
        /\ utxoset' \cup unmatureds' \subseteq {Reward(m) : m \in 1..header'}
  BY UnusedEnsure
<1>5. transfer' = "on" /\ mined'["miner"] = 0 =>
        Once(chan'["miner"], waiting'["miner"], at'["miner"], Gone')
  BY UnusedOnce
<1>6. SpendsOnce'
  BY UnusedOnce DEF SpendsOnce
<1>7. QED
  BY <1>1, <1>2, <1>3, <1>4, <1>5, <1>6 DEF Unused

LEMMA InitUnused ==
  ASSUME Init
  PROVE  Unused
BY DEF Init, Unused, SpendsOnce

(* When no block had to be mined to ensure the capacity of the miner, the  *)
(* transfer thread spends no cell twice: only a full pool can end it.      *)
THEOREM NoCellIsSpentTwice ==
  ASSUME SettledHistories
  PROVE  Spec => []SpendsOnce
<1>1. Shape /\ Quiet /\ Scanned /\ Counted /\ Unused /\ [Next]_vars => Unused'
  BY NextUnused
<1>2. Unused => SpendsOnce
  BY DEF Unused
<1>3. QED
  BY <1>1, <1>2, InitUnused, AlwaysScanned, AlwaysCounted, PTL DEF Spec

=============================================================================
