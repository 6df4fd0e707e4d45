--------------------------- MODULE Consensus_proofs ---------------------------
(***************************************************************************)
(* Proofs about Consensus: for every set of configurations, and chains of  *)
(* any length, those about types, rewards and what is accepted; for those  *)
(* whose difficulties have a target, the ones about difficulties.          *)
(*                                                                         *)
(* The reward of a block is a fold over the halving schedule.  What module *)
(* FoldFacts says of folds is used for the operator Halve, with the number *)
(* of the block as what does not change.                                   *)
(***************************************************************************)
EXTENDS Consensus, TLAPS

Halving == INSTANCE FoldFacts WITH Op <- Halve

USE DEF WordBits, HashBits, EasyDifficulty

-----------------------------------------------------------------------------
(* Rewards.                                                                *)

(* The halvings that genesis/mainnet.json, genesis/testnet.json and the    *)
(* default configuration have: none multiplies the reward by more than 1.  *)
(* GenesisConfig itself asks for nothing.                                  *)
Falling ==
    \A g \in Configs : \A j \in 1..Len(g.halvingSchedule) :
        g.halvingSchedule[j].perMille <= 1000

LEMMA Schedule ==
    ASSUME NEW g \in Configs
    PROVE  /\ g.initialReward \in Nat
           /\ Len(g.halvingSchedule) \in Nat
           /\ DOMAIN g.halvingSchedule = 1..Len(g.halvingSchedule)
           /\ \A j \in 1..Len(g.halvingSchedule) :
                 /\ g.halvingSchedule[j].afterBlocks \in Nat
                 /\ g.halvingSchedule[j].perMille \in Nat
<1> DEFINE Entry == [afterBlocks : Nat, perMille : Nat]
<1>1. g.initialReward \in Nat /\ g.halvingSchedule \in Seq(Entry)
  BY ConsensusAssumption DEF Config
<1> HIDE DEF Entry
<1>2. \A j \in 1..Len(g.halvingSchedule) : g.halvingSchedule[j] \in Entry
  BY <1>1
<1> QED
  BY <1>1, <1>2 DEF Entry

(* The reward is the last of a run through the schedule.                   *)
LEMMA RewardRun ==
    ASSUME NEW g \in Configs, NEW n \in Nat
    PROVE  \E r : /\ r[0] = g.initialReward
                  /\ \A j \in 1..Len(g.halvingSchedule) :
                        r[j] = Halve(n, r[j - 1], g.halvingSchedule[j])
                  /\ CalculateBlockReward(g, n) = r[Len(g.halvingSchedule)]
<1>1. CalculateBlockReward(g, n) = Halving!Fold(n, g.initialReward, g.halvingSchedule)
  BY DEF CalculateBlockReward, Halving!Fold, FoldLeft, MapThenFoldSet, Max,
         Halving!FoldLeft, Halving!MapThenFoldSet, Halving!Max
<1>2. PICK r : /\ Halving!IsRun(r, n, g.initialReward, g.halvingSchedule)
               /\ CalculateBlockReward(g, n) = r[Len(g.halvingSchedule)]
  BY <1>1, Schedule, Halving!FoldHasRun
<1> QED
  BY <1>2 DEF Halving!IsRun

LEMMA HalveType ==
    ASSUME NEW n \in Nat, NEW reward \in Nat,
           NEW h, h.afterBlocks \in Nat, h.perMille \in Nat
    PROVE  Halve(n, reward, h) \in Nat
<1>1. reward * h.perMille \in Nat
  OBVIOUS
<1>2. (reward * h.perMille) \div 1000 \in Nat
  BY <1>1
<1> QED
  BY <1>2 DEF Halve

(* A run through the schedule for block n + 1 stays below the one for n:   *)
(* an entry that is only passed by n + 1 is one that names n.              *)
LEMMA HalveFalls ==
    ASSUME NEW n \in Nat, NEW x \in Nat, NEW y \in Nat, x <= y,
           NEW h, h.afterBlocks \in Nat, h.perMille \in Nat, h.perMille <= 1000
    PROVE  Halve(n + 1, x, h) <= Halve(n, y, h)
<1>1. x * h.perMille <= y * h.perMille /\ x * h.perMille <= x * 1000
      /\ x * h.perMille \in Nat /\ y * h.perMille \in Nat
  <2> DEFINE p == h.perMille
  <2>1. p \in Nat /\ p <= 1000
    OBVIOUS
  <2> HIDE DEF p
  <2>2. y - x \in Nat /\ 1000 - p \in Nat
    BY <2>1
  <2>3. (y - x) * p \in Nat /\ x * (1000 - p) \in Nat /\ x * p \in Nat /\ y * p \in Nat
    BY <2>1, <2>2
  <2>4. (y - x) * p = y * p - x * p /\ x * (1000 - p) = x * 1000 - x * p
    BY <2>1
  <2>5. x * p <= y * p /\ x * p <= x * 1000
    BY <2>3, <2>4
  <2> QED
    BY <2>3, <2>5 DEF p
<1>2. /\ (x * h.perMille) \div 1000 <= (y * h.perMille) \div 1000
      /\ (x * h.perMille) \div 1000 <= x
  <2> DEFINE a == x * h.perMille
             b == y * h.perMille
  <2>1. a \in Nat /\ b \in Nat /\ a <= b /\ a <= x * 1000
    BY <1>1
  <2> HIDE DEF a, b
  <2>2. a \div 1000 <= b \div 1000 /\ a \div 1000 <= x
    BY <2>1
  <2> QED
    BY <2>2 DEF a, b
<1> DEFINE u == (x * h.perMille) \div 1000
           v == (y * h.perMille) \div 1000
<1>3. u \in Nat /\ v \in Nat /\ u <= v /\ u <= x
  BY <1>1, <1>2
<1>4. /\ Halve(n + 1, x, h) = IF n + 1 > h.afterBlocks THEN u ELSE x
      /\ Halve(n, y, h) = IF n > h.afterBlocks THEN v ELSE y
  BY DEF Halve
<1> HIDE DEF u, v
<1> QED
  BY <1>3, <1>4

(* For block numbers, rewards are numbers; they never rise if no halving   *)
(* raises them, and the reward after block n differs from that of n only if*)
(* the schedule names n.                                                   *)
LEMMA RewardType ==
    ASSUME NEW g \in Configs, NEW n \in Nat
    PROVE  CalculateBlockReward(g, n) \in Nat
<1> DEFINE s == g.halvingSchedule
<1>1. PICK r : /\ r[0] = g.initialReward
               /\ \A j \in 1..Len(s) : r[j] = Halve(n, r[j - 1], s[j])
               /\ CalculateBlockReward(g, n) = r[Len(s)]
  BY RewardRun
<1> DEFINE N == {i \in Nat : i <= Len(s) => r[i] \in Nat}
<1>2. 0 \in N
  BY <1>1, Schedule
<1>3. ASSUME NEW i \in Nat, i \in N PROVE i + 1 \in N
  <2> SUFFICES ASSUME i + 1 <= Len(s) PROVE r[i + 1] \in Nat
    OBVIOUS
  <2>1. Len(s) \in Nat
    BY Schedule
  <2>2. i + 1 \in 1..Len(s) /\ (i + 1) - 1 = i /\ r[i] \in Nat
    BY <1>3, <2>1
  <2>3. r[i + 1] = Halve(n, r[i], s[i + 1])
    BY <1>1, <2>2
  <2>4. s[i + 1].afterBlocks \in Nat /\ s[i + 1].perMille \in Nat
    BY <2>2, Schedule
  <2> QED
    BY <2>2, <2>3, <2>4, HalveType
<1> HIDE DEF N
<1>4. Nat \subseteq N
  BY <1>2, <1>3, Halving!NumberInduction
<1>5. Len(s) \in Nat
  BY Schedule
<1> QED
  BY <1>1, <1>4, <1>5 DEF N

LEMMA RewardFalls ==
    ASSUME Falling, NEW g \in Configs, NEW n \in Nat
    PROVE  CalculateBlockReward(g, n + 1) <= CalculateBlockReward(g, n)
<1> DEFINE s == g.halvingSchedule
<1>1. PICK q : /\ q[0] = g.initialReward
               /\ \A j \in 1..Len(s) : q[j] = Halve(n + 1, q[j - 1], s[j])
               /\ CalculateBlockReward(g, n + 1) = q[Len(s)]
  BY RewardRun
<1>2. PICK r : /\ r[0] = g.initialReward
               /\ \A j \in 1..Len(s) : r[j] = Halve(n, r[j - 1], s[j])
               /\ CalculateBlockReward(g, n) = r[Len(s)]
  BY RewardRun
<1> DEFINE N == {i \in Nat : i <= Len(s) => q[i] \in Nat /\ r[i] \in Nat /\ q[i] <= r[i]}
<1>3. 0 \in N
  BY <1>1, <1>2, Schedule
<1>4. ASSUME NEW i \in Nat, i \in N PROVE i + 1 \in N
  <2> SUFFICES ASSUME i + 1 <= Len(s)
               PROVE  q[i + 1] \in Nat /\ r[i + 1] \in Nat /\ q[i + 1] <= r[i + 1]
    OBVIOUS
  <2> DEFINE e == s[i + 1]
  <2>1. Len(s) \in Nat
    BY Schedule
  <2>2. i + 1 \in 1..Len(s) /\ (i + 1) - 1 = i
    BY <2>1
  <2>3. q[i] \in Nat /\ r[i] \in Nat /\ q[i] <= r[i]
    BY <1>4, <2>1
  <2>4. q[i + 1] = Halve(n + 1, q[i], e) /\ r[i + 1] = Halve(n, r[i], e)
    BY <1>1, <1>2, <2>2
  <2>5. e.afterBlocks \in Nat /\ e.perMille \in Nat
    BY <2>2, Schedule
  <2>6. e.perMille <= 1000
    BY <2>2 DEF Falling
  <2> HIDE DEF e
  <2>7. Halve(n + 1, q[i], e) <= Halve(n, r[i], e)
    BY <2>3, <2>5, <2>6, HalveFalls
  <2>8. Halve(n + 1, q[i], e) \in Nat /\ Halve(n, r[i], e) \in Nat
    <3>1. n + 1 \in Nat
      OBVIOUS
    <3> QED
      BY <2>3, <2>5, <3>1, HalveType
  <2> QED
    BY <2>4, <2>7, <2>8
<1> HIDE DEF N
<1>5. Nat \subseteq N
  BY <1>3, <1>4, Halving!NumberInduction
<1>6. Len(s) \in Nat
  BY Schedule
<1> QED
  BY <1>1, <1>2, <1>5, <1>6 DEF N

LEMMA RewardStays ==
    ASSUME NEW g \in Configs, NEW n \in Nat,
           \A j \in 1..Len(g.halvingSchedule) : g.halvingSchedule[j].afterBlocks # n
    PROVE  CalculateBlockReward(g, n + 1) = CalculateBlockReward(g, n)
<1> DEFINE s == g.halvingSchedule
<1>1. PICK q : /\ q[0] = g.initialReward
               /\ \A j \in 1..Len(s) : q[j] = Halve(n + 1, q[j - 1], s[j])
               /\ CalculateBlockReward(g, n + 1) = q[Len(s)]
  BY RewardRun
<1>2. PICK r : /\ r[0] = g.initialReward
               /\ \A j \in 1..Len(s) : r[j] = Halve(n, r[j - 1], s[j])
               /\ CalculateBlockReward(g, n) = r[Len(s)]
  BY RewardRun
<1> DEFINE N == {i \in Nat : i <= Len(s) => q[i] = r[i]}
<1>3. 0 \in N
  BY <1>1, <1>2
<1>4. ASSUME NEW i \in Nat, i \in N PROVE i + 1 \in N
  <2> SUFFICES ASSUME i + 1 <= Len(s) PROVE q[i + 1] = r[i + 1]
    OBVIOUS
  <2>1. Len(s) \in Nat
    BY Schedule
  <2>2. i + 1 \in 1..Len(s) /\ (i + 1) - 1 = i
    BY <2>1
  <2>3. q[i + 1] = Halve(n + 1, q[i], s[i + 1]) /\ r[i + 1] = Halve(n, r[i], s[i + 1])
    BY <1>1, <1>2, <2>2
  <2>4. s[i + 1].afterBlocks \in Nat /\ s[i + 1].afterBlocks # n
    BY <2>2, Schedule
  <2>5. n + 1 > s[i + 1].afterBlocks <=> n > s[i + 1].afterBlocks
    BY <2>4
  <2>6. q[i] = r[i]
    BY <1>4, <2>1
  <2> QED
    BY <2>3, <2>5, <2>6 DEF Halve
<1> HIDE DEF N
<1>5. Nat \subseteq N
  BY <1>3, <1>4, Halving!NumberInduction
<1>6. Len(s) \in Nat
  BY Schedule
<1> QED
  BY <1>1, <1>2, <1>5, <1>6 DEF N

-----------------------------------------------------------------------------
(* What holds for every configuration.                                     *)

Block == [number : Nat, difficulty : Nat, zeros : 0..HashBits, reward : Nat]

(* The inductive invariant: numbers count the blocks; and a template,      *)
(* however old, has reward and difficulty that follow from its number and  *)
(* from the block below it, whatever that block's submitter reported.      *)
IInv ==
    /\ genesis \in Configs
    /\ chain \in Seq(Block) /\ Len(chain) >= 1
    /\ \A i \in 1..Len(chain) : chain[i].number = i - 1
    /\ \A t \in templates :
          /\ t.number \in 1..Len(chain) /\ t.number <= MaxHeight
          /\ t.reward = CalculateBlockReward(genesis, t.number)
          /\ t.difficulty = CalculateDifficulty(genesis, t.number, chain[t.number].difficulty)

LEMMA DifficultyType ==
    ASSUME NEW g \in Configs, NEW height \in Nat, NEW parentDifficulty \in Nat
    PROVE  CalculateDifficulty(g, height, parentDifficulty) \in Nat
<1>1. g.initialDifficulty \in Nat /\ g.floorTenths \in Nat
  BY ConsensusAssumption DEF Config
<1>2. GuardDifficulty(g) \in Nat
  BY <1>1 DEF GuardDifficulty
<1> QED
  BY <1>2 DEF CalculateDifficulty

LEMMA InitIInv == Init => IInv
<1> SUFFICES ASSUME Init PROVE IInv
  OBVIOUS
<1>1. genesis \in Configs /\ genesis.initialDifficulty \in Nat
  BY ConsensusAssumption DEF Init, Config
<1>2. [number |-> 0, difficulty |-> genesis.initialDifficulty, zeros |-> 0, reward |-> 0]
        \in Block
  BY <1>1 DEF Block
<1> QED
  BY <1>1, <1>2 DEF Init, IInv

LEMMA CreateNewBlockIInv ==
    ASSUME IInv, CreateNewBlock
    PROVE  IInv'
<1> DEFINE parent == chain[Len(chain)]
           height == parent.number + 1
           t == [number     |-> height,
                 difficulty |-> CalculateDifficulty(genesis, height, parent.difficulty),
                 reward     |-> CalculateBlockReward(genesis, height)]
<1>1. height = Len(chain) /\ height \in 1..Len(chain) /\ height <= MaxHeight
  BY ConsensusAssumption DEF IInv, CreateNewBlock, Height
<1>2. /\ t.number \in 1..Len(chain) /\ t.number <= MaxHeight
      /\ t.reward = CalculateBlockReward(genesis, t.number)
      /\ t.difficulty = CalculateDifficulty(genesis, t.number, chain[t.number].difficulty)
  BY <1>1
<1>3. templates' = templates \cup {t} /\ UNCHANGED <<genesis, chain>>
  BY DEF CreateNewBlock
<1> HIDE DEF t
<1>4. \A x \in templates' :
         /\ x.number \in 1..Len(chain) /\ x.number <= MaxHeight
         /\ x.reward = CalculateBlockReward(genesis, x.number)
         /\ x.difficulty = CalculateDifficulty(genesis, x.number, chain[x.number].difficulty)
  BY <1>2, <1>3 DEF IInv
<1> QED
  BY <1>3, <1>4 DEF IInv

(* Any block that the node accepts, whoever submits it.                    *)
LEMMA AppendIInv ==
    ASSUME IInv, NEW t \in templates, NEW reported, NEW zeros \in Zeros,
           reported.difficulty \in Nat, reported.reward \in Nat,
           ValidateBlock(Sealed(t, reported, zeros)),
           chain' = Append(chain, Sealed(t, reported, zeros)),
           UNCHANGED <<genesis, templates>>
    PROVE  IInv'
<1> DEFINE b == Sealed(t, reported, zeros)
<1>1. b.number = Len(chain)
  BY DEF ValidateBlock, Height
<1>2. b \in Block
  <2>1. zeros \in 0..HashBits
    BY ConsensusAssumption
  <2>2. t.number \in Nat
    BY DEF IInv
  <2> QED
    BY <2>1, <2>2 DEF Sealed, Block
<1>3. chain' = Append(chain, b)
  OBVIOUS
<1> HIDE DEF b
<1>4. /\ chain' \in Seq(Block) /\ Len(chain') = Len(chain) + 1
      /\ \A i \in 1..Len(chain) : chain'[i] = chain[i]
      /\ chain'[Len(chain) + 1] = b
  BY <1>2, <1>3 DEF IInv
<1>5. ASSUME NEW x \in templates
      PROVE  /\ x.number \in 1..Len(chain')
             /\ x.difficulty = CalculateDifficulty(genesis, x.number, chain'[x.number].difficulty)
  <2>1. x.number \in 1..Len(chain) /\ Len(chain) \in Nat
    BY DEF IInv
  <2>2. chain'[x.number] = chain[x.number]
    BY <2>1, <1>4
  <2> QED
    BY <2>1, <2>2, <1>4 DEF IInv
<1>6. ASSUME NEW i \in 1..Len(chain')
      PROVE  chain'[i].number = i - 1
  <2>1. Len(chain) \in Nat /\ \A j \in 1..Len(chain) : chain[j].number = j - 1
    BY DEF IInv
  <2>2. CASE i \in 1..Len(chain)
    BY <2>1, <2>2, <1>4
  <2>3. CASE i = Len(chain) + 1
    BY <2>1, <2>3, <1>1, <1>4
  <2> QED
    BY <2>1, <2>2, <2>3, <1>4
<1>7. Len(chain') >= 1
  BY <1>4 DEF IInv
<1> QED
  BY <1>4, <1>5, <1>6, <1>7 DEF IInv

(* A template's own values are numbers.                                    *)
LEMMA TemplateType ==
    ASSUME IInv, NEW t \in templates
    PROVE  t.number \in Nat \ {0} /\ t.difficulty \in Nat /\ t.reward \in Nat
<1>1. t.number \in 1..Len(chain) /\ Len(chain) \in Nat /\ chain \in Seq(Block)
  BY DEF IInv
<1>2. chain[t.number] \in Block
  BY <1>1
<1>3. /\ t.number \in Nat \ {0} /\ genesis \in Configs
      /\ t.reward = CalculateBlockReward(genesis, t.number)
      /\ t.difficulty = CalculateDifficulty(genesis, t.number, chain[t.number].difficulty)
  BY <1>1 DEF IInv
<1>4. chain[t.number].difficulty \in Nat
  BY <1>2 DEF Block
<1>5. t.difficulty \in Nat
  BY <1>3, <1>4, DifficultyType
<1>6. t.reward \in Nat
  BY <1>3, RewardType
<1> QED
  BY <1>3, <1>5, <1>6

LEMMA MineBlockIInv ==
    ASSUME IInv, NEW t \in templates, NEW zeros \in Zeros, MineBlock(t, zeros)
    PROVE  IInv'
BY TemplateType, AppendIInv DEF MineBlock

LEMMA SubmitBlockIInv ==
    ASSUME IInv, NEW t \in templates, NEW reported \in Reported, NEW zeros \in Zeros,
           SubmitBlock(t, reported, zeros)
    PROVE  IInv'
<1>1. reported.difficulty \in Nat /\ reported.reward \in Nat
  BY ConsensusAssumption
<1> QED
  BY <1>1, AppendIInv DEF SubmitBlock

LEMMA NextIInv == IInv /\ [Next]_vars => IInv'
<1> SUFFICES ASSUME IInv, [Next]_vars PROVE IInv'
  OBVIOUS
<1>1. CASE CreateNewBlock
  BY <1>1, CreateNewBlockIInv
<1>2. CASE \E t \in templates, zeros \in Zeros : MineBlock(t, zeros)
  BY <1>2, MineBlockIInv
<1>3. CASE \E t \in templates, zeros \in Zeros, reported \in Reported :
              SubmitBlock(t, reported, zeros)
  BY <1>3, SubmitBlockIInv
<1>4. CASE UNCHANGED vars
  BY <1>4 DEF vars, IInv
<1> QED
  BY <1>1, <1>2, <1>3, <1>4 DEF Next

THEOREM Invariance == Spec => []IInv
  BY InitIInv, NextIInv, PTL DEF Spec

(* The configuration, the fields of blocks and the numbers of templates    *)
(* have their types; no template is for a block beyond the next one, of any*)
(* chain (CreateNewBlockV2, addBlockV2).                                   *)
THEOREM TypeCorrect == Spec => []TypeOK
<1>1. IInv => TypeOK
  BY DEF IInv, TypeOK, Block, Height
<1> QED
  BY <1>1, Invariance, PTL

(* No template pays more than those for the number below, and the reward   *)
(* only changes above a block that the halving schedule names: what        *)
(* calculateBlockReward recomputes for each template and rounds down, for  *)
(* every schedule, in whatever order its entries are, that raises no       *)
(* reward, and whatever rewards submitters report.                         *)
THEOREM RewardAlwaysFalls == ASSUME Falling PROVE Spec => []RewardFallsAtHalvings
<1>1. IInv => RewardFallsAtHalvings
  <2> SUFFICES ASSUME IInv, NEW s \in templates, NEW t \in templates, s.number + 1 = t.number
               PROVE  /\ t.reward <= s.reward
                      /\ t.reward # s.reward =>
                            \E j \in 1..Len(genesis.halvingSchedule) :
                               genesis.halvingSchedule[j].afterBlocks = s.number
    BY DEF RewardFallsAtHalvings
  <2>1. /\ s.number \in Nat /\ genesis \in Configs
        /\ s.reward = CalculateBlockReward(genesis, s.number)
        /\ t.reward = CalculateBlockReward(genesis, s.number + 1)
    BY TemplateType DEF IInv
  <2> QED
    BY <2>1, RewardFalls, RewardStays
<1> QED
  BY <1>1, Invariance, PTL

(* What the miner's own target lets pass on the best block, validateBlockV2*)
(* accepts, and so do the rules of ConsensusManager for headers, which     *)
(* compute the difficulty again: with every configuration, for templates of*)
(* any age.                                                                *)
THEOREM MinedAlwaysAccepted == Spec => []MinedIsAccepted
<1>1. IInv => MinedIsAccepted
  <2> SUFFICES ASSUME IInv, NEW t \in templates, NEW zeros \in 0..HashBits,
                      t.number = Height + 1, MeetsTarget(zeros, t.difficulty)
               PROVE  ValidateBlock(Sealed(t, t, zeros)) /\ ManagerValidates(Sealed(t, t, zeros))
    BY DEF MinedIsAccepted
  <2>1. /\ t.number = Len(chain) /\ chain[Len(chain)].number = Len(chain) - 1
        /\ t.difficulty = CalculateDifficulty(genesis, t.number, chain[Len(chain)].difficulty)
    BY DEF IInv, Height
  <2>2. ValidateBlock(Sealed(t, t, zeros))
    BY DEF MeetsTarget, ValidateBlock, ValidateProofOfWork, Sealed
  <2>3. t.difficulty <= EasyDifficulty \/ IsValidHash(zeros, t.difficulty)
    BY DEF MeetsTarget, IsValidHash
  <2>4. Len(chain) >= Len(chain) - 1
    BY DEF IInv
  <2>5. ManagerValidates(Sealed(t, t, zeros))
    BY <2>1, <2>3, <2>4 DEF ManagerValidates, Sealed
  <2> QED
    BY <2>2, <2>5
<1> QED
  BY <1>1, Invariance, PTL

-----------------------------------------------------------------------------
(* What holds for configurations whose difficulties have a target.         *)

(* The assumption that the default configuration of loadGenesis violates:  *)
(* with and without its launch guard a network has difficulties that a     *)
(* word of 64 bits has a target for, and nobody reports difficulty 0.      *)
Mineable ==
    /\ \A g \in Configs :
          /\ g.initialDifficulty \in 1..WordBits
          /\ GuardDifficulty(g) \in 1..WordBits
    /\ \A reported \in Reported : reported.difficulty >= 1

(* Every block and every template has a difficulty with a target: the node *)
(* accepts none above 64, and those above 20 only with a proof of work.    *)
MineableInv ==
    /\ \A i \in 1..Len(chain) : chain[i].difficulty \in 1..WordBits
    /\ \A t \in templates : t.difficulty \in 1..WordBits

(* The difficulty of a template has a target if its parent's has one.      *)
LEMMA DifficultyHasTarget ==
    ASSUME Mineable, NEW g \in Configs, NEW height \in Nat,
           NEW parentDifficulty \in 1..WordBits
    PROVE  CalculateDifficulty(g, height, parentDifficulty) \in 1..WordBits
BY DEF Mineable, CalculateDifficulty

(* What validateBlockV2 accepts with a difficulty above 0 lies in a word.  *)
LEMMA WordRange ==
    ASSUME NEW d \in Nat, d >= 1, d <= EasyDifficulty \/ d <= WordBits
    PROVE  d \in 1..WordBits
OBVIOUS

(* So has any block that the node accepts, but for difficulty 0.           *)
LEMMA AppendMineable ==
    ASSUME IInv, MineableInv, NEW t \in templates, NEW reported, NEW zeros \in Zeros,
           reported.difficulty \in Nat, reported.difficulty >= 1,
           ValidateBlock(Sealed(t, reported, zeros)),
           chain' = Append(chain, Sealed(t, reported, zeros)),
           UNCHANGED <<genesis, templates>>
    PROVE  MineableInv'
<1> DEFINE b == Sealed(t, reported, zeros)
<1>1. b.difficulty \in 1..WordBits
  <2>1. b.difficulty = reported.difficulty
    BY DEF Sealed
  <2>2. reported.difficulty <= EasyDifficulty \/ reported.difficulty <= WordBits
    BY <2>1 DEF ValidateBlock, ValidateProofOfWork
  <2> QED
    BY <2>1, <2>2, WordRange
<1>2. chain' = Append(chain, b)
  OBVIOUS
<1> HIDE DEF b
<1>3. /\ Len(chain) \in Nat /\ Len(chain') = Len(chain) + 1
      /\ \A i \in 1..Len(chain) : chain'[i] = chain[i]
      /\ chain'[Len(chain) + 1] = b
  BY <1>2 DEF IInv
<1>4. \A i \in 1..Len(chain') : chain'[i].difficulty \in 1..WordBits
  <2> TAKE i \in 1..Len(chain')
  <2>1. i \in 1..Len(chain) \/ i = Len(chain) + 1
    BY <1>3
  <2> QED
    BY <1>1, <1>3, <2>1 DEF MineableInv
<1> QED
  BY <1>4 DEF MineableInv

LEMMA NextMineable ==
    ASSUME Mineable, IInv, MineableInv, [Next]_vars
    PROVE  MineableInv'
<1>1. CASE CreateNewBlock
  <2> DEFINE parent == chain[Len(chain)]
             height == parent.number + 1
             difficulty == CalculateDifficulty(genesis, height, parent.difficulty)
  <2>1. height \in Nat /\ genesis \in Configs /\ parent.difficulty \in 1..WordBits
    BY DEF IInv, MineableInv
  <2>2. /\ \A t \in templates' : t \in templates \/ t.difficulty = difficulty
        /\ UNCHANGED <<genesis, chain>>
    BY <1>1 DEF CreateNewBlock
  <2> HIDE DEF parent, height
  <2>3. difficulty \in 1..WordBits
    BY <2>1, DifficultyHasTarget
  <2> HIDE DEF difficulty
  <2> QED
    BY <2>2, <2>3 DEF MineableInv
<1>2. CASE \E t \in templates, zeros \in Zeros : MineBlock(t, zeros)
  <2>1. PICK t \in templates, zeros \in Zeros : MineBlock(t, zeros)
    BY <1>2
  <2>2. t.difficulty \in Nat \ {0}
    <3>1. t.difficulty \in 1..WordBits
      BY DEF MineableInv
    <3> QED
      BY <3>1
  <2> QED
    BY <2>1, <2>2, AppendMineable DEF MineBlock
<1>3. CASE \E t \in templates, zeros \in Zeros, reported \in Reported :
              SubmitBlock(t, reported, zeros)
  <2>1. PICK t \in templates, zeros \in Zeros, reported \in Reported :
               SubmitBlock(t, reported, zeros)
    BY <1>3
  <2>2. reported.difficulty \in Nat \ {0}
    BY ConsensusAssumption DEF Mineable
  <2> QED
    BY <2>1, <2>2, AppendMineable DEF SubmitBlock
<1>4. CASE UNCHANGED vars
  BY <1>4 DEF vars, MineableInv
<1> QED
  BY <1>1, <1>2, <1>3, <1>4 DEF Next

(* Every template that the node gives out can be mined (CreateNewBlockV2   *)
(* and mineBlock), for ever and in every network whose configuration is    *)
(* Mineable, though the node takes a block's difficulty from the request   *)
(* and computes the next one from it.                                      *)
THEOREM TemplatesAlwaysMineable == ASSUME Mineable PROVE Spec => []TemplateCanBeMined
<1>1. MineableInv => TemplateCanBeMined
  <2> SUFFICES ASSUME MineableInv, NEW t \in templates
               PROVE  \E zeros \in 0..HashBits : MeetsTarget(zeros, t.difficulty)
    BY DEF TemplateCanBeMined
  <2>1. t.difficulty \in 1..WordBits
    BY DEF MineableInv
  <2>2. MeetsTarget(t.difficulty, t.difficulty)
    BY <2>1 DEF MeetsTarget
  <2> QED
    BY <2>1, <2>2
<1>2. Mineable /\ Init => MineableInv
  BY DEF Init, MineableInv, Mineable
<1>3. Mineable /\ IInv /\ MineableInv /\ [Next]_vars => MineableInv'
  BY NextMineable
<1> QED
  BY <1>1, <1>2, <1>3, Invariance, PTL DEF Spec
=============================================================================
