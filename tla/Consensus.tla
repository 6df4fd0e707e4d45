------------------------------ MODULE Consensus ------------------------------
(***************************************************************************)
(* The consensus rules that the node and its miners follow: difficulty and *)
(* reward of a template (core/consensus.go, core/blockchain.go), the target*)
(* that kalon-miner-v2 mines for, and the proof of work that the node asks *)
(* for.  All come from the genesis configuration, which is chosen once.    *)
(*                                                                         *)
(* ConsensusManager.ValidateBlock, which the miner in the package mining   *)
(* uses (module LegacyMiner), has rules of its own: of these, those about  *)
(* headers are here.                                                       *)
(*                                                                         *)
(* Of a hash only the number of its leading zero bits matters.  A          *)
(* template's parent is given by its number: nothing is lost or replaced   *)
(* here (modules ChainStore and Ledger have that).                         *)
(*                                                                         *)
(* Definitions named X_Y are X with one mistake: each shows that a property*)
(* notices it, and no specification uses them.                             *)
(***************************************************************************)
EXTENDS Integers, Sequences, SequencesExt

CONSTANTS
    Configs,    \* the genesis configurations
    Zeros,      \* the leading zero bits that a hash can have
    Reported,   \* what submitters other than kalon-miner-v2 write into a block
    MaxHeight   \* bound: the last block

WordBits == 64         \* bits of a uint64
HashBits == 256        \* and of a hash
EasyDifficulty == 20   \* up to here the node accepts any hash

(* GenesisConfig: the fields that the rules use.  floorTenths is ten times *)
(* difficultyFloorMultiplier, and perMille a thousand times a             *)
(* rewardMultiplier.                                                       *)
Config == [blockTimeTarget : Nat \ {0}, initialReward : Nat, initialDifficulty : Nat,
           window : Nat, guardEnabled : BOOLEAN, durationHours : Nat, floorTenths : Nat,
           halvingSchedule : Seq([afterBlocks : Nat, perMille : Nat])]

ASSUME ConsensusAssumption ==
    /\ \A c \in Configs : c \in Config
    /\ Zeros \subseteq 0..HashBits
    /\ Reported \subseteq [difficulty : Nat, reward : Nat]
    /\ MaxHeight \in Nat

VARIABLES
    genesis,     \* the configuration of this network
    chain,       \* the node's blocks, the genesis block first
    templates    \* templates given to miners

vars == <<genesis, chain, templates>>

Height == Len(chain) - 1

-----------------------------------------------------------------------------
(* The rules.                                                              *)

LaunchGuardBlocks(g) == (g.durationHours * 3600) \div g.blockTimeTarget
GuardDifficulty(g) == (g.initialDifficulty * g.floorTenths) \div 10
IsLaunchGuardActive(g, height) == g.guardEnabled /\ height < LaunchGuardBlocks(g)

CalculateDifficulty_Doubles(g, height, parentDifficulty) ==
    IF IsLaunchGuardActive(g, height) THEN GuardDifficulty(g)
    ELSE IF height < g.window THEN parentDifficulty
    ELSE 2 * parentDifficulty

(* ConsensusManager.CalculateDifficulty, for a height above 0: the factor  *)
(* of the adjustment is always 1, and from the window on the least         *)
(* difficulty is 1.                                                        *)
CalculateDifficulty(g, height, parentDifficulty) ==
    IF IsLaunchGuardActive(g, height) THEN GuardDifficulty(g)
    ELSE IF height < g.window \/ parentDifficulty >= 1 THEN parentDifficulty
    ELSE 1

Halve_AtLeast(number, reward, h) ==
    IF number >= h.afterBlocks THEN (reward * h.perMille) \div 1000 ELSE reward

(* One entry of the halving schedule.                                      *)
Halve(number, reward, h) ==
    IF number > h.afterBlocks THEN (reward * h.perMille) \div 1000 ELSE reward

(* calculateBlockReward: every halving that is passed multiplies what the  *)
(* earlier ones left.  The launch guard's own reward is not used.          *)
CalculateBlockReward(g, number) ==
    FoldLeft(LAMBDA reward, h : Halve(number, reward, h), g.initialReward, g.halvingSchedule)

MeetsTarget_OneBitLess(zeros, difficulty) ==
    difficulty \in 1..WordBits /\ zeros >= difficulty - 1

(* hashInt < 1 << (64 - difficulty), for the first eight bytes of a hash.  *)
(* For difficulty 0, and for more than 64, where 64 - difficulty wraps     *)
(* around, the bit is shifted out and the target is 0.                     *)
MeetsTarget(zeros, difficulty) ==
    difficulty \in 1..WordBits /\ zeros >= difficulty

(* ValidateProofOfWorkV2 computes the same target in a line of its own.    *)
ValidateProofOfWork(b) ==
    \/ b.difficulty <= EasyDifficulty
    \/ b.difficulty <= WordBits /\ b.zeros >= b.difficulty

(* CalculateTarget and IsValidHash of ConsensusManager: all 256 bits count,*)
(* and one zero bit less is asked for.                                     *)
IsValidHash(zeros, difficulty) ==
    \/ difficulty <= 1
    \/ zeros >= difficulty - 1
    \/ zeros = HashBits

-----------------------------------------------------------------------------
(* createGenesisBlockV2, for a configuration that loadGenesis returns.     *)
Init ==
    /\ genesis \in Configs
    /\ chain = <<[number |-> 0, difficulty |-> genesis.initialDifficulty, zeros |-> 0,
                  reward |-> 0]>>
    /\ templates = {}

CreateNewBlock_SkipsOne ==
    /\ Height + 1 < MaxHeight
    /\ LET parent == chain[Len(chain)]
           height == parent.number + 2
       IN  templates' = templates \cup
              {[number     |-> height,
                difficulty |-> CalculateDifficulty(genesis, height, parent.difficulty),
                reward     |-> CalculateBlockReward(genesis, height)]}
    /\ UNCHANGED <<genesis, chain>>

(* CreateNewBlockV2 on the best block.                                     *)
CreateNewBlock ==
    /\ Height < MaxHeight
    /\ LET parent == chain[Len(chain)]
           height == parent.number + 1
       IN  templates' = templates \cup
              {[number     |-> height,
                difficulty |-> CalculateDifficulty(genesis, height, parent.difficulty),
                reward     |-> CalculateBlockReward(genesis, height)]}
    /\ UNCHANGED <<genesis, chain>>

(* A block for a template.  parseBlockData takes difficulty and reward from*)
(* the request.                                                            *)
Sealed(t, reported, zeros) ==
    [number |-> t.number, difficulty |-> reported.difficulty, zeros |-> zeros,
     reward |-> reported.reward]

(* validateBlockV2: the node recomputes neither the difficulty of a block, *)
(* nor its reward.                                                         *)
ValidateBlock(b) ==
    /\ b.number = Height + 1
    /\ ValidateProofOfWork(b)

(* What ConsensusManager.ValidateBlock asks of the header of a block on the *)
(* best block, its time and parent hash aside: a number may be skipped, but*)
(* the difficulty is computed again.                                       *)
ManagerValidates(b) ==
    LET parent == chain[Len(chain)]
    IN  /\ b.number >= parent.number
        /\ b.difficulty = CalculateDifficulty(genesis, b.number, parent.difficulty)
        /\ b.difficulty <= EasyDifficulty \/ IsValidHash(b.zeros, b.difficulty)

(* kalon-miner-v2's mineBlock finds a block for a template, with the       *)
(* template's difficulty and reward, and submitBlock adds it if it is valid.*)
MineBlock(t, zeros) ==
    /\ MeetsTarget(zeros, t.difficulty)
    /\ ValidateBlock(Sealed(t, t, zeros))
    /\ chain' = Append(chain, Sealed(t, t, zeros))
    /\ UNCHANGED <<genesis, templates>>

(* submitBlock from somebody else: only the node checks.                   *)
SubmitBlock(t, reported, zeros) ==
    /\ ValidateBlock(Sealed(t, reported, zeros))
    /\ chain' = Append(chain, Sealed(t, reported, zeros))
    /\ UNCHANGED <<genesis, templates>>

Next ==
    \/ CreateNewBlock
    \/ \E t \in templates, zeros \in Zeros :
          \/ MineBlock(t, zeros)
          \/ \E reported \in Reported : SubmitBlock(t, reported, zeros)

Spec == Init /\ [][Next]_vars

-----------------------------------------------------------------------------
(* Properties.                                                             *)

(* Variables have their types, and no template is for a block beyond the   *)
(* next one.                                                               *)
TypeOK ==
    /\ genesis \in Configs
    /\ chain \in Seq([number : Nat, difficulty : Nat, zeros : 0..HashBits, reward : Nat])
    /\ \A t \in templates : t.number \in 1..(Height + 1) /\ t.number <= MaxHeight

(* Every template can be mined: some hash meets its target ("Return default*)
(* genesis with proper difficulty", cmd/kalon-node-v2/main.go:183).        *)
TemplateCanBeMined ==
    \A t \in templates : \E zeros \in 0..HashBits : MeetsTarget(zeros, t.difficulty)

(* The miner, the node and ConsensusManager compute the target separately, *)
(* and ConsensusManager computes the difficulty again: what the miner takes*)
(* for a block on the best block, for a template of any age, the node      *)
(* accepts, and so do ConsensusManager's rules for headers.                *)
MinedIsAccepted ==
    \A t \in templates, zeros \in 0..HashBits :
        t.number = Height + 1 /\ MeetsTarget(zeros, t.difficulty) =>
            LET b == Sealed(t, t, zeros)
               IN  ValidateBlock(b) /\ ManagerValidates(b)

(* The reward of a template never rises from one number to the next, and   *)
(* where it falls, the halving schedule names the lower number, for        *)
(* templates of any age and whatever rewards were paid below them.         *)
RewardFallsAtHalvings ==
    \A s, t \in templates : s.number + 1 = t.number =>
        /\ t.reward <= s.reward
        /\ t.reward # s.reward =>
              \E j \in 1..Len(genesis.halvingSchedule) :
                  genesis.halvingSchedule[j].afterBlocks = s.number

(* Each block has the difficulty that CalculateDifficulty gives for its    *)
(* number and its parent: validation "Prueft ob Difficulty korrekt", checks*)
(* whether it is correct (docs/DIFFICULTY_ANALYSIS.md, section 4).         *)
DifficultyIsChecked ==
    \A i \in 2..Len(chain) :
        chain[i].difficulty =
            CalculateDifficulty(genesis, chain[i].number, chain[i - 1].difficulty)
=============================================================================
