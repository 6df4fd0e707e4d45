---------------------------- MODULE MCConsensus ----------------------------
EXTENDS Consensus

(* One hour of launch guard is three blocks, unless it is switched off.    *)
Genesis(difficulty, guard, floorTenths) ==
    [blockTimeTarget |-> 1200, initialReward |-> 1000, initialDifficulty |-> difficulty,
     window |-> 4, guardEnabled |-> guard, durationHours |-> 1, floorTenths |-> floorTenths,
     halvingSchedule |-> <<[afterBlocks |-> 2, perMille |-> 500],
                           [afterBlocks |-> 5, perMille |-> 250]>>]

(* Difficulties around the limit for easy blocks and up to the last that   *)
(* has a target; genesis/testnet.json has 23, genesis/mainnet.json 1 with  *)
(* a guard of 8.                                                           *)
MineableConfigs ==
    {Genesis(difficulty, FALSE, 10) : difficulty \in {1, 20, 21, 23, 64}}
        \cup {Genesis(1, TRUE, 80), Genesis(3, TRUE, 80), Genesis(30, TRUE, 5)}

(* Blocks that are easier or harder than their template says, or pay more. *)
SomeReported == {[difficulty |-> 1, reward |-> 1000], [difficulty |-> 22, reward |-> 5000]}

NoneReported == {}

(* What loadGenesis returns when there is no genesis file.                 *)
DefaultConfig ==
    {[blockTimeTarget |-> 30, initialReward |-> 5000000, initialDifficulty |-> 5000,
      window |-> 120, guardEnabled |-> TRUE, durationHours |-> 24, floorTenths |-> 40,
      halvingSchedule |-> <<>>]}
=============================================================================
