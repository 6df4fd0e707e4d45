----------------------------- MODULE ChainStore -----------------------------
(***************************************************************************)
(* BlockchainV2 (core/blockchain.go) over BlockStorage (storage/leveldb.go)*)
(*                                                                         *)
(* RPC handler goroutines submit blocks.  addBlockV2 validates a block and *)
(* appends it under bc.mu, releases the lock, and only then calls          *)
(* StoreBlock, which writes three LevelDB keys one after the other: so the *)
(* in-memory part is one step and every key access is a step of its own.   *)
(* The process may die between any two steps; NewBlockchainV2 then rebuilds*)
(* the chain from the keys.  A process crash keeps every Put that returned.*)
(*                                                                         *)
(* Definitions named X_Y are X with one mistake: each shows that a property*)
(* notices it, and no specification uses them.                             *)
(*                                                                         *)
(* A block is its header's hash, number, parent hash and timestamp.  Its   *)
(* transactions are in module Ledger; here the UTXO set is the sequence of *)
(* blocks that were applied to it.                                         *)
(***************************************************************************)
EXTENDS Integers, Sequences

CONSTANTS
    Handlers,        \* goroutines of the RPC server that run handleSubmitBlockV2
    Boot,            \* the goroutine that runs NewBlockchainV2
    MaxHash,         \* bound: the last hash that a mined block can have
    MaxBoots,        \* bound: how often the node is started
    Clocks,          \* the times the wall clock can show
    WeakHashes,      \* hashes that miss the target of their block's difficulty
    StorageMayFail,  \* whether a Put can return an error
    NoBlock          \* Go's nil *Block, and the missing value of a key

ASSUME ConstantsAssumption ==
    /\ Boot \notin Handlers
    /\ MaxHash \in Nat /\ MaxHash >= 1
    /\ MaxBoots \in Nat
    /\ Clocks \subseteq Nat
    /\ StorageMayFail \in BOOLEAN

Hashes == 0..MaxHash     \* 0 is Hash{}; mined blocks get 2, 3, ... in turn
Heights == 0..MaxHash
Block == [hash : Hashes, number : Heights, parent : Hashes, timestamp : Clocks \cup {0}]
Genesis == [hash |-> 1, number |-> 0, parent |-> 0, timestamp |-> 0]

ASSUME NoBlockAssumption == NoBlock \notin Block

Goroutines == Handlers \cup {Boot}
Steps == {"idle", "putHash", "putNumber", "readBest", "setBest", "reply"}

VARIABLES
    \* the process
    phase,       \* "down", "booting" (in NewBlockchainV2) or "up" (serving RPC)
    boots,       \* how often the node was started
    dbOpen,      \* whether the LevelDB handle is open
    blocks, height, bestBlock,   \* BlockchainV2's fields of these names
    utxoBlocks,  \* the blocks whose transactions were applied to utxoSet
    pc, job,     \* what each goroutine does next, and for which block
    \* LevelDB
    hashKeys,    \* block_hash_<hash>
    numberKeys,  \* block_number_<number>
    bestKey,     \* best_block: a hash, 0 if the key is missing
    \* the miners
    mined,       \* the blocks they have sealed and can submit
    nextHash,    \* the hash of the next block sealed
    acked,       \* the blocks they were told were added
    \* the node's log
    unsaved      \* the blocks it reports as "Failed to save block to storage"

memory == <<blocks, height, bestBlock, utxoBlocks>>
store == <<hashKeys, numberKeys, bestKey>>
miners == <<mined, nextHash, acked>>
vars == <<phase, boots, dbOpen, memory, pc, job, store, miners, unsaved>>

-----------------------------------------------------------------------------
(* Reading the store.                                                      *)

(* GetBestBlock: best_block names a hash, whose block is then read.  nil   *)
(* when either key is missing.                                             *)
GetBestBlock == IF bestKey = 0 THEN NoBlock ELSE hashKeys[bestKey]

BlocksByNumber_FromOne(n) == [i \in 1..n |-> numberKeys[i]]

(* GetBlockByNumber(0), ..., GetBlockByNumber(n - 1)                       *)
BlocksByNumber(n) == [i \in 1..n |-> numberKeys[i - 1]]

LoadChainFromStorage_SkipsBestUTXOs ==
    IF GetBestBlock = NoBlock
      THEN [blocks |-> <<>>, height |-> 0, best |-> NoBlock, utxo |-> <<>>]
      ELSE LET n == GetBestBlock.number
           IN  [blocks |-> BlocksByNumber(n + 1), height |-> n, best |-> GetBestBlock,
                utxo |-> BlocksByNumber(n)]

(* loadChainFromStorage: blocks 0 to the number of the best block, each    *)
(* applied to the UTXO set as it is read.  At the first that is missing,   *)
(* blocks, height and bestBlock are reset, and the UTXO set is not.        *)
LoadChainFromStorage ==
    LET best    == GetBestBlock
        missing == {i \in 0..best.number : numberKeys[i] = NoBlock}
        first   == CHOOSE i \in missing : \A j \in missing : i <= j
    IN  IF best = NoBlock
          THEN [blocks |-> <<>>, height |-> 0, best |-> NoBlock, utxo |-> <<>>]
        ELSE IF missing # {}
          THEN [blocks |-> <<>>, height |-> 0, best |-> NoBlock,
                utxo |-> BlocksByNumber(first)]
        ELSE [blocks |-> BlocksByNumber(best.number + 1), height |-> best.number,
              best |-> best, utxo |-> BlocksByNumber(best.number + 1)]

-----------------------------------------------------------------------------
(* Starting and stopping.                                                  *)

Init ==
    /\ phase = "down" /\ boots = 0 /\ dbOpen = FALSE
    /\ blocks = <<>> /\ height = 0 /\ bestBlock = NoBlock /\ utxoBlocks = <<>>
    /\ pc = [g \in Goroutines |-> "idle"]
    /\ job = [g \in Goroutines |-> NoBlock]
    /\ hashKeys = [h \in Hashes |-> NoBlock]
    /\ numberKeys = [n \in Heights |-> NoBlock]
    /\ bestKey = 0
    /\ mined = {} /\ nextHash = 2 /\ acked = {}
    /\ unsaved = {}

ValidateBlock_NoParentHash(b) ==
    \/ b.number = 0
    \/ /\ bestBlock # NoBlock
       /\ b.number = bestBlock.number + 1
       /\ b.timestamp >= bestBlock.timestamp
       /\ b.hash \notin WeakHashes

(* validateBlockV2: its early return for number 0, then its checks in turn.*)
ValidateBlock(b) ==
    \/ b.number = 0
    \/ /\ bestBlock # NoBlock
       /\ b.parent = bestBlock.hash
       /\ b.number = bestBlock.number + 1
       /\ b.timestamp >= bestBlock.timestamp
       /\ b.hash \notin WeakHashes

(* NewBlockchainV2 on an opened database.  Nothing else runs yet, so the   *)
(* load is one step; if it leaves height 0 the genesis block is added like *)
(* any other, and the goroutine goes on to store it.                       *)
NewBlockchain ==
    /\ phase = "down" /\ boots < MaxBoots
    /\ boots' = boots + 1
    /\ dbOpen' = TRUE
    /\ LET loaded == LoadChainFromStorage IN
       \/ /\ loaded.height > 0
          /\ blocks' = loaded.blocks
          /\ height' = loaded.height
          /\ bestBlock' = loaded.best
          /\ utxoBlocks' = loaded.utxo
          /\ phase' = "up"
          /\ UNCHANGED <<pc, job>>
       \/ /\ loaded.height = 0 /\ ValidateBlock(Genesis)
          /\ blocks' = Append(loaded.blocks, Genesis)
          /\ height' = Genesis.number
          /\ bestBlock' = Genesis
          /\ utxoBlocks' = Append(loaded.utxo, Genesis)
          /\ phase' = "booting"
          /\ pc' = [pc EXCEPT ![Boot] = "putHash"]
          /\ job' = [job EXCEPT ![Boot] = Genesis]
    /\ UNCHANGED <<store, miners, unsaved>>

(* The process dies: what is not in LevelDB or at a miner is gone.         *)
Crash ==
    /\ phase # "down"
    /\ phase' = "down" /\ dbOpen' = FALSE
    /\ blocks' = <<>> /\ height' = 0 /\ bestBlock' = NoBlock /\ utxoBlocks' = <<>>
    /\ pc' = [g \in Goroutines |-> "idle"]
    /\ job' = [g \in Goroutines |-> NoBlock]
    /\ UNCHANGED <<boots, store, miners, unsaved>>

(* NodeV2.Stop: the RPC server is only told to shut down, so the database  *)
(* is closed under handlers that still run; Crash is the process's exit.   *)
(* A Stop that finds no handler at work is a Crash and nothing more.       *)
CloseStorage ==
    /\ phase = "up" /\ dbOpen /\ StorageMayFail
    /\ dbOpen' = FALSE
    /\ UNCHANGED <<phase, boots, memory, pc, job, store, miners, unsaved>>

-----------------------------------------------------------------------------
(* Mining and submitting.                                                  *)

(* CreateNewBlockV2 hands a miner a template on the best block, and the    *)
(* miner seals it.  It may submit it at once, late, twice or never; it does*)
(* not submit what no template was for, such as a block with number 0,     *)
(* which validateBlockV2 would let in.                                     *)
Mine(t) ==
    /\ phase = "up" /\ nextHash <= MaxHash
    /\ mined' = mined \cup {[hash |-> nextHash, number |-> bestBlock.number + 1,
                             parent |-> bestBlock.hash, timestamp |-> t]}
    /\ nextHash' = nextHash + 1
    /\ UNCHANGED <<phase, boots, dbOpen, memory, pc, job, store, acked, unsaved>>

AddBlock_AnswersAtOnce(h, b) ==
    /\ phase = "up" /\ pc[h] = "idle"
    /\ b \in mined
    /\ ValidateBlock(b)
    /\ blocks' = Append(blocks, b)
    /\ height' = b.number
    /\ bestBlock' = b
    /\ utxoBlocks' = Append(utxoBlocks, b)
    /\ pc' = [pc EXCEPT ![h] = "putHash"]
    /\ job' = [job EXCEPT ![h] = b]
    /\ acked' = acked \cup {b}
    /\ UNCHANGED <<phase, boots, dbOpen, store, mined, nextHash, unsaved>>

(* The part of addBlockV2 under bc.mu.  A block that fails validation is   *)
(* answered with an error and changes nothing.                             *)
AddBlock(h, b) ==
    /\ phase = "up" /\ pc[h] = "idle"
    /\ b \in mined
    /\ ValidateBlock(b)
    /\ blocks' = Append(blocks, b)
    /\ height' = b.number
    /\ bestBlock' = b
    /\ utxoBlocks' = Append(utxoBlocks, b)
    /\ pc' = [pc EXCEPT ![h] = "putHash"]
    /\ job' = [job EXCEPT ![h] = b]
    /\ UNCHANGED <<phase, boots, dbOpen, store, miners, unsaved>>

-----------------------------------------------------------------------------
(* StoreBlock, outside bc.mu, in goroutine g for block job[g].             *)

PutHash(g) ==
    /\ pc[g] = "putHash" /\ dbOpen
    /\ hashKeys' = [hashKeys EXCEPT ![job[g].hash] = job[g]]
    /\ pc' = [pc EXCEPT ![g] = "putNumber"]
    /\ UNCHANGED <<phase, boots, dbOpen, memory, job, numberKeys, bestKey, miners, unsaved>>

PutNumber_AtHeight(g) ==
    /\ pc[g] = "putNumber" /\ dbOpen
    /\ numberKeys' = [numberKeys EXCEPT ![height] = job[g]]
    /\ pc' = [pc EXCEPT ![g] = "readBest"]
    /\ UNCHANGED <<phase, boots, dbOpen, memory, job, hashKeys, bestKey, miners, unsaved>>

PutNumber(g) ==
    /\ pc[g] = "putNumber" /\ dbOpen
    /\ numberKeys' = [numberKeys EXCEPT ![job[g].number] = job[g]]
    /\ pc' = [pc EXCEPT ![g] = "readBest"]
    /\ UNCHANGED <<phase, boots, dbOpen, memory, job, hashKeys, bestKey, miners, unsaved>>

ReadBest_TwoHigher(g) ==
    /\ pc[g] = "readBest"
    /\ LET bestBlockNumber == IF dbOpen /\ GetBestBlock # NoBlock
                                THEN GetBestBlock.number ELSE 0
       IN  pc' = [pc EXCEPT ![g] = IF job[g].number > bestBlockNumber + 1
                                     THEN "setBest" ELSE "reply"]
    /\ UNCHANGED <<phase, boots, dbOpen, memory, job, store, miners, unsaved>>

(* "Update best block if this is higher": the comparison, whose outcome is *)
(* all that is kept.  An error of GetBestBlock is ignored and counts as 0. *)
ReadBest(g) ==
    /\ pc[g] = "readBest"
    /\ LET bestBlockNumber == IF dbOpen /\ GetBestBlock # NoBlock
                                THEN GetBestBlock.number ELSE 0
       IN  pc' = [pc EXCEPT ![g] = IF job[g].number > bestBlockNumber
                                     THEN "setBest" ELSE "reply"]
    /\ UNCHANGED <<phase, boots, dbOpen, memory, job, store, miners, unsaved>>

SetBestBlock(g) ==
    /\ pc[g] = "setBest" /\ dbOpen
    /\ bestKey' = job[g].hash
    /\ pc' = [pc EXCEPT ![g] = "reply"]
    /\ UNCHANGED <<phase, boots, dbOpen, memory, job, hashKeys, numberKeys, miners, unsaved>>

PutFails_GoesOn(g) ==
    /\ pc[g] \in {"putHash", "putNumber", "setBest"}
    /\ StorageMayFail
    /\ unsaved' = unsaved \cup {job[g]}
    /\ pc' = [pc EXCEPT ![g] = CASE pc[g] = "putHash"   -> "putNumber"
                                 [] pc[g] = "putNumber" -> "readBest"
                                 [] pc[g] = "setBest"   -> "reply"]
    /\ UNCHANGED <<phase, boots, dbOpen, memory, job, store, miners>>

(* A Put returns an error.  StoreBlock gives up and returns it; addBlockV2 *)
(* logs it and goes on as if the block were stored.                        *)
PutFails(g) ==
    /\ pc[g] \in {"putHash", "putNumber", "setBest"}
    /\ StorageMayFail
    /\ unsaved' = unsaved \cup {job[g]}
    /\ pc' = [pc EXCEPT ![g] = "reply"]
    /\ UNCHANGED <<phase, boots, dbOpen, memory, job, store, miners>>

(* addBlockV2 returns nil: the submitter gets success, or the node that was*)
(* booting starts to serve.                                                *)
Reply(g) ==
    /\ pc[g] = "reply"
    /\ acked' = IF g = Boot THEN acked ELSE acked \cup {job[g]}
    /\ phase' = "up"
    /\ pc' = [pc EXCEPT ![g] = "idle"]
    /\ job' = [job EXCEPT ![g] = NoBlock]
    /\ UNCHANGED <<boots, dbOpen, memory, store, mined, nextHash, unsaved>>

StoreStep(g) ==
    \/ PutHash(g)
    \/ PutNumber(g)
    \/ ReadBest(g)
    \/ SetBestBlock(g)
    \/ PutFails(g)
    \/ Reply(g)

Next ==
    \/ NewBlockchain
    \/ Crash
    \/ CloseStorage
    \/ \E t \in Clocks : Mine(t)
    \/ \E h \in Handlers, b \in mined : AddBlock(h, b)
    \/ \E g \in Goroutines : StoreStep(g)

Spec == Init /\ [][Next]_vars

-----------------------------------------------------------------------------
(* Properties.                                                             *)

(* Fields, keys and goroutines have values of their types; in particular   *)
(* the chain in memory has no nil block.                                   *)
TypeOK ==
    /\ phase \in {"down", "booting", "up"}
    /\ boots \in Nat
    /\ dbOpen \in BOOLEAN
    /\ blocks \in Seq(Block) /\ utxoBlocks \in Seq(Block)
    /\ height \in Heights
    /\ bestBlock \in Block \cup {NoBlock}
    /\ pc \in [Goroutines -> Steps]
    /\ job \in [Goroutines -> Block \cup {NoBlock}]
    /\ hashKeys \in [Hashes -> Block \cup {NoBlock}]
    /\ numberKeys \in [Heights -> Block \cup {NoBlock}]
    /\ bestKey \in Hashes
    /\ mined \in SUBSET Block /\ nextHash \in Nat
    /\ acked \in SUBSET Block /\ unsaved \in SUBSET Block

Abstract == INSTANCE DurableChain WITH
    chain <- IF phase = "down"
               THEN IF LoadChainFromStorage.height = 0
                      THEN Append(LoadChainFromStorage.blocks, Genesis)
                      ELSE LoadChainFromStorage.blocks
               ELSE blocks,
    confirmed <- acked

(* The blocks of the node follow each other from the genesis block, and    *)
(* bestBlock and height describe the last of them: what a template, the    *)
(* next validation and the RPC answers are based on, and what a load that  *)
(* never compares parent hashes has to find in the store.                  *)
ChainLinked ==
    phase # "down" =>
        /\ Len(blocks) > 0 /\ blocks[1] = Genesis
        /\ \A i \in 1..(Len(blocks) - 1) : Abstract!Follows(blocks[i], blocks[i + 1])
        /\ bestBlock = blocks[Len(blocks)]
        /\ height = Len(blocks) - 1

(* Each block of the chain is applied to the UTXO set once, in order, and  *)
(* after it nothing else: blocks are applied when added and again at every *)
(* load.  What is there beside them comes before them, and is what a load  *)
(* that was given up (core/blockchain.go:576-583) had read: blocks 0, 1,   *)
(* ... in turn, and never those of two such loads.                         *)
UtxoIsLeftoverThenChain ==
    LET leftover == Len(utxoBlocks) - Len(blocks)
    IN  /\ leftover >= 0
        /\ \A i \in 1..leftover : utxoBlocks[i].number = i - 1
        /\ \A i \in 1..Len(blocks) : utxoBlocks[leftover + i] = blocks[i]
        /\ leftover > 0 => blocks # <<>> /\ blocks[1] = Genesis

(* The UTXO set is that of the chain: a load that is given up does not only*)
(* reset the chain ("Reset and start fresh", core/blockchain.go:578).  The *)
(* genesis block, which has no transactions, does not count.               *)
UtxoMatchesChain ==
    LET notGenesis(b) == b # Genesis
    IN  SelectSeq(utxoBlocks, notGenesis) = SelectSeq(blocks, notGenesis)

(* best_block never names a block that is not stored under its hash: at    *)
(* any time the process may die and the next one look it up.               *)
BestKeyResolves == bestKey # 0 => hashKeys[bestKey] # NoBlock

(* While no store is under way, each block of the chain is the one stored  *)
(* under its number, but for those reported as not saved: blocks are       *)
(* stored outside bc.mu, in any order, by whichever goroutine added them.  *)
QuietStoreComplete ==
    (phase = "up" /\ \A g \in Goroutines : pc[g] = "idle") =>
        \A i \in 1..Len(blocks) :
            blocks[i] \in unsaved \/ numberKeys[i - 1] = blocks[i]

(* A block that a miner was told was added is in the chain, and would be   *)
(* if the node were restarted now.                                         *)
AckedSurvive ==
    \A b \in acked :
        /\ phase # "down" => \E i \in 1..Len(blocks) : blocks[i] = b
        /\ LET reloaded == LoadChainFromStorage.blocks
           IN  \E i \in 1..Len(reloaded) : reloaded[i] = b

(* A node whose miners submit one block at a time and whose storage does   *)
(* not fail keeps DurableChain's promise through crashes and restarts.     *)
ImplementsDurableChain == Abstract!Spec
=============================================================================
