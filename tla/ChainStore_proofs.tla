-------------------------- MODULE ChainStore_proofs --------------------------
(***************************************************************************)
(* Theorems about ChainStore.                                              *)
(*                                                                         *)
(* For every number of handlers, with crashes, restarts and failing Puts:  *)
(* TypeCorrect, BestKeyAlwaysResolves, QuietStoreAlwaysComplete and        *)
(* UtxoAlwaysLeftoverThenChain.                                            *)
(* For one handler and a storage that does not fail, with crashes and      *)
(* restarts: ChainAlwaysLinked, AckedAlwaysSurvive and Refinement.         *)
(***************************************************************************)
EXTENDS ChainStore, SequenceTheorems, FiniteSetTheorems, TLAPS

(* A set of naturals that is not empty has a least element.                *)
LEMMA LeastElement ==
    ASSUME NEW M, M \subseteq Nat, M # {}
    PROVE  \E m \in M : \A k \in M : m <= k
<1> DEFINE R == StrictSubsetOrdering(Nat)
           T == {0..m : m \in M}
<1>1. IsWellFoundedOn(R, FiniteSubsetsOf(Nat))
  BY FS_StrictSubsetOrderingWellFounded
<1>2. T \subseteq FiniteSubsetsOf(Nat) /\ T # {}
  <2>1. \A m \in M : 0..m \subseteq Nat /\ IsFiniteSet(0..m)
    BY FS_Interval
  <2> QED BY <2>1 DEF FiniteSubsetsOf
<1> HIDE DEF R, T
<1>3. PICK t \in T : \A u \in T : <<u, t>> \notin R
  BY <1>1, <1>2, WFMin
<1>4. PICK m \in M : t = 0..m
  BY DEF T
<1>5. ASSUME NEW k \in M, k < m
      PROVE  FALSE
  <2>1. 0..k \in T
    BY DEF T
  <2>2. 0..k \subseteq 0..m /\ 0..k # 0..m /\ 0..k \in SUBSET Nat /\ 0..m \in SUBSET Nat
    BY <1>5
  <2>3. <<0..k, 0..m>> \in R
    BY <2>2 DEF R, StrictSubsetOrdering
  <2> QED BY <1>3, <1>4, <2>1, <2>3
<1> QED BY <1>5

-----------------------------------------------------------------------------
(* Types, and what every key, goroutine and field refers to.               *)

Known == mined \cup {Genesis}

KnownInv ==
    /\ nextHash \in 2..(MaxHash + 1)
    /\ \A b \in Known : b.number < b.hash /\ b.hash < nextHash
    /\ \A a, b \in Known : a.hash = b.hash => a = b
    /\ \A b \in mined : b.number >= 1

StoreInv ==
    /\ \A h \in Hashes : hashKeys[h] # NoBlock =>
          hashKeys[h] \in Known /\ hashKeys[h].hash = h
    /\ \A n \in Heights : numberKeys[n] # NoBlock =>
          numberKeys[n] \in Known /\ numberKeys[n].number = n
    /\ BestKeyResolves

JobInv ==
    /\ phase # "down" => bestBlock \in Known /\ bestBlock.number = height
    /\ phase = "down" => \A g \in Goroutines : pc[g] = "idle"
    /\ \A g \in Goroutines : pc[g] # "idle" => job[g] \in Known
    /\ \A g \in Goroutines : pc[g] \in {"putNumber", "readBest", "setBest"} =>
          hashKeys[job[g].hash] = job[g]

TypeInv == TypeOK /\ KnownInv /\ StoreInv /\ JobInv

LEMMA GenesisIsBlock ==
    /\ Genesis \in Block
    /\ Genesis.number = 0 /\ Genesis.hash = 1 /\ Genesis.timestamp = 0
    /\ Genesis # NoBlock
BY ConstantsAssumption, NoBlockAssumption DEF Genesis, Block, Hashes, Heights

LEMMA BlockFields ==
    ASSUME NEW b \in Block
    PROVE  /\ b.hash \in Hashes /\ b.number \in Heights /\ b.parent \in Hashes
           /\ b.timestamp \in Nat
           /\ b # NoBlock
<1>1. Clocks \cup {0} \subseteq Nat
  BY ConstantsAssumption
<1>2. b.hash \in Hashes /\ b.number \in Heights /\ b.parent \in Hashes
        /\ b.timestamp \in Clocks \cup {0}
  BY DEF Block
<1> QED BY <1>1, <1>2, NoBlockAssumption

LEMMA HeightsAreNat == Heights \subseteq Nat /\ Hashes \subseteq Nat
BY ConstantsAssumption DEF Heights, Hashes

(* Blocks read by number, none of which is missing, form a sequence.       *)
LEMMA BlocksByNumberIsSeq ==
    ASSUME TypeOK, NEW n \in Nat, n <= MaxHash + 1,
           \A i \in 0..(n - 1) : numberKeys[i] # NoBlock
    PROVE  /\ BlocksByNumber(n) \in Seq(Block)
           /\ Len(BlocksByNumber(n)) = n
           /\ \A i \in 1..n : BlocksByNumber(n)[i] = numberKeys[i - 1]
<1>1. \A i \in 1..n : numberKeys[i - 1] \in Block
  BY ConstantsAssumption DEF TypeOK, Heights
<1>2. BlocksByNumber(n) \in Seq(Block)
  BY <1>1, IsASeq DEF BlocksByNumber
<1>3. Len(BlocksByNumber(n)) = n
  BY DEF BlocksByNumber
<1> QED BY <1>2, <1>3 DEF BlocksByNumber

LEMMA LoadIsTyped ==
    ASSUME TypeInv
    PROVE  LET loaded == LoadChainFromStorage
           IN  /\ loaded.blocks \in Seq(Block)
               /\ loaded.utxo \in Seq(Block)
               /\ loaded.height \in Heights
               /\ loaded.height > 0 =>
                    loaded.best \in Known /\ loaded.best.number = loaded.height
<1> DEFINE best == GetBestBlock
           missing == {i \in 0..best.number : numberKeys[i] = NoBlock}
           first == CHOOSE i \in missing : \A j \in missing : i <= j
<1>1. best = NoBlock \/ (best \in Block /\ best \in Known)
  BY GenesisIsBlock DEF TypeInv, TypeOK, StoreInv, GetBestBlock, Known
<1>2. CASE best = NoBlock
  BY <1>2, ConstantsAssumption DEF LoadChainFromStorage, Heights
<1>3. CASE best # NoBlock /\ missing # {}
  <2>1. best.number \in Nat /\ best.number <= MaxHash
    BY <1>1, <1>3, BlockFields, ConstantsAssumption DEF Heights
  <2>2. missing \subseteq Nat
    BY <2>1
  <2>3. first \in missing /\ \A j \in missing : first <= j
    <3> HIDE DEF missing
    <3> QED BY <1>3, <2>2, LeastElement
  <2>4. BlocksByNumber(first) \in Seq(Block)
    <3>1. \A i \in 0..(first - 1) : numberKeys[i] # NoBlock
      BY <2>1, <2>3
    <3>2. first \in Nat /\ first <= MaxHash + 1
      BY <2>1, <2>3, ConstantsAssumption
    <3> HIDE DEF first
    <3> QED BY <3>1, <3>2, BlocksByNumberIsSeq DEF TypeInv
  <2>5. LoadChainFromStorage = [blocks |-> <<>>, height |-> 0, best |-> NoBlock,
                                utxo |-> BlocksByNumber(first)]
    BY <1>3 DEF LoadChainFromStorage
  <2> HIDE DEF first
  <2> QED BY <2>4, <2>5, ConstantsAssumption DEF Heights
<1>4. CASE best # NoBlock /\ missing = {}
  <2>1. best.number \in Heights
    BY <1>1, <1>4, BlockFields
  <2>2. BlocksByNumber(best.number + 1) \in Seq(Block)
    <3>1. best.number + 1 \in Nat /\ best.number + 1 <= MaxHash + 1
      BY <2>1, ConstantsAssumption DEF Heights
    <3>2. \A i \in 0..best.number : numberKeys[i] # NoBlock
      BY <1>4
    <3> HIDE DEF best
    <3>3. PICK n \in Nat : n = best.number + 1 /\ n <= MaxHash + 1
      BY <3>1
    <3>4. \A i \in 0..(n - 1) : numberKeys[i] # NoBlock
      <4>1. best.number \in Nat
        BY <2>1, HeightsAreNat
      <4>2. n - 1 = best.number
        BY <3>3, <4>1
      <4> QED BY <3>2, <4>2
    <3>5. BlocksByNumber(n) \in Seq(Block)
      BY <3>3, <3>4, BlocksByNumberIsSeq DEF TypeInv
    <3> QED BY <3>3, <3>5
  <2>3. LoadChainFromStorage =
          [blocks |-> BlocksByNumber(best.number + 1), height |-> best.number,
           best |-> best, utxo |-> BlocksByNumber(best.number + 1)]
    BY <1>4 DEF LoadChainFromStorage
  <2> QED BY <1>1, <1>4, <2>1, <2>2, <2>3
<1> QED BY <1>2, <1>3, <1>4

LEMMA TypeInvInit == Init => TypeInv
<1> SUFFICES ASSUME Init PROVE TypeInv
  OBVIOUS
<1>1. TypeOK
  <2>1. blocks \in Seq(Block) /\ utxoBlocks \in Seq(Block)
    BY EmptySeq DEF Init
  <2>2. height \in Heights /\ bestKey \in Hashes
    BY ConstantsAssumption DEF Init, Heights, Hashes
  <2>3. pc \in [Goroutines -> Steps] /\ job \in [Goroutines -> Block \cup {NoBlock}]
    BY DEF Init, Steps
  <2>4. /\ hashKeys \in [Hashes -> Block \cup {NoBlock}]
        /\ numberKeys \in [Heights -> Block \cup {NoBlock}]
    BY DEF Init
  <2> QED BY <2>1, <2>2, <2>3, <2>4 DEF Init, TypeOK
<1>2. KnownInv
  BY GenesisIsBlock, ConstantsAssumption DEF Init, KnownInv, Known
<1>3. StoreInv
  BY DEF Init, StoreInv, BestKeyResolves
<1>4. JobInv
  BY DEF Init, JobInv
<1> QED BY <1>1, <1>2, <1>3, <1>4 DEF TypeInv

LEMMA TypeInvNewBlockchain == TypeInv /\ NewBlockchain => TypeInv'
<1> SUFFICES ASSUME TypeInv, NewBlockchain PROVE TypeInv'
  OBVIOUS
<1> DEFINE loaded == LoadChainFromStorage
<1>0. /\ loaded.blocks \in Seq(Block) /\ loaded.utxo \in Seq(Block)
      /\ loaded.height \in Heights
      /\ loaded.height > 0 =>
           loaded.best \in Known /\ loaded.best.number = loaded.height
  BY LoadIsTyped
<1> HIDE DEF loaded
<1>1. /\ boots' \in Nat /\ dbOpen' \in BOOLEAN
      /\ UNCHANGED <<store, miners, unsaved>>
  BY DEF NewBlockchain, TypeInv, TypeOK
<1>2. /\ Known' = Known /\ KnownInv' /\ StoreInv'
  BY <1>1 DEF TypeInv, KnownInv, StoreInv, Known, store, miners, BestKeyResolves
<1>3. CASE loaded.height > 0 /\ phase' = "up" /\ UNCHANGED <<pc, job>>
           /\ blocks' = loaded.blocks /\ height' = loaded.height
           /\ bestBlock' = loaded.best /\ utxoBlocks' = loaded.utxo
  <2>1. bestBlock' \in Block
    BY <1>0, <1>3, GenesisIsBlock DEF Known, TypeInv, TypeOK
  <2>2. TypeOK'
    BY <1>0, <1>1, <1>3, <2>1 DEF TypeInv, TypeOK, store, miners
  <2>3. JobInv'
    BY <1>0, <1>1, <1>2, <1>3 DEF TypeInv, JobInv, store
  <2> QED BY <1>2, <2>2, <2>3 DEF TypeInv
<1>4. CASE /\ blocks' = Append(loaded.blocks, Genesis) /\ height' = Genesis.number
           /\ bestBlock' = Genesis /\ utxoBlocks' = Append(loaded.utxo, Genesis)
           /\ phase' = "booting"
           /\ pc' = [pc EXCEPT ![Boot] = "putHash"]
           /\ job' = [job EXCEPT ![Boot] = Genesis]
  <2>1. blocks' \in Seq(Block) /\ utxoBlocks' \in Seq(Block)
    BY <1>0, <1>4, GenesisIsBlock, AppendProperties
  <2>2. height' \in Heights
    BY <1>4, GenesisIsBlock, ConstantsAssumption DEF Heights
  <2>3. pc' \in [Goroutines -> Steps] /\ job' \in [Goroutines -> Block \cup {NoBlock}]
    BY <1>4, GenesisIsBlock DEF TypeInv, TypeOK, Steps
  <2>4. TypeOK'
    BY <1>1, <1>4, <2>1, <2>2, <2>3, GenesisIsBlock DEF TypeInv, TypeOK, store, miners
  <2>5. JobInv'
    <3>1. \A g \in Goroutines : pc[g] = "idle"
      BY DEF NewBlockchain, TypeInv, JobInv
    <3>2. \A g \in Goroutines : pc'[g] # "idle" => g = Boot /\ pc'[g] = "putHash" /\ job'[g] = Genesis
      BY <1>4, <3>1 DEF TypeInv, TypeOK
    <3> QED BY <1>2, <1>4, <3>2 DEF JobInv, Known
  <2> QED BY <1>2, <2>4, <2>5 DEF TypeInv
<1> QED BY <1>3, <1>4 DEF NewBlockchain, loaded

LEMMA TypeInvCrash == TypeInv /\ Crash => TypeInv'
<1> SUFFICES ASSUME TypeInv, Crash PROVE TypeInv'
  OBVIOUS
<1>1. TypeOK'
  <2>1. blocks' \in Seq(Block) /\ utxoBlocks' \in Seq(Block)
    BY EmptySeq DEF Crash
  <2>2. height' \in Heights
    BY ConstantsAssumption DEF Crash, Heights
  <2>3. pc' \in [Goroutines -> Steps] /\ job' \in [Goroutines -> Block \cup {NoBlock}]
    BY DEF Crash, Steps
  <2> QED BY <2>1, <2>2, <2>3 DEF Crash, TypeInv, TypeOK, store, miners
<1>2. KnownInv' /\ StoreInv'
  BY DEF TypeInv, KnownInv, StoreInv, Known, Crash, store, miners, BestKeyResolves
<1>3. JobInv'
  BY DEF TypeInv, JobInv, Crash
<1> QED BY <1>1, <1>2, <1>3 DEF TypeInv

LEMMA TypeInvMine == ASSUME NEW t \in Clocks PROVE TypeInv /\ Mine(t) => TypeInv'
<1> SUFFICES ASSUME TypeInv, Mine(t) PROVE TypeInv'
  OBVIOUS
<1> DEFINE b == [hash |-> nextHash, number |-> bestBlock.number + 1,
                 parent |-> bestBlock.hash, timestamp |-> t]
<1>1. /\ mined' = mined \cup {b} /\ nextHash' = nextHash + 1 /\ nextHash <= MaxHash
      /\ UNCHANGED <<phase, boots, dbOpen, memory, pc, job, store, acked, unsaved>>
      /\ bestBlock \in Known
  BY DEF Mine, TypeInv, JobInv
<1>2. /\ nextHash \in Nat /\ nextHash >= 2 /\ nextHash \in Hashes
      /\ bestBlock.hash \in Hashes /\ bestBlock.number \in Heights
      /\ bestBlock.number < bestBlock.hash /\ bestBlock.hash < nextHash
  <2>1. bestBlock \in Block
    BY <1>1, GenesisIsBlock DEF Known, TypeInv, TypeOK
  <2> QED BY <1>1, <2>1, BlockFields, ConstantsAssumption DEF TypeInv, KnownInv, Hashes
<1>3. /\ b \in Block /\ b.hash = nextHash /\ b.number < nextHash /\ b.number = bestBlock.number + 1
  <2>1. bestBlock.number + 1 \in Heights /\ bestBlock.number + 1 < nextHash
    BY <1>1, <1>2, ConstantsAssumption DEF Heights, Hashes
  <2> QED BY <1>2, <2>1 DEF Block
<1> HIDE DEF b
<1>4. TypeOK'
  BY <1>1, <1>2, <1>3 DEF TypeInv, TypeOK, memory, store
<1>5. Known' = Known \cup {b}
  BY <1>1 DEF Known
<1>6. KnownInv'
  <2>1. nextHash' \in 2..(MaxHash + 1)
    BY <1>1, <1>2, ConstantsAssumption
  <2>2. \A a \in Known : a.hash < nextHash /\ a.number < a.hash /\ a.hash \in Nat
    BY BlockFields, GenesisIsBlock, HeightsAreNat DEF TypeInv, TypeOK, KnownInv, Known
  <2>3. \A a \in Known' : a.number < a.hash /\ a.hash < nextHash'
    BY <1>1, <1>2, <1>3, <1>5, <2>2
  <2>4. \A a, c \in Known' : a.hash = c.hash => a = c
    BY <1>2, <1>3, <1>5, <2>2 DEF TypeInv, KnownInv
  <2>5. \A a \in mined' : a.number >= 1
    <3>1. bestBlock.number \in Nat
      BY <1>2, HeightsAreNat
    <3>2. b.number >= 1
      BY <1>3, <3>1
    <3> QED BY <1>1, <3>2 DEF TypeInv, KnownInv
  <2> QED BY <2>1, <2>3, <2>4, <2>5 DEF KnownInv
<1>7. StoreInv'
  BY <1>1, <1>5 DEF TypeInv, StoreInv, store, BestKeyResolves
<1>8. JobInv'
  BY <1>1, <1>5 DEF TypeInv, JobInv, memory, store
<1> QED BY <1>4, <1>6, <1>7, <1>8 DEF TypeInv

LEMMA TypeInvCloseStorage == TypeInv /\ CloseStorage => TypeInv'
<1> SUFFICES ASSUME TypeInv, CloseStorage PROVE TypeInv'
  OBVIOUS
<1>1. /\ dbOpen' \in BOOLEAN
      /\ UNCHANGED <<phase, boots, memory, pc, job, store, miners, unsaved>>
  BY DEF CloseStorage
<1>2. TypeOK'
  BY <1>1 DEF TypeInv, TypeOK, memory, store, miners
<1>3. KnownInv' /\ StoreInv' /\ JobInv'
  BY <1>1 DEF TypeInv, KnownInv, Known, StoreInv, BestKeyResolves, JobInv,
              memory, store, miners
<1> QED BY <1>2, <1>3 DEF TypeInv

LEMMA TypeInvStutter == TypeInv /\ UNCHANGED vars => TypeInv'
<1> SUFFICES ASSUME TypeInv, UNCHANGED vars PROVE TypeInv'
  OBVIOUS
<1>1. TypeOK'
  BY DEF TypeInv, TypeOK, vars, memory, store, miners
<1>2. KnownInv' /\ StoreInv' /\ JobInv'
  BY DEF TypeInv, KnownInv, Known, StoreInv, BestKeyResolves, JobInv,
         vars, memory, store, miners
<1> QED BY <1>1, <1>2 DEF TypeInv

LEMMA TypeInvAddBlock ==
    ASSUME NEW h \in Handlers, NEW b \in mined
    PROVE  TypeInv /\ AddBlock(h, b) => TypeInv'
<1> SUFFICES ASSUME TypeInv, AddBlock(h, b) PROVE TypeInv'
  OBVIOUS
<1>1. /\ b \in Block /\ b \in Known /\ h \in Goroutines
      /\ pc' = [pc EXCEPT ![h] = "putHash"] /\ job' = [job EXCEPT ![h] = b]
      /\ bestBlock' = b /\ height' = b.number /\ phase = "up" /\ phase' = "up"
      /\ UNCHANGED <<boots, dbOpen, store, miners, unsaved>>
  BY DEF AddBlock, TypeInv, TypeOK, Known, Goroutines
<1>2. TypeOK'
  <2>1. blocks' \in Seq(Block) /\ utxoBlocks' \in Seq(Block)
    BY <1>1, AppendProperties DEF AddBlock, TypeInv, TypeOK
  <2>2. height' \in Heights
    BY <1>1, BlockFields DEF AddBlock
  <2>3. pc' \in [Goroutines -> Steps] /\ job' \in [Goroutines -> Block \cup {NoBlock}]
    BY <1>1 DEF TypeInv, TypeOK, Steps
  <2> QED BY <1>1, <2>1, <2>2, <2>3 DEF TypeInv, TypeOK, store, miners
<1>3. KnownInv' /\ StoreInv' /\ Known' = Known
  BY <1>1 DEF TypeInv, KnownInv, StoreInv, Known, store, miners, BestKeyResolves
<1>4. JobInv'
  <2>1. \A g \in Goroutines : pc'[g] # "idle" => job'[g] \in Known
    BY <1>1 DEF TypeInv, TypeOK, JobInv
  <2>2. \A g \in Goroutines : pc'[g] \in {"putNumber", "readBest", "setBest"} =>
           hashKeys[job'[g].hash] = job'[g]
    BY <1>1 DEF TypeInv, TypeOK, JobInv
  <2> QED BY <1>1, <1>3, <2>1, <2>2 DEF JobInv, store
<1> QED BY <1>2, <1>3, <1>4 DEF TypeInv

(* What a goroutine at work is working on.                                 *)
LEMMA JobIsBlock ==
    ASSUME TypeInv, NEW g \in Goroutines, pc[g] # "idle"
    PROVE  /\ job[g] \in Known /\ job[g] \in Block
           /\ job[g].hash \in Hashes /\ job[g].number \in Heights
           /\ job[g] # NoBlock /\ phase # "down"
<1>1. job[g] \in Known /\ phase # "down"
  BY DEF TypeInv, JobInv
<1>2. job[g] \in Block
  BY <1>1, GenesisIsBlock DEF Known, TypeInv, TypeOK
<1> QED BY <1>1, <1>2, BlockFields

LEMMA TypeInvPutHash ==
    ASSUME NEW g \in Goroutines
    PROVE  TypeInv /\ PutHash(g) => TypeInv'
<1> SUFFICES ASSUME TypeInv, PutHash(g) PROVE TypeInv'
  OBVIOUS
<1>1. /\ pc[g] = "putHash"
      /\ hashKeys' = [hashKeys EXCEPT ![job[g].hash] = job[g]]
      /\ pc' = [pc EXCEPT ![g] = "putNumber"]
      /\ UNCHANGED <<phase, boots, dbOpen, memory, job, numberKeys, bestKey, miners, unsaved>>
  BY DEF PutHash
<1>2. /\ job[g] \in Known /\ job[g] \in Block /\ job[g].hash \in Hashes
      /\ job[g] # NoBlock /\ phase # "down"
  BY <1>1, JobIsBlock
<1>3. TypeOK'
  <2>1. hashKeys' \in [Hashes -> Block \cup {NoBlock}]
    BY <1>1, <1>2 DEF TypeInv, TypeOK
  <2>2. pc' \in [Goroutines -> Steps]
    BY <1>1 DEF TypeInv, TypeOK, Steps
  <2> QED BY <1>1, <2>1, <2>2 DEF TypeInv, TypeOK, memory, miners
<1>4. KnownInv' /\ Known' = Known
  BY <1>1 DEF TypeInv, KnownInv, Known, miners
<1>5. StoreInv'
  <2>1. \A x \in Hashes : hashKeys'[x] = IF x = job[g].hash THEN job[g] ELSE hashKeys[x]
    BY <1>1, <1>2 DEF TypeInv, TypeOK
  <2>2. bestKey \in Hashes
    BY DEF TypeInv, TypeOK
  <2> QED BY <1>1, <1>2, <1>4, <2>1, <2>2 DEF TypeInv, StoreInv, BestKeyResolves
<1>6. JobInv'
  <2>1. ASSUME NEW x \in Goroutines, pc'[x] \in {"putNumber", "readBest", "setBest"}
        PROVE  hashKeys'[job[x].hash] = job[x]
    <3>1. CASE x = g
      BY <1>1, <1>2, <3>1 DEF TypeInv, TypeOK
    <3>2. CASE x # g
      <4>1. pc[x] = pc'[x]
        BY <1>1, <3>2 DEF TypeInv, TypeOK
      <4>2. job[x] \in Known /\ job[x].hash \in Hashes /\ hashKeys[job[x].hash] = job[x]
        BY <2>1, <4>1, JobIsBlock DEF TypeInv, JobInv
      <4>3. job[x].hash = job[g].hash => job[x] = job[g]
        BY <1>2, <4>2 DEF TypeInv, KnownInv
      <4> QED BY <1>1, <1>2, <4>2, <4>3 DEF TypeInv, TypeOK
    <3> QED BY <3>1, <3>2
  <2>2. \A x \in Goroutines : pc'[x] # "idle" => job[x] \in Known
    BY <1>1, <1>2 DEF TypeInv, TypeOK, JobInv
  <2> QED BY <1>1, <1>2, <1>4, <2>1, <2>2 DEF TypeInv, JobInv, memory
<1> QED BY <1>3, <1>4, <1>5, <1>6 DEF TypeInv

LEMMA TypeInvPutNumber ==
    ASSUME NEW g \in Goroutines
    PROVE  TypeInv /\ PutNumber(g) => TypeInv'
<1> SUFFICES ASSUME TypeInv, PutNumber(g) PROVE TypeInv'
  OBVIOUS
<1>1. /\ pc[g] = "putNumber"
      /\ numberKeys' = [numberKeys EXCEPT ![job[g].number] = job[g]]
      /\ pc' = [pc EXCEPT ![g] = "readBest"]
      /\ UNCHANGED <<phase, boots, dbOpen, memory, job, hashKeys, bestKey, miners, unsaved>>
  BY DEF PutNumber
<1>2. /\ job[g] \in Known /\ job[g] \in Block /\ job[g].number \in Heights
      /\ job[g] # NoBlock /\ phase # "down"
  BY <1>1, JobIsBlock
<1>3. TypeOK'
  <2>1. numberKeys' \in [Heights -> Block \cup {NoBlock}]
    BY <1>1, <1>2 DEF TypeInv, TypeOK
  <2>2. pc' \in [Goroutines -> Steps]
    BY <1>1 DEF TypeInv, TypeOK, Steps
  <2> QED BY <1>1, <2>1, <2>2 DEF TypeInv, TypeOK, memory, miners
<1>4. KnownInv' /\ Known' = Known
  BY <1>1 DEF TypeInv, KnownInv, Known, miners
<1>5. StoreInv'
  <2>1. \A n \in Heights :
           numberKeys'[n] = IF n = job[g].number THEN job[g] ELSE numberKeys[n]
    BY <1>1, <1>2 DEF TypeInv, TypeOK
  <2> QED BY <1>1, <1>2, <1>4, <2>1 DEF TypeInv, StoreInv, BestKeyResolves
<1>6. JobInv'
  BY <1>1, <1>2, <1>4 DEF TypeInv, TypeOK, JobInv, memory
<1> QED BY <1>3, <1>4, <1>5, <1>6 DEF TypeInv

(* ReadBest and PutFails only choose the goroutine's next step.            *)
LEMMA TypeInvReadBestPutFails ==
    ASSUME NEW g \in Goroutines
    PROVE  TypeInv /\ (ReadBest(g) \/ PutFails(g)) => TypeInv'
<1> SUFFICES ASSUME TypeInv, ReadBest(g) \/ PutFails(g) PROVE TypeInv'
  OBVIOUS
<1>1. /\ pc[g] # "idle"
      /\ pc' = [pc EXCEPT ![g] = pc'[g]]
      /\ pc'[g] \in {"setBest", "reply"}
      /\ pc'[g] = "setBest" => pc[g] = "readBest"
      /\ UNCHANGED <<phase, boots, dbOpen, memory, job, store, miners>>
  <2>1. CASE ReadBest(g)
    BY <2>1 DEF ReadBest, TypeInv, TypeOK
  <2>2. CASE PutFails(g)
    BY <2>2 DEF PutFails, TypeInv, TypeOK
  <2> QED BY <2>1, <2>2
<1>2. unsaved' \in SUBSET Block
  <2>1. job[g] \in Block
    BY <1>1, JobIsBlock
  <2> QED BY <2>1 DEF ReadBest, PutFails, TypeInv, TypeOK
<1>3. TypeOK'
  <2>1. pc' \in [Goroutines -> Steps]
    BY <1>1 DEF TypeInv, TypeOK, Steps
  <2> QED BY <1>1, <1>2, <2>1 DEF TypeInv, TypeOK, memory, store, miners
<1>4. KnownInv' /\ StoreInv' /\ Known' = Known
  BY <1>1 DEF TypeInv, KnownInv, Known, StoreInv, BestKeyResolves, store, miners
<1>5. JobInv'
  <2>1. phase # "down"
    BY <1>1 DEF TypeInv, JobInv
  <2>2. \A x \in Goroutines : x # g => pc'[x] = pc[x]
    BY <1>1 DEF TypeInv, TypeOK
  <2>3. \A x \in Goroutines : pc'[x] # "idle" => job[x] \in Known
    BY <1>1, <2>2 DEF TypeInv, JobInv
  <2>4. \A x \in Goroutines : pc'[x] \in {"putNumber", "readBest", "setBest"} =>
           hashKeys[job[x].hash] = job[x]
    BY <1>1, <2>2 DEF TypeInv, JobInv
  <2> QED BY <1>1, <1>4, <2>1, <2>3, <2>4 DEF TypeInv, JobInv, memory, store
<1> QED BY <1>3, <1>4, <1>5 DEF TypeInv

LEMMA TypeInvSetBestBlock ==
    ASSUME NEW g \in Goroutines
    PROVE  TypeInv /\ SetBestBlock(g) => TypeInv'
<1> SUFFICES ASSUME TypeInv, SetBestBlock(g) PROVE TypeInv'
  OBVIOUS
<1>1. /\ pc[g] = "setBest" /\ bestKey' = job[g].hash
      /\ pc' = [pc EXCEPT ![g] = "reply"]
      /\ UNCHANGED <<phase, boots, dbOpen, memory, job, hashKeys, numberKeys, miners, unsaved>>
  BY DEF SetBestBlock
<1>2. /\ job[g] \in Known /\ job[g].hash \in Hashes /\ job[g] # NoBlock
      /\ phase # "down" /\ hashKeys[job[g].hash] = job[g]
  BY <1>1, JobIsBlock DEF TypeInv, JobInv
<1>3. TypeOK'
  <2>1. pc' \in [Goroutines -> Steps]
    BY <1>1 DEF TypeInv, TypeOK, Steps
  <2> QED BY <1>1, <1>2, <2>1 DEF TypeInv, TypeOK, memory, miners
<1>4. KnownInv' /\ StoreInv' /\ Known' = Known
  BY <1>1, <1>2 DEF TypeInv, KnownInv, Known, StoreInv, BestKeyResolves, miners
<1>5. JobInv'
  BY <1>1, <1>2, <1>4 DEF TypeInv, TypeOK, JobInv, memory
<1> QED BY <1>3, <1>4, <1>5 DEF TypeInv

LEMMA TypeInvReply ==
    ASSUME NEW g \in Goroutines
    PROVE  TypeInv /\ Reply(g) => TypeInv'
<1> SUFFICES ASSUME TypeInv, Reply(g) PROVE TypeInv'
  OBVIOUS
<1>1. /\ pc[g] = "reply" /\ phase' = "up"
      /\ pc' = [pc EXCEPT ![g] = "idle"] /\ job' = [job EXCEPT ![g] = NoBlock]
      /\ UNCHANGED <<boots, dbOpen, memory, store, mined, nextHash, unsaved>>
  BY DEF Reply
<1>2. job[g] \in Block /\ phase # "down"
  BY <1>1, JobIsBlock
<1>3. acked' \in SUBSET Block
  BY <1>2 DEF Reply, TypeInv, TypeOK
<1>4. TypeOK'
  <2>1. pc' \in [Goroutines -> Steps] /\ job' \in [Goroutines -> Block \cup {NoBlock}]
    BY <1>1 DEF TypeInv, TypeOK, Steps
  <2> QED BY <1>1, <1>3, <2>1 DEF TypeInv, TypeOK, memory, store
<1>5. KnownInv' /\ StoreInv' /\ Known' = Known
  BY <1>1 DEF TypeInv, KnownInv, Known, StoreInv, BestKeyResolves, store
<1>6. JobInv'
  <2>1. \A x \in Goroutines : pc'[x] # "idle" => x # g /\ pc'[x] = pc[x] /\ job'[x] = job[x]
    BY <1>1 DEF TypeInv, TypeOK
  <2>2. \A x \in Goroutines : pc'[x] # "idle" => job'[x] \in Known
    BY <2>1 DEF TypeInv, JobInv
  <2>3. \A x \in Goroutines : pc'[x] \in {"putNumber", "readBest", "setBest"} =>
           hashKeys[job'[x].hash] = job'[x]
    BY <2>1 DEF TypeInv, JobInv
  <2> QED BY <1>1, <1>2, <1>5, <2>2, <2>3 DEF TypeInv, JobInv, memory, store
<1> QED BY <1>4, <1>5, <1>6 DEF TypeInv

LEMMA TypeInvNext == TypeInv /\ [Next]_vars => TypeInv'
<1> SUFFICES ASSUME TypeInv, [Next]_vars PROVE TypeInv'
  OBVIOUS
<1>1. CASE NewBlockchain
  BY <1>1, TypeInvNewBlockchain
<1>2. CASE Crash
  BY <1>2, TypeInvCrash
<1>3. CASE CloseStorage
  BY <1>3, TypeInvCloseStorage
<1>4. CASE \E t \in Clocks : Mine(t)
  BY <1>4, TypeInvMine
<1>5. CASE \E h \in Handlers, b \in mined : AddBlock(h, b)
  BY <1>5, TypeInvAddBlock
<1>6. CASE \E g \in Goroutines : StoreStep(g)
  BY <1>6, TypeInvPutHash, TypeInvPutNumber, TypeInvReadBestPutFails,
     TypeInvSetBestBlock, TypeInvReply DEF StoreStep
<1>7. CASE UNCHANGED vars
  BY <1>7, TypeInvStutter
<1> QED BY <1>1, <1>2, <1>3, <1>4, <1>5, <1>6, <1>7 DEF Next

LEMMA TypeInvAlways == Spec => []TypeInv
BY TypeInvInit, TypeInvNext, PTL DEF Spec

(* However many handlers add and store blocks at once, and whatever crashes*)
(* and failing Puts interrupt them, every field, key and goroutine holds a *)
(* value of its type; in particular a load never puts nil into the chain.  *)
THEOREM TypeCorrect == Spec => []TypeOK
BY TypeInvAlways, PTL DEF TypeInv

(* Under the same conditions best_block never dangles: StoreBlock writes it*)
(* last, and no key of a block is ever deleted or given another block.     *)
THEOREM BestKeyAlwaysResolves == Spec => []BestKeyResolves
BY TypeInvAlways, PTL DEF TypeInv, StoreInv

-----------------------------------------------------------------------------
(* Overlapping stores.                                                     *)

(* Blocks stand at their numbers, also those that goroutines work on.  What*)
(* is neither stored under its number nor reported has a goroutine that has*)
(* yet to store it.  The genesis block is never best_block, so that it is  *)
(* only ever added to an empty chain.                                      *)
NumbersInv ==
    /\ phase # "down" => Len(blocks) = height + 1
    /\ \A i \in 1..Len(blocks) : blocks[i].number = i - 1
    /\ \A g \in Goroutines : pc[g] # "idle" =>
          /\ job[g].number + 1 \in 1..Len(blocks)
          /\ blocks[job[g].number + 1] = job[g]
    /\ \A g \in Goroutines : pc[g] = "setBest" => job[g].number >= 1
    /\ bestKey # 0 => hashKeys[bestKey].number >= 1

Storing(b) == \E g \in Goroutines : pc[g] \in {"putHash", "putNumber"} /\ job[g] = b

StoredInv ==
    \A i \in 1..Len(blocks) :
        \/ blocks[i] \in unsaved
        \/ numberKeys[i - 1] = blocks[i]
        \/ Storing(blocks[i])

QuietInv == NumbersInv /\ StoredInv

(* A load takes blocks 0, 1, ... from the store, or nothing.               *)
LEMMA LoadByNumber ==
    ASSUME TypeInv, NumbersInv
    PROVE  LET loaded == LoadChainFromStorage
           IN  \/ loaded.height = 0 /\ loaded.blocks = <<>>
               \/ /\ loaded.height \in Nat \ {0}
                  /\ Len(loaded.blocks) = loaded.height + 1
                  /\ \A i \in 1..(loaded.height + 1) :
                        /\ loaded.blocks[i] = numberKeys[i - 1]
                        /\ loaded.blocks[i].number = i - 1
<1> DEFINE best == GetBestBlock
           missing == {i \in 0..best.number : numberKeys[i] = NoBlock}
           n == best.number
<1>1. CASE best = NoBlock
  BY <1>1 DEF LoadChainFromStorage
<1>2. CASE best # NoBlock /\ missing # {}
  BY <1>2 DEF LoadChainFromStorage
<1>3. CASE best # NoBlock /\ missing = {}
  <2>1. LoadChainFromStorage = [blocks |-> BlocksByNumber(n + 1), height |-> n, best |-> best,
                                utxo |-> BlocksByNumber(n + 1)]
    BY <1>3 DEF LoadChainFromStorage
  <2>2. \A i \in 0..n : numberKeys[i] # NoBlock
    BY <1>3
  <2>3. n \in Heights /\ n >= 1
    <3>1. bestKey # 0 /\ best = hashKeys[bestKey] /\ bestKey \in Hashes
      BY <1>3 DEF GetBestBlock, TypeInv, TypeOK
    <3>2. best \in Block
      BY <1>3, <3>1 DEF TypeInv, TypeOK
    <3> QED BY <3>1, <3>2, BlockFields DEF NumbersInv
  <2> HIDE DEF n
  <2>4. n \in Nat \ {0} /\ n + 1 \in Nat /\ n + 1 <= MaxHash + 1 /\ (n + 1) - 1 = n
    BY <2>3, ConstantsAssumption DEF Heights
  <2>5. Len(BlocksByNumber(n + 1)) = n + 1
        /\ \A i \in 1..(n + 1) : BlocksByNumber(n + 1)[i] = numberKeys[i - 1]
    <3>1. PICK k \in Nat : k = n + 1
      BY <2>4
    <3>2. \A i \in 0..(k - 1) : numberKeys[i] # NoBlock
      BY <2>2, <2>4, <3>1
    <3>3. Len(BlocksByNumber(k)) = k /\ \A i \in 1..k : BlocksByNumber(k)[i] = numberKeys[i - 1]
      BY <2>4, <3>1, <3>2, BlocksByNumberIsSeq DEF TypeInv
    <3> QED BY <3>1, <3>3
  <2>6. \A i \in 1..(n + 1) : numberKeys[i - 1].number = i - 1
    <3>1. \A i \in 1..(n + 1) : i - 1 \in 0..n /\ i - 1 \in Heights
      BY <2>4, ConstantsAssumption DEF Heights
    <3> QED BY <2>2, <3>1 DEF TypeInv, StoreInv
  <2> QED BY <2>1, <2>4, <2>5, <2>6
<1> QED BY <1>1, <1>2, <1>3

LEMMA QuietNewBlockchain == TypeInv /\ QuietInv /\ NewBlockchain => QuietInv'
<1> SUFFICES ASSUME TypeInv, QuietInv, NewBlockchain PROVE QuietInv'
  OBVIOUS
<1> DEFINE loaded == LoadChainFromStorage
<1>1. /\ \A g \in Goroutines : pc[g] = "idle"
      /\ UNCHANGED <<hashKeys, numberKeys, bestKey, unsaved>>
  BY DEF NewBlockchain, TypeInv, JobInv, store
<1>2. \/ loaded.height = 0 /\ loaded.blocks = <<>>
      \/ /\ loaded.height \in Nat \ {0}
         /\ Len(loaded.blocks) = loaded.height + 1
         /\ \A i \in 1..(loaded.height + 1) :
               /\ loaded.blocks[i] = numberKeys[i - 1]
               /\ loaded.blocks[i].number = i - 1
  BY LoadByNumber DEF QuietInv
<1> HIDE DEF loaded
<1>3. CASE /\ loaded.height > 0 /\ blocks' = loaded.blocks /\ height' = loaded.height
           /\ UNCHANGED <<pc, job>>
  <2>1. /\ Len(blocks') = height' + 1 /\ height' \in Nat
        /\ \A i \in 1..Len(blocks') : blocks'[i] = numberKeys'[i - 1] /\ blocks'[i].number = i - 1
    BY <1>1, <1>2, <1>3
  <2>2. \A g \in Goroutines : pc'[g] = "idle"
    BY <1>1, <1>3
  <2>3. NumbersInv'
    BY <1>1, <2>1, <2>2 DEF QuietInv, NumbersInv
  <2>4. StoredInv'
    BY <2>1 DEF StoredInv
  <2> QED BY <2>3, <2>4 DEF QuietInv
<1>4. CASE /\ loaded.height = 0 /\ blocks' = Append(loaded.blocks, Genesis)
           /\ height' = Genesis.number
           /\ pc' = [pc EXCEPT ![Boot] = "putHash"]
           /\ job' = [job EXCEPT ![Boot] = Genesis]
  <2>1. Len(blocks') = 1 /\ blocks'[1] = Genesis
    <3>1. loaded.blocks = <<>>
      BY <1>2, <1>4
    <3>2. <<>> \in Seq(Block) /\ Len(<<>>) = 0 /\ Genesis \in Block
      BY EmptySeq, GenesisIsBlock
    <3>3. Len(Append(<<>>, Genesis)) = 0 + 1 /\ Append(<<>>, Genesis)[0 + 1] = Genesis
      BY <3>2, AppendProperties
    <3> QED BY <1>4, <3>1, <3>3
  <2>2. Boot \in Goroutines /\ pc'[Boot] = "putHash" /\ job'[Boot] = Genesis
        /\ \A g \in Goroutines : pc'[g] # "idle" => g = Boot
    BY <1>1, <1>4 DEF Goroutines, TypeInv, TypeOK
  <2>3. Genesis.number = 0
    BY GenesisIsBlock
  <2>4. NumbersInv'
    BY <1>1, <1>4, <2>1, <2>2, <2>3 DEF QuietInv, NumbersInv
  <2>5. StoredInv'
    BY <2>1, <2>2 DEF StoredInv, Storing
  <2> QED BY <2>4, <2>5 DEF QuietInv
<1> QED BY <1>3, <1>4 DEF NewBlockchain, loaded

LEMMA QuietAddBlock ==
    ASSUME NEW h \in Handlers, NEW b \in mined
    PROVE  TypeInv /\ QuietInv /\ AddBlock(h, b) => QuietInv'
<1> SUFFICES ASSUME TypeInv, QuietInv, AddBlock(h, b) PROVE QuietInv'
  OBVIOUS
<1> DEFINE n == Len(blocks)
<1>1. /\ h \in Goroutines /\ pc[h] = "idle" /\ phase = "up" /\ phase' = "up"
      /\ blocks' = Append(blocks, b) /\ height' = b.number
      /\ pc' = [pc EXCEPT ![h] = "putHash"] /\ job' = [job EXCEPT ![h] = b]
      /\ UNCHANGED <<hashKeys, numberKeys, bestKey, unsaved>>
  BY DEF AddBlock, Goroutines, store
<1>2. n \in Nat /\ Len(blocks') = n + 1 /\ blocks'[n + 1] = b
      /\ \A i \in 1..n : blocks'[i] = blocks[i]
  <2>1. blocks \in Seq(Block) /\ b \in Block
    BY DEF TypeInv, TypeOK
  <2> QED BY <1>1, <2>1, AppendProperties, LenProperties
<1>3. b.number = n
  <2>1. b.number \in Nat /\ b.number >= 1
    BY BlockFields, HeightsAreNat DEF TypeInv, TypeOK, KnownInv
  <2>2. b.number = height + 1
    BY <1>1, <2>1 DEF AddBlock, ValidateBlock, TypeInv, JobInv
  <2> QED BY <1>1, <2>2 DEF QuietInv, NumbersInv
<1> HIDE DEF n
<1>4. /\ pc'[h] = "putHash" /\ job'[h] = b
      /\ \A g \in Goroutines : g # h => pc'[g] = pc[g] /\ job'[g] = job[g]
  BY <1>1 DEF TypeInv, TypeOK
<1>5. n = Len(blocks) /\ \A i \in 1..(n + 1) : i \in 1..n \/ i = n + 1
  BY <1>2 DEF n
<1>6. NumbersInv'
  <2>1. \A i \in 1..(n + 1) : blocks'[i].number = i - 1
    BY <1>2, <1>3, <1>5 DEF QuietInv, NumbersInv
  <2>2. ASSUME NEW g \in Goroutines, pc'[g] # "idle"
        PROVE  job'[g].number + 1 \in 1..(n + 1) /\ blocks'[job'[g].number + 1] = job'[g]
    <3>1. CASE g = h
      BY <1>2, <1>3, <1>4, <3>1
    <3>2. CASE g # h
      <4>1. job[g].number + 1 \in 1..n /\ blocks[job[g].number + 1] = job[g]
        BY <1>4, <1>5, <2>2, <3>2 DEF QuietInv, NumbersInv
      <4> QED BY <1>2, <1>4, <3>2, <4>1
    <3> QED BY <3>1, <3>2
  <2> QED BY <1>1, <1>2, <1>3, <1>4, <2>1, <2>2 DEF QuietInv, NumbersInv
<1>7. StoredInv'
  <2>1. Storing(b)'
    BY <1>1, <1>4 DEF Storing
  <2>2. ASSUME NEW c, Storing(c) PROVE Storing(c)'
    BY <1>1, <1>4, <2>2 DEF Storing
  <2>3. ASSUME NEW i \in 1..(n + 1), NEW c, c = blocks'[i]
        PROVE  c \in unsaved \/ numberKeys[i - 1] = c \/ Storing(c)'
    <3>1. CASE i = n + 1
      BY <1>2, <2>1, <2>3, <3>1, <1>1, <1>4 DEF Storing
    <3>2. CASE i \in 1..n
      <4>1. c = blocks[i]
        BY <1>2, <2>3, <3>2
      <4>2. c \in unsaved \/ numberKeys[i - 1] = c \/ Storing(c)
        BY <1>5, <3>2, <4>1 DEF QuietInv, StoredInv
      <4> QED BY <2>2, <4>2
    <3> QED BY <1>5, <3>1, <3>2
  <2> QED BY <1>1, <1>2, <2>3 DEF StoredInv, Storing
<1> QED BY <1>6, <1>7 DEF QuietInv

(* What a step of StoreBlock does to the keys by number.                   *)
LEMMA QuietStoreStep ==
    ASSUME NEW g \in Goroutines
    PROVE  TypeInv /\ QuietInv /\ StoreStep(g) => QuietInv'
<1> SUFFICES ASSUME TypeInv, QuietInv, StoreStep(g) PROVE QuietInv'
  OBVIOUS
<1>1. /\ pc[g] # "idle" /\ pc' = [pc EXCEPT ![g] = pc'[g]]
      /\ \A x \in Goroutines : x # g => pc'[x] = pc[x] /\ job'[x] = job[x]
      /\ pc'[g] # "idle" => job'[g] = job[g]
      /\ UNCHANGED <<blocks, height>> /\ unsaved \subseteq unsaved'
  BY DEF StoreStep, PutHash, PutNumber, ReadBest, SetBestBlock, PutFails, Reply, memory,
         TypeInv, TypeOK
<1>2. /\ job[g] \in Known /\ job[g] \in Block /\ job[g].hash \in Hashes
      /\ job[g].number \in Heights /\ phase # "down"
      /\ job[g].number + 1 \in 1..Len(blocks) /\ blocks[job[g].number + 1] = job[g]
  BY <1>1, JobIsBlock DEF QuietInv, NumbersInv
<1>3. NumbersInv'
  <2>1. \A x \in Goroutines : pc'[x] # "idle" => pc[x] # "idle" /\ job'[x] = job[x]
    BY <1>1
  <2>2. pc'[g] = "setBest" => job[g].number >= 1
    <3>1. CASE ReadBest(g)
      <4>1. GetBestBlock # NoBlock => GetBestBlock.number \in Nat
        <5>1. GetBestBlock # NoBlock => GetBestBlock \in Block
          BY DEF GetBestBlock, TypeInv, TypeOK
        <5> QED BY <5>1, BlockFields, HeightsAreNat
      <4>2. job[g].number \in Nat
        BY <1>2, HeightsAreNat
      <4> QED BY <1>1, <3>1, <4>1, <4>2 DEF ReadBest, TypeInv, TypeOK
    <3>2. CASE ~ReadBest(g)
      BY <1>1, <3>2 DEF StoreStep, PutHash, PutNumber, SetBestBlock, PutFails, Reply,
                        TypeInv, TypeOK
    <3> QED BY <3>1, <3>2
  <2>3. bestKey' # 0 => hashKeys'[bestKey'].number >= 1
    <3>1. CASE PutHash(g)
      <4>1. bestKey' = bestKey /\ hashKeys' = [hashKeys EXCEPT ![job[g].hash] = job[g]]
        BY <3>1 DEF PutHash
      <4>2. bestKey # 0 => hashKeys[bestKey] \in Known /\ hashKeys[bestKey].hash = bestKey
                           /\ bestKey \in Hashes
        BY DEF TypeInv, TypeOK, StoreInv, BestKeyResolves
      <4>3. bestKey # 0 /\ bestKey = job[g].hash => job[g] = hashKeys[bestKey]
        BY <1>2, <4>2 DEF TypeInv, KnownInv
      <4>4. bestKey # 0 => hashKeys'[bestKey] = hashKeys[bestKey]
        BY <1>2, <4>1, <4>2, <4>3 DEF TypeInv, TypeOK
      <4> QED BY <4>1, <4>4 DEF QuietInv, NumbersInv
    <3>2. CASE SetBestBlock(g)
      <4>1. bestKey' = job[g].hash /\ UNCHANGED hashKeys /\ pc[g] = "setBest"
        BY <3>2 DEF SetBestBlock
      <4>2. hashKeys[job[g].hash] = job[g]
        BY <4>1 DEF TypeInv, JobInv
      <4> QED BY <4>1, <4>2 DEF QuietInv, NumbersInv
    <3>3. CASE ~PutHash(g) /\ ~SetBestBlock(g)
      <4>1. UNCHANGED <<hashKeys, bestKey>>
        BY <3>3 DEF StoreStep, PutNumber, ReadBest, PutFails, Reply, store
      <4> QED BY <4>1 DEF QuietInv, NumbersInv
    <3> QED BY <3>1, <3>2, <3>3
  <2>4. \A x \in Goroutines : pc'[x] = "setBest" => job'[x].number >= 1
    BY <1>1, <2>2 DEF QuietInv, NumbersInv
  <2>5. phase' # "down" => Len(blocks') = height' + 1
    BY <1>1, <1>2 DEF QuietInv, NumbersInv
  <2> QED BY <1>1, <2>1, <2>3, <2>4, <2>5 DEF QuietInv, NumbersInv
<1>4. ASSUME NEW i \in 1..Len(blocks)
      PROVE  blocks[i] \in unsaved' \/ numberKeys'[i - 1] = blocks[i] \/ Storing(blocks[i])'
  <2>0. blocks[i].number = i - 1
    BY DEF QuietInv, NumbersInv
  <2>1. CASE blocks[i] \in unsaved
    BY <1>1, <2>1
  <2>2. CASE numberKeys[i - 1] = blocks[i]
    <3>1. CASE PutNumber(g)
      <4>1. numberKeys' = [numberKeys EXCEPT ![job[g].number] = job[g]]
        BY <3>1 DEF PutNumber
      <4>2. job[g].number = i - 1 => job[g] = blocks[i]
        BY <1>2
      <4>3. i - 1 \in Heights
        <5>1. blocks[i] \in Block
          BY DEF TypeInv, TypeOK
        <5> QED BY <2>0, <5>1, BlockFields
      <4> QED BY <1>2, <2>2, <4>1, <4>2, <4>3 DEF TypeInv, TypeOK
    <3>2. CASE ~PutNumber(g)
      <4>1. UNCHANGED numberKeys
        BY <3>2 DEF StoreStep, PutHash, ReadBest, SetBestBlock, PutFails, Reply, store
      <4> QED BY <2>2, <4>1
    <3> QED BY <3>1, <3>2
  <2>3. ASSUME NEW x \in Goroutines, pc[x] \in {"putHash", "putNumber"}, job[x] = blocks[i]
        PROVE  blocks[i] \in unsaved' \/ numberKeys'[i - 1] = blocks[i] \/ Storing(blocks[i])'
    <3>1. CASE x # g
      BY <1>1, <2>3, <3>1 DEF Storing
    <3>2. CASE x = g /\ PutHash(g)
      BY <1>1, <2>3, <3>2 DEF PutHash, Storing, TypeInv, TypeOK
    <3>3. CASE x = g /\ PutNumber(g)
      <4>1. numberKeys' = [numberKeys EXCEPT ![job[g].number] = job[g]]
        BY <3>3 DEF PutNumber
      <4> QED BY <1>2, <2>0, <2>3, <3>3, <4>1 DEF TypeInv, TypeOK
    <3>4. CASE x = g /\ PutFails(g)
      BY <2>3, <3>4 DEF PutFails
    <3> QED BY <2>3, <3>1, <3>2, <3>3, <3>4 DEF StoreStep, ReadBest, SetBestBlock, Reply
  <2> QED BY <2>1, <2>2, <2>3 DEF QuietInv, StoredInv, Storing
<1>5. StoredInv'
  BY <1>1, <1>4 DEF StoredInv, Storing
<1> QED BY <1>3, <1>5 DEF QuietInv

LEMMA QuietInvInit == Init => QuietInv
BY DEF Init, QuietInv, NumbersInv, StoredInv

LEMMA QuietInvNext == TypeInv /\ QuietInv /\ [Next]_vars => QuietInv'
<1> SUFFICES ASSUME TypeInv, QuietInv, [Next]_vars PROVE QuietInv'
  OBVIOUS
<1>1. CASE NewBlockchain
  BY <1>1, QuietNewBlockchain
<1>2. CASE Crash
  BY <1>2 DEF Crash, QuietInv, NumbersInv, StoredInv, store
<1>3. CASE CloseStorage
  BY <1>3 DEF CloseStorage, QuietInv, NumbersInv, StoredInv, Storing, memory, store
<1>4. CASE \E t \in Clocks : Mine(t)
  BY <1>4 DEF Mine, QuietInv, NumbersInv, StoredInv, Storing, memory, store
<1>5. CASE \E h \in Handlers, b \in mined : AddBlock(h, b)
  BY <1>5, QuietAddBlock
<1>6. CASE \E g \in Goroutines : StoreStep(g)
  BY <1>6, QuietStoreStep
<1>7. CASE UNCHANGED vars
  BY <1>7 DEF vars, QuietInv, NumbersInv, StoredInv, Storing, memory, store
<1> QED BY <1>1, <1>2, <1>3, <1>4, <1>5, <1>6, <1>7 DEF Next

(* However many handlers store their blocks at once and in whatever order, *)
(* once none is at work every block of the chain is stored under its number*)
(* or reported: no store undoes another's.                                 *)
THEOREM QuietStoreAlwaysComplete == Spec => []QuietStoreComplete
<1>1. QuietInv => QuietStoreComplete
  BY DEF QuietInv, StoredInv, Storing, QuietStoreComplete
<1> QED BY <1>1, QuietInvInit, QuietInvNext, TypeInvAlways, PTL DEF Spec

-----------------------------------------------------------------------------
(* The UTXO set, whatever the loads that were given up.                    *)

(* What LoadChainFromStorage leaves: the blocks it read, in turn, of which *)
(* the chain is all or nothing.                                            *)
LEMMA LoadLeavesBlocksInTurn ==
    ASSUME TypeInv
    PROVE  LET loaded == LoadChainFromStorage
           IN  \/ /\ loaded.blocks = loaded.utxo /\ loaded.utxo \in Seq(Block)
               \/ /\ loaded.blocks = <<>> /\ loaded.height = 0
                  /\ loaded.utxo \in Seq(Block)
                  /\ \A i \in 1..Len(loaded.utxo) : loaded.utxo[i].number = i - 1
<1> DEFINE best == GetBestBlock
           missing == {i \in 0..best.number : numberKeys[i] = NoBlock}
           first == CHOOSE i \in missing : \A j \in missing : i <= j
           loaded == LoadChainFromStorage
<1>1. best = NoBlock \/ best \in Block
  BY GenesisIsBlock DEF TypeInv, TypeOK, StoreInv, GetBestBlock, Known
<1>2. loaded.utxo \in Seq(Block)
  BY LoadIsTyped
<1>3. CASE best = NoBlock \/ missing = {}
  <2>1. loaded.blocks = loaded.utxo
    BY <1>3 DEF LoadChainFromStorage
  <2> QED BY <1>2, <2>1
<1>4. CASE best # NoBlock /\ missing # {}
  <2>1. best.number \in Nat /\ best.number <= MaxHash
    BY <1>1, <1>4, BlockFields, ConstantsAssumption DEF Heights
  <2>2. missing \subseteq Nat
    BY <2>1
  <2>3. first \in missing /\ \A j \in missing : first <= j
    <3> HIDE DEF missing
    <3> QED BY <1>4, <2>2, LeastElement
  <2>4. loaded = [blocks |-> <<>>, height |-> 0, best |-> NoBlock,
                  utxo |-> BlocksByNumber(first)]
    BY <1>4 DEF LoadChainFromStorage
  <2>5. \A i \in 0..(first - 1) : numberKeys[i] # NoBlock
    BY <2>1, <2>3
  <2>6. first \in Nat /\ first <= MaxHash + 1
    BY <2>1, <2>3, ConstantsAssumption
  <2> HIDE DEF first, loaded
  <2>7. /\ Len(BlocksByNumber(first)) = first
        /\ \A i \in 1..first : BlocksByNumber(first)[i] = numberKeys[i - 1]
    BY <2>5, <2>6, BlocksByNumberIsSeq DEF TypeInv
  <2>8. ASSUME NEW i \in 1..first
        PROVE  numberKeys[i - 1].number = i - 1
    <3>1. i - 1 \in 0..(first - 1) /\ i - 1 \in Heights
      BY <2>6, ConstantsAssumption DEF Heights
    <3>2. numberKeys[i - 1] # NoBlock
      BY <2>5, <3>1
    <3> QED BY <3>1, <3>2 DEF TypeInv, StoreInv
  <2>9. \A i \in 1..Len(loaded.utxo) : loaded.utxo[i].number = i - 1
    BY <2>4, <2>7, <2>8
  <2>10. loaded.blocks = <<>> /\ loaded.height = 0
    BY <2>4
  <2> QED BY <1>2, <2>9, <2>10 DEF loaded
<1> QED BY <1>3, <1>4

LEMMA LeftoverNewBlockchain ==
    TypeInv /\ NewBlockchain => UtxoIsLeftoverThenChain'
<1> SUFFICES ASSUME TypeInv, NewBlockchain PROVE UtxoIsLeftoverThenChain'
  OBVIOUS
<1> DEFINE loaded == LoadChainFromStorage
<1>1. \/ /\ loaded.blocks = loaded.utxo /\ loaded.utxo \in Seq(Block)
      \/ /\ loaded.blocks = <<>> /\ loaded.height = 0
         /\ loaded.utxo \in Seq(Block)
         /\ \A i \in 1..Len(loaded.utxo) : loaded.utxo[i].number = i - 1
  BY LoadLeavesBlocksInTurn
<1>2. \/ blocks' = loaded.blocks /\ utxoBlocks' = loaded.utxo /\ loaded.height > 0
      \/ blocks' = Append(loaded.blocks, Genesis) /\ utxoBlocks' = Append(loaded.utxo, Genesis)
  BY DEF NewBlockchain
<1> HIDE DEF loaded
<1>3. CASE loaded.blocks = loaded.utxo /\ loaded.utxo \in Seq(Block)
  <2>1. blocks' = utxoBlocks' /\ utxoBlocks' \in Seq(Block)
    BY SMTT(30), <1>2, <1>3, GenesisIsBlock
  <2>2. Len(utxoBlocks') - Len(blocks') = 0 /\ Len(blocks') \in Nat
    BY <2>1
  <2> QED BY <2>1, <2>2 DEF UtxoIsLeftoverThenChain
<1>4. CASE /\ loaded.blocks = <<>> /\ loaded.height = 0
           /\ loaded.utxo \in Seq(Block)
           /\ \A i \in 1..Len(loaded.utxo) : loaded.utxo[i].number = i - 1
  <2>1. blocks' = <<Genesis>> /\ utxoBlocks' = Append(loaded.utxo, Genesis)
    BY <1>2, <1>4
  <2> DEFINE n == Len(loaded.utxo)
  <2>2. /\ n \in Nat /\ Len(utxoBlocks') = n + 1 /\ Len(blocks') = 1
        /\ \A i \in 1..n : utxoBlocks'[i] = loaded.utxo[i]
        /\ utxoBlocks'[n + 1] = Genesis /\ blocks'[1] = Genesis
    BY <1>4, <2>1, GenesisIsBlock
  <2>3. Len(utxoBlocks') - Len(blocks') = n
    BY <2>2
  <2> HIDE DEF n
  <2>4. \A i \in 1..n : utxoBlocks'[i].number = i - 1
    BY <1>4, <2>2 DEF n
  <2>5. ASSUME NEW i \in 1..Len(blocks') PROVE utxoBlocks'[n + i] = blocks'[i]
    <3>1. i = 1
      BY <2>2
    <3> QED BY <2>2, <3>1
  <2>6. n >= 0 /\ blocks' # <<>> /\ blocks'[1] = Genesis
    BY <2>1, <2>2
  <2> QED BY <2>3, <2>4, <2>5, <2>6 DEF UtxoIsLeftoverThenChain
<1> QED BY <1>1, <1>3, <1>4

LEMMA LeftoverAddBlock ==
    ASSUME TypeInv, UtxoIsLeftoverThenChain, NEW h \in Handlers, NEW b \in mined, AddBlock(h, b)
    PROVE  UtxoIsLeftoverThenChain'
<1>1. b \in Block /\ blocks \in Seq(Block) /\ utxoBlocks \in Seq(Block)
  BY DEF TypeInv, TypeOK
<1>2. blocks' = Append(blocks, b) /\ utxoBlocks' = Append(utxoBlocks, b)
  BY DEF AddBlock
<1> DEFINE m == Len(blocks)
           n == Len(utxoBlocks)
<1>3. /\ m \in Nat /\ n \in Nat /\ Len(blocks') = m + 1 /\ Len(utxoBlocks') = n + 1
      /\ \A i \in 1..m : blocks'[i] = blocks[i]
      /\ \A i \in 1..n : utxoBlocks'[i] = utxoBlocks[i]
      /\ blocks'[m + 1] = b /\ utxoBlocks'[n + 1] = b
  BY <1>1, <1>2
<1>4. /\ n - m >= 0
      /\ \A i \in 1..(n - m) : utxoBlocks[i].number = i - 1
      /\ \A i \in 1..m : utxoBlocks[(n - m) + i] = blocks[i]
      /\ n - m > 0 => m > 0 /\ blocks[1] = Genesis
  BY DEF UtxoIsLeftoverThenChain
<1>5. \A i \in 1..m : (n - m) + i \in 1..n
  BY <1>3, <1>4
<1> HIDE DEF m, n
<1>6. Len(utxoBlocks') - Len(blocks') = n - m
  BY <1>3
<1>7. \A i \in 1..(n - m) : utxoBlocks'[i].number = i - 1
  BY <1>3, <1>4
<1>8. \A i \in 1..(m + 1) : utxoBlocks'[(n - m) + i] = blocks'[i]
  <2> SUFFICES ASSUME NEW i \in 1..(m + 1) PROVE utxoBlocks'[(n - m) + i] = blocks'[i]
    OBVIOUS
  <2>1. CASE i \in 1..m
    BY <1>3, <1>4, <1>5, <2>1
  <2>2. CASE i = m + 1
    BY <1>3, <2>2
  <2> QED BY <1>3, <2>1, <2>2
<1>9. n - m > 0 => blocks' # <<>> /\ blocks'[1] = Genesis
  BY <1>3, <1>4
<1> QED BY <1>3, <1>4, <1>6, <1>7, <1>8, <1>9 DEF UtxoIsLeftoverThenChain

LEMMA LeftoverNext ==
    TypeInv /\ UtxoIsLeftoverThenChain /\ [Next]_vars => UtxoIsLeftoverThenChain'
<1> SUFFICES ASSUME TypeInv, UtxoIsLeftoverThenChain, [Next]_vars
             PROVE  UtxoIsLeftoverThenChain'
  OBVIOUS
<1>1. ASSUME UNCHANGED memory PROVE UtxoIsLeftoverThenChain'
  BY <1>1 DEF UtxoIsLeftoverThenChain, memory
<1>2. ASSUME NewBlockchain PROVE UtxoIsLeftoverThenChain'
  BY <1>2, LeftoverNewBlockchain
<1>3. ASSUME Crash PROVE UtxoIsLeftoverThenChain'
  BY <1>3 DEF Crash, UtxoIsLeftoverThenChain
<1>4. ASSUME CloseStorage PROVE UtxoIsLeftoverThenChain'
  BY <1>1, <1>4 DEF CloseStorage
<1>5. ASSUME NEW t \in Clocks, Mine(t) PROVE UtxoIsLeftoverThenChain'
  BY <1>1, <1>5 DEF Mine
<1>6. ASSUME NEW h \in Handlers, NEW b \in mined, AddBlock(h, b)
      PROVE  UtxoIsLeftoverThenChain'
  BY <1>6, LeftoverAddBlock
<1>7. ASSUME NEW g \in Goroutines, StoreStep(g) PROVE UtxoIsLeftoverThenChain'
  BY <1>1, <1>7 DEF StoreStep, PutHash, PutNumber, ReadBest, SetBestBlock, PutFails, Reply
<1>8. CASE UNCHANGED vars
  BY <1>1, <1>8 DEF vars
<1> QED BY <1>2, <1>3, <1>4, <1>5, <1>6, <1>7, <1>8 DEF Next

(* For any number of handlers, with crashes, failing Puts and loads that   *)
(* are given up: the UTXO set ends with the chain, each block applied once *)
(* and in order, and before it is only what one such load had read.        *)
THEOREM UtxoAlwaysLeftoverThenChain == Spec => []UtxoIsLeftoverThenChain
<1>1. Init => UtxoIsLeftoverThenChain
  BY DEF Init, UtxoIsLeftoverThenChain
<1>2. UtxoIsLeftoverThenChain /\ TypeInv /\ [Next]_vars => UtxoIsLeftoverThenChain'
  BY LeftoverNext
<1> QED BY <1>1, <1>2, TypeInvAlways, PTL DEF Spec

-----------------------------------------------------------------------------
(* One handler, and a storage that does not fail.                          *)

(* At most one submission is under way: one miner, which waits for the     *)
(* answer to each submitBlock before the next.                             *)
Serial == \A g, h \in Handlers : g = h

Top == IF bestKey = 0 THEN 0 ELSE hashKeys[bestKey].number

(* From the genesis block to the one best_block names, the blocks stored   *)
(* by number are a linked chain that ends in that block.                   *)
StoredChain ==
    bestKey # 0 =>
        /\ Top >= 1
        /\ numberKeys[0] = Genesis
        /\ numberKeys[Top] = hashKeys[bestKey]
        /\ \A i \in 0..Top : numberKeys[i] # NoBlock
        /\ \A i \in 0..(Top - 1) : Abstract!Follows(numberKeys[i], numberKeys[i + 1])

(* A node that is booting finds nothing: only the genesis block is there.  *)
BootInv ==
    /\ phase = "booting" =>
          /\ bestKey = 0 /\ blocks = <<Genesis>> /\ job[Boot] = Genesis
          /\ pc[Boot] \in {"putHash", "putNumber", "readBest", "reply"}
          /\ pc[Boot] \in {"readBest", "reply"} => numberKeys[0] = Genesis
          /\ \A h \in Handlers : pc[h] = "idle"
    /\ phase = "up" => pc[Boot] = "idle"

(* A node that serves holds the stored chain, and beyond it at most the    *)
(* block of the submission under way, which is not stored entirely.        *)
ServeInv ==
    phase = "up" =>
        /\ numberKeys[0] = Genesis
        /\ Len(blocks) \in {Top + 1, Top + 2}
        /\ \A i \in 0..Top : blocks[i + 1] = numberKeys[i]
        /\ Len(blocks) = Top + 2 =>
              \E h \in Handlers : pc[h] \in {"putHash", "putNumber", "readBest", "setBest"}
        /\ \A h \in Handlers :
              /\ pc[h] # "idle" => job[h] = bestBlock /\ job[h].number >= 1
              /\ pc[h] \in {"putHash", "putNumber", "readBest", "setBest"} =>
                    Len(blocks) = Top + 2
              /\ pc[h] \in {"readBest", "setBest"} => numberKeys[job[h].number] = job[h]

(* A block that a miner was told was added is in the stored chain.         *)
AckInv ==
    \A b \in acked : b.number \in 1..Top /\ numberKeys[b.number] = b

SerialInv ==
    /\ TypeInv /\ ChainLinked
    /\ StoredChain /\ BootInv /\ ServeInv /\ AckInv

LEMMA TopIsHeight ==
    ASSUME TypeInv
    PROVE  /\ Top \in Heights /\ Top \in Nat /\ Top <= MaxHash
           /\ bestKey # 0 => /\ GetBestBlock = hashKeys[bestKey]
                             /\ GetBestBlock \in Known /\ GetBestBlock # NoBlock
                             /\ GetBestBlock.number = Top
           /\ bestKey = 0 => GetBestBlock = NoBlock
<1>1. CASE bestKey = 0
  BY <1>1, ConstantsAssumption DEF Top, GetBestBlock, Heights
<1>2. CASE bestKey # 0
  <2>1. hashKeys[bestKey] # NoBlock /\ hashKeys[bestKey] \in Known
    BY <1>2 DEF TypeInv, TypeOK, StoreInv, BestKeyResolves
  <2>2. hashKeys[bestKey] \in Block
    BY <2>1, GenesisIsBlock DEF Known, TypeInv, TypeOK
  <2>3. hashKeys[bestKey].number \in Heights
    BY <2>2, BlockFields
  <2> QED BY <1>2, <2>1, <2>3, ConstantsAssumption DEF Top, GetBestBlock, Heights
<1> QED BY <1>1, <1>2

(* A load from an intact store succeeds, with the stored chain.            *)
LEMMA LoadIntact ==
    ASSUME TypeInv, StoredChain
    PROVE  /\ bestKey = 0 =>
                 LoadChainFromStorage =
                   [blocks |-> <<>>, height |-> 0, best |-> NoBlock, utxo |-> <<>>]
           /\ bestKey # 0 =>
                 /\ Top >= 1
                 /\ LoadChainFromStorage =
                      [blocks |-> BlocksByNumber(Top + 1), height |-> Top,
                       best |-> hashKeys[bestKey], utxo |-> BlocksByNumber(Top + 1)]
                 /\ BlocksByNumber(Top + 1) \in Seq(Block)
                 /\ Len(BlocksByNumber(Top + 1)) = Top + 1
                 /\ \A i \in 1..(Top + 1) : BlocksByNumber(Top + 1)[i] = numberKeys[i - 1]
<1>1. CASE bestKey = 0
  BY <1>1, TopIsHeight DEF LoadChainFromStorage
<1>2. CASE bestKey # 0
  <2>1. /\ GetBestBlock = hashKeys[bestKey] /\ GetBestBlock # NoBlock
        /\ GetBestBlock.number = Top /\ Top \in Nat /\ Top <= MaxHash /\ Top >= 1
    BY <1>2, TopIsHeight DEF StoredChain
  <2>2. {i \in 0..Top : numberKeys[i] = NoBlock} = {}
    BY <1>2 DEF StoredChain
  <2>3. LoadChainFromStorage =
          [blocks |-> BlocksByNumber(Top + 1), height |-> Top,
           best |-> hashKeys[bestKey], utxo |-> BlocksByNumber(Top + 1)]
    BY <2>1, <2>2 DEF LoadChainFromStorage
  <2>4. PICK n \in Nat : n = Top + 1 /\ n <= MaxHash + 1
    BY <2>1, ConstantsAssumption
  <2>5. \A i \in 0..(n - 1) : numberKeys[i] # NoBlock
    BY <2>1, <2>2, <2>4
  <2> QED BY <1>2, <2>1, <2>3, <2>4, <2>5, BlocksByNumberIsSeq DEF TypeInv
<1> QED BY <1>1, <1>2

(* height counts the blocks after the genesis block, and so does the       *)
(* number of the best block.                                               *)
LEMMA HeightIsNumber ==
    ASSUME SerialInv, phase # "down"
    PROVE  bestBlock.number = Len(blocks) - 1
BY DEF SerialInv, TypeInv, JobInv, ChainLinked

LEMMA SerialInvInit == Init => SerialInv
BY TypeInvInit DEF Init, SerialInv, ChainLinked, StoredChain,
                   BootInv, ServeInv, AckInv

LEMMA SerialInvNewBlockchain == SerialInv /\ NewBlockchain => SerialInv'
<1> SUFFICES ASSUME SerialInv, NewBlockchain PROVE SerialInv'
  OBVIOUS
<1>1. TypeInv /\ TypeInv'
  BY TypeInvNewBlockchain DEF SerialInv
<1>2. /\ UNCHANGED <<store, miners, unsaved>> /\ phase = "down"
      /\ \A g \in Goroutines : pc[g] = "idle"
  BY <1>1 DEF NewBlockchain, TypeInv, JobInv
<1>3. StoredChain' /\ AckInv' /\ Top' = Top
  BY <1>2 DEF SerialInv, StoredChain, AckInv, Top, store, miners
<1>4. CASE bestKey # 0
  <2> DEFINE chain == BlocksByNumber(Top + 1)
  <2>1. /\ Top >= 1 /\ Top \in Nat
        /\ chain \in Seq(Block) /\ Len(chain) = Top + 1
        /\ \A i \in 1..(Top + 1) : chain[i] = numberKeys[i - 1]
        /\ LoadChainFromStorage = [blocks |-> chain, height |-> Top,
                                   best |-> hashKeys[bestKey], utxo |-> chain]
    BY <1>1, <1>4, LoadIntact, TopIsHeight DEF SerialInv
  <2> HIDE DEF chain
  <2>2. /\ blocks' = chain /\ height' = Top /\ bestBlock' = hashKeys[bestKey]
        /\ utxoBlocks' = chain /\ phase' = "up" /\ UNCHANGED <<pc, job>>
    BY <2>1 DEF NewBlockchain
  <2>3. /\ numberKeys[0] = Genesis /\ numberKeys[Top] = hashKeys[bestKey]
        /\ \A i \in 0..(Top - 1) : Abstract!Follows(numberKeys[i], numberKeys[i + 1])
    BY <1>4 DEF SerialInv, StoredChain
  <2>4. ChainLinked'
    <3>1. chain[1] = Genesis /\ chain[Top + 1] = hashKeys[bestKey]
      BY <2>1, <2>3
    <3>2. ASSUME NEW i \in 1..(Len(chain) - 1)
          PROVE  Abstract!Follows(chain[i], chain[i + 1])
      <4>1. /\ i - 1 \in 0..(Top - 1) /\ i \in 1..(Top + 1) /\ i + 1 \in 1..(Top + 1)
            /\ (i - 1) + 1 = i /\ (i + 1) - 1 = i
        BY <2>1
      <4>2. chain[i] = numberKeys[i - 1] /\ chain[i + 1] = numberKeys[i]
        BY <2>1, <4>1
      <4>3. Abstract!Follows(numberKeys[i - 1], numberKeys[(i - 1) + 1])
        BY <2>3, <4>1
      <4> QED BY <4>1, <4>2, <4>3
    <3>3. Len(chain) > 0 /\ Top = Len(chain) - 1
      BY <2>1
    <3> QED BY <2>1, <2>2, <3>1, <3>2, <3>3 DEF ChainLinked
  <2>5. BootInv'
    BY <1>2, <2>2 DEF BootInv, Goroutines
  <2>6. ServeInv'
    <3>1. \A i \in 0..Top : chain[i + 1] = numberKeys[i]
      <4> SUFFICES ASSUME NEW i \in 0..Top PROVE chain[i + 1] = numberKeys[i]
        OBVIOUS
      <4>1. i + 1 \in 1..(Top + 1) /\ (i + 1) - 1 = i
        BY <2>1
      <4> QED BY <2>1, <4>1
    <3>2. \A h \in Handlers : pc'[h] = "idle"
      BY <1>2, <2>2 DEF Goroutines
    <3>3. Len(blocks') = Top + 1 /\ Top + 1 # Top + 2
      BY <2>1, <2>2
    <3> QED BY <1>2, <1>3, <2>2, <2>3, <3>1, <3>2, <3>3 DEF ServeInv, store
  <2> QED BY <1>1, <1>3, <2>4, <2>5, <2>6 DEF SerialInv
<1>5. CASE bestKey = 0
  <2>1. LoadChainFromStorage = [blocks |-> <<>>, height |-> 0, best |-> NoBlock, utxo |-> <<>>]
    BY <1>1, <1>5, LoadIntact DEF SerialInv
  <2>2. /\ blocks' = <<Genesis>> /\ height' = 0 /\ bestBlock' = Genesis
        /\ utxoBlocks' = <<Genesis>> /\ phase' = "booting" /\ bestKey' = 0
        /\ pc' = [pc EXCEPT ![Boot] = "putHash"] /\ job' = [job EXCEPT ![Boot] = Genesis]
    BY <1>2, <1>5, <2>1, GenesisIsBlock DEF NewBlockchain, store
  <2>3. ChainLinked'
    BY <2>2 DEF ChainLinked
  <2>4. BootInv'
    <3>1. \A h \in Handlers : h # Boot /\ pc'[h] = "idle"
      BY <1>1, <1>2, <2>2, ConstantsAssumption DEF TypeInv, TypeOK, Goroutines
    <3>2. pc'[Boot] = "putHash" /\ job'[Boot] = Genesis
      BY <1>1, <2>2 DEF TypeInv, TypeOK, Goroutines
    <3> QED BY <2>2, <3>1, <3>2 DEF BootInv
  <2>5. ServeInv'
    BY <2>2 DEF ServeInv
  <2> QED BY <1>1, <1>3, <2>3, <2>4, <2>5 DEF SerialInv
<1> QED BY <1>4, <1>5

LEMMA SerialInvCrash == SerialInv /\ Crash => SerialInv'
<1> SUFFICES ASSUME SerialInv, Crash PROVE SerialInv'
  OBVIOUS
<1>1. TypeInv'
  BY TypeInvCrash DEF SerialInv
<1>2. ChainLinked' /\ BootInv' /\ ServeInv'
  BY DEF Crash, ChainLinked, BootInv, ServeInv
<1>3. StoredChain' /\ AckInv'
  BY DEF Crash, SerialInv, StoredChain, AckInv, Top, store, miners
<1> QED BY <1>1, <1>2, <1>3 DEF SerialInv

LEMMA SerialInvMine == ASSUME NEW t \in Clocks PROVE SerialInv /\ Mine(t) => SerialInv'
<1> SUFFICES ASSUME SerialInv, Mine(t) PROVE SerialInv'
  OBVIOUS
<1>1. TypeInv'
  BY TypeInvMine DEF SerialInv
<1>2. UNCHANGED <<phase, memory, pc, job, store, acked>>
  BY DEF Mine
<1>3. ChainLinked' /\ BootInv' /\ StoredChain' /\ AckInv'
  BY <1>2 DEF SerialInv, ChainLinked, BootInv, StoredChain, AckInv,
              Top, memory, store
<1>4. ServeInv'
  BY <1>2 DEF SerialInv, ServeInv, Top, memory, store
<1> QED BY <1>1, <1>3, <1>4 DEF SerialInv

LEMMA SerialInvAddBlock ==
    ASSUME Serial, NEW h \in Handlers, NEW b \in mined
    PROVE  SerialInv /\ AddBlock(h, b) => SerialInv'
<1> SUFFICES ASSUME SerialInv, AddBlock(h, b) PROVE SerialInv'
  OBVIOUS
<1>1. TypeInv /\ TypeInv'
  BY TypeInvAddBlock DEF SerialInv
<1>2. /\ phase = "up" /\ phase' = "up" /\ pc[h] = "idle"
      /\ blocks' = Append(blocks, b) /\ utxoBlocks' = Append(utxoBlocks, b)
      /\ height' = b.number /\ bestBlock' = b
      /\ pc' = [pc EXCEPT ![h] = "putHash"] /\ job' = [job EXCEPT ![h] = b]
      /\ UNCHANGED <<store, acked>>
  BY DEF AddBlock, miners
<1>3. /\ b \in Block /\ b \in Known /\ b.number \in Nat /\ b.number >= 1
      /\ blocks \in Seq(Block) /\ Len(blocks) \in Nat /\ Len(blocks) > 0
      /\ blocks[1] = Genesis
      /\ bestBlock = blocks[Len(blocks)] /\ height = Len(blocks) - 1
      /\ \A i \in 1..(Len(blocks) - 1) : Abstract!Follows(blocks[i], blocks[i + 1])
  <2>1. b \in Block /\ b \in Known /\ blocks \in Seq(Block)
    BY <1>1, <1>2 DEF TypeInv, TypeOK, Known
  <2>2. b.number \in Nat /\ b.number >= 1
    BY <1>1, <2>1, BlockFields, HeightsAreNat DEF TypeInv, KnownInv
  <2> QED BY <1>2, <2>1, <2>2, LenProperties DEF SerialInv, ChainLinked
<1>4. \A g \in Goroutines : pc[g] = "idle"
  BY <1>2 DEF SerialInv, BootInv, Goroutines, Serial
<1>5. Abstract!Follows(bestBlock, b) /\ b.number = bestBlock.number + 1
  <2>1. ValidateBlock(b) /\ b.number # 0
    BY <1>3 DEF AddBlock
  <2>2. b.parent = bestBlock.hash /\ b.number = bestBlock.number + 1
          /\ b.timestamp >= bestBlock.timestamp
    BY <2>1 DEF ValidateBlock
  <2> QED BY <2>2 DEF Abstract!Follows
<1>6. /\ Len(blocks') = Len(blocks) + 1
      /\ \A i \in 1..Len(blocks) : blocks'[i] = blocks[i]
      /\ blocks'[Len(blocks) + 1] = b
  BY <1>2, <1>3, AppendProperties
<1>7. b.number = Len(blocks)
  BY <1>2, <1>3, <1>5, HeightIsNumber
<1>8. ChainLinked'
  <2>1. ASSUME NEW i \in 1..(Len(blocks') - 1)
        PROVE  Abstract!Follows(blocks'[i], blocks'[i + 1])
    <3>1. CASE i = Len(blocks)
      BY <1>3, <1>5, <1>6, <3>1
    <3>2. CASE i # Len(blocks)
      <4>1. i \in 1..(Len(blocks) - 1) /\ i \in 1..Len(blocks) /\ i + 1 \in 1..Len(blocks)
        BY <1>3, <1>6, <3>2
      <4> QED BY <1>3, <1>6, <4>1
    <3> QED BY <3>1, <3>2
  <2> QED BY <1>2, <1>3, <1>6, <1>7, <2>1 DEF ChainLinked
<1>9. BootInv' /\ StoredChain' /\ AckInv' /\ Top' = Top
  <2>1. StoredChain' /\ AckInv' /\ Top' = Top
    BY <1>2 DEF SerialInv, StoredChain, AckInv, Top, store
  <2>2. pc'[Boot] = "idle"
    BY <1>1, <1>2, <1>4, ConstantsAssumption DEF TypeInv, TypeOK, Goroutines
  <2> QED BY <1>2, <2>1, <2>2 DEF BootInv
<1>10. ServeInv'
  <2>1. /\ Top \in Nat /\ Len(blocks) = Top + 1 /\ numberKeys[0] = Genesis
        /\ \A i \in 0..Top : blocks[i + 1] = numberKeys[i]
    BY <1>1, <1>2, <1>4, TopIsHeight DEF SerialInv, ServeInv, Goroutines
  <2>2. Len(blocks') = Top + 2
    BY <1>6, <2>1
  <2>3. \A i \in 0..Top : blocks'[i + 1] = numberKeys[i]
    <3> SUFFICES ASSUME NEW i \in 0..Top PROVE blocks'[i + 1] = numberKeys[i]
      OBVIOUS
    <3>1. i + 1 \in 1..Len(blocks)
      BY <2>1
    <3> QED BY <1>6, <2>1, <3>1
  <2>4. pc'[h] = "putHash" /\ job'[h] = b /\ \A g \in Handlers : g = h
    BY <1>1, <1>2 DEF TypeInv, TypeOK, Goroutines, Serial
  <2> QED BY <1>2, <1>3, <1>9, <2>1, <2>2, <2>3, <2>4 DEF ServeInv, store
<1> QED BY <1>1, <1>8, <1>9, <1>10 DEF SerialInv

(* What SerialInv says of a handler that is storing its block, and what of *)
(* the booting goroutine.                                                  *)
LEMMA WhoIsStoring ==
    ASSUME Serial, SerialInv, NEW g \in Goroutines, pc[g] # "idle"
    PROVE  \/ /\ g = Boot /\ phase = "booting" /\ job[g] = Genesis /\ bestKey = 0
              /\ blocks = <<Genesis>>
              /\ pc[g] \in {"putHash", "putNumber", "readBest", "reply"}
              /\ \A h \in Handlers : pc[h] = "idle"
           \/ /\ g \in Handlers /\ phase = "up" /\ job[g] = bestBlock
              /\ job[g].number >= 1 /\ pc[Boot] = "idle"
              /\ \A h \in Handlers : h = g
              /\ job[g].number = Len(blocks) - 1
<1>1. phase \in {"booting", "up"}
  BY JobIsBlock DEF SerialInv, TypeInv, TypeOK
<1>2. CASE g = Boot
  <2>1. phase = "booting"
    BY <1>1, <1>2 DEF SerialInv, BootInv
  <2> QED BY <1>2, <2>1 DEF SerialInv, BootInv
<1>3. CASE g \in Handlers
  <2>1. phase = "up"
    BY <1>1, <1>3 DEF SerialInv, BootInv
  <2>2. pc[Boot] = "idle" /\ job[g] = bestBlock /\ job[g].number >= 1
    BY <1>3, <2>1 DEF SerialInv, BootInv, ServeInv
  <2>3. bestBlock.number = Len(blocks) - 1
    BY <2>1, HeightIsNumber
  <2> QED BY <1>3, <2>1, <2>2, <2>3 DEF Serial
<1> QED BY <1>2, <1>3 DEF Goroutines

LEMMA SerialInvPutHash ==
    ASSUME Serial, NEW g \in Goroutines
    PROVE  SerialInv /\ PutHash(g) => SerialInv'
<1> SUFFICES ASSUME SerialInv, PutHash(g) PROVE SerialInv'
  OBVIOUS
<1>1. TypeInv /\ TypeInv'
  BY TypeInvPutHash DEF SerialInv
<1>2. /\ pc[g] = "putHash"
      /\ hashKeys' = [hashKeys EXCEPT ![job[g].hash] = job[g]]
      /\ pc' = [pc EXCEPT ![g] = "putNumber"]
      /\ UNCHANGED <<phase, memory, job, numberKeys, bestKey, acked>>
  BY DEF PutHash, miners
<1>3. job[g] \in Known /\ job[g].hash \in Hashes
  BY <1>1, <1>2, JobIsBlock
<1>4. bestKey # 0 => hashKeys'[bestKey] = hashKeys[bestKey]
  <2>1. bestKey # 0 => bestKey \in Hashes /\ hashKeys[bestKey] \in Known
                         /\ hashKeys[bestKey].hash = bestKey
    BY <1>1 DEF TypeInv, TypeOK, StoreInv, BestKeyResolves
  <2>2. bestKey # 0 /\ bestKey = job[g].hash => hashKeys[bestKey] = job[g]
    BY <1>1, <1>3, <2>1 DEF TypeInv, KnownInv
  <2> QED BY <1>1, <1>2, <1>3, <2>1, <2>2 DEF TypeInv, TypeOK
<1>5. Top' = Top
  BY <1>2, <1>4 DEF Top
<1>6. ChainLinked' /\ StoredChain' /\ AckInv'
  BY <1>2, <1>4, <1>5 DEF SerialInv, ChainLinked, StoredChain, AckInv, memory
<1>7. /\ pc'[g] = "putNumber"
      /\ \A x \in Goroutines : x # g => pc'[x] = pc[x]
  BY <1>1, <1>2 DEF TypeInv, TypeOK
<1>8. CASE g = Boot
  BY <1>1, <1>2, <1>5, <1>6, <1>7, <1>8, WhoIsStoring, ConstantsAssumption
     DEF SerialInv, BootInv, ServeInv, Goroutines, memory
<1>9. CASE g # Boot
  <2>1. /\ g \in Handlers /\ phase = "up" /\ job[g] = bestBlock /\ job[g].number >= 1
        /\ pc[Boot] = "idle" /\ \A h \in Handlers : h = g
    BY <1>2, <1>9, WhoIsStoring
  <2>2. BootInv'
    BY <1>2, <1>7, <1>9, <2>1 DEF BootInv, Goroutines
  <2>3. ServeInv'
    BY <1>2, <1>5, <1>7, <2>1 DEF SerialInv, ServeInv, memory
  <2> QED BY <1>1, <1>6, <2>2, <2>3 DEF SerialInv
<1> QED BY <1>8, <1>9

LEMMA SerialInvPutNumber ==
    ASSUME Serial, NEW g \in Goroutines
    PROVE  SerialInv /\ PutNumber(g) => SerialInv'
<1> SUFFICES ASSUME SerialInv, PutNumber(g) PROVE SerialInv'
  OBVIOUS
<1>1. TypeInv /\ TypeInv'
  BY TypeInvPutNumber DEF SerialInv
<1>2. /\ pc[g] = "putNumber"
      /\ numberKeys' = [numberKeys EXCEPT ![job[g].number] = job[g]]
      /\ pc' = [pc EXCEPT ![g] = "readBest"]
      /\ UNCHANGED <<phase, memory, job, hashKeys, bestKey, acked>>
  BY DEF PutNumber, miners
<1>3. job[g] \in Known /\ job[g].number \in Heights /\ Top \in Nat
  BY <1>1, <1>2, JobIsBlock, TopIsHeight
<1>4. /\ pc'[g] = "readBest" /\ numberKeys'[job[g].number] = job[g] /\ Top' = Top
      /\ \A x \in Goroutines : x # g => pc'[x] = pc[x]
      /\ \A n \in Nat : n # job[g].number => numberKeys'[n] = numberKeys[n]
  BY <1>1, <1>2, <1>3 DEF TypeInv, TypeOK, Top
<1>5. ChainLinked'
  BY <1>2 DEF SerialInv, ChainLinked, memory
<1>6. CASE g = Boot
  <2>1. /\ phase = "booting" /\ job[g] = Genesis /\ bestKey = 0 /\ blocks = <<Genesis>>
        /\ \A h \in Handlers : pc[h] = "idle"
    BY <1>2, <1>6, WhoIsStoring, ConstantsAssumption
  <2>2. numberKeys'[0] = Genesis
    BY <1>4, <2>1 DEF Genesis
  <2>3. StoredChain' /\ ServeInv'
    BY <1>2, <2>1 DEF StoredChain, ServeInv
  <2>4. acked = {}
    BY <2>1 DEF SerialInv, AckInv, Top
  <2>5. BootInv'
    BY <1>2, <1>4, <1>6, <2>1, <2>2, ConstantsAssumption DEF BootInv, Goroutines, memory
  <2> QED BY <1>1, <1>2, <1>5, <2>3, <2>4, <2>5 DEF SerialInv, AckInv
<1>7. CASE g # Boot
  <2>1. /\ g \in Handlers /\ phase = "up" /\ job[g] = bestBlock /\ job[g].number >= 1
        /\ pc[Boot] = "idle" /\ job[g].number = Len(blocks) - 1
        /\ \A h \in Handlers : h = g
    BY <1>2, <1>7, WhoIsStoring
  <2>2. Len(blocks) = Top + 2
    BY <1>2, <2>1 DEF SerialInv, ServeInv
  <2>3. job[g].number = Top + 1
    BY <1>3, <2>1, <2>2
  <2>4. \A i \in 0..Top : numberKeys'[i] = numberKeys[i]
    BY <1>3, <1>4, <2>3
  <2>5. StoredChain'
    <3> SUFFICES ASSUME bestKey # 0 PROVE StoredChain'
      BY <1>2 DEF StoredChain
    <3>1. /\ Top >= 1 /\ numberKeys[0] = Genesis /\ numberKeys[Top] = hashKeys[bestKey]
          /\ \A i \in 0..Top : numberKeys[i] # NoBlock
          /\ \A i \in 0..(Top - 1) : Abstract!Follows(numberKeys[i], numberKeys[i + 1])
      BY DEF SerialInv, StoredChain
    <3>2. ASSUME NEW i \in 0..(Top - 1)
          PROVE  Abstract!Follows(numberKeys'[i], numberKeys'[i + 1])
      <4>1. i \in 0..Top /\ i + 1 \in 0..Top
        BY <1>3
      <4> QED BY <2>4, <3>1, <4>1
    <3>3. 0 \in 0..Top /\ Top \in 0..Top
      BY <1>3
    <3>4. numberKeys'[0] = Genesis /\ numberKeys'[Top] = hashKeys[bestKey]
      BY <2>4, <3>1, <3>3
    <3>5. \A i \in 0..Top : numberKeys'[i] # NoBlock
      BY <2>4, <3>1
    <3> QED BY <1>2, <1>4, <3>1, <3>2, <3>4, <3>5 DEF StoredChain
  <2>6. AckInv'
    <3> SUFFICES ASSUME NEW b \in acked
                 PROVE  b.number \in 1..Top /\ numberKeys'[b.number] = b
      BY <1>2, <1>4 DEF AckInv
    <3>1. b.number \in 1..Top /\ numberKeys[b.number] = b
      BY DEF SerialInv, AckInv
    <3>2. b.number \in 0..Top
      BY <1>3, <3>1
    <3> QED BY <2>4, <3>1, <3>2
  <2>7. BootInv'
    BY <1>2, <1>4, <1>7, <2>1 DEF BootInv, Goroutines
  <2>8. ServeInv'
    <3>1. /\ numberKeys[0] = Genesis /\ \A i \in 0..Top : blocks[i + 1] = numberKeys[i]
      BY <2>1 DEF SerialInv, ServeInv
    <3>2. 0 \in 0..Top
      BY <1>3
    <3>3. /\ numberKeys'[0] = Genesis /\ \A i \in 0..Top : blocks[i + 1] = numberKeys'[i]
      BY <2>4, <3>1, <3>2
    <3> QED BY <1>2, <1>4, <2>1, <2>2, <3>3 DEF ServeInv, memory
  <2> QED BY <1>1, <1>5, <2>5, <2>6, <2>7, <2>8 DEF SerialInv
<1> QED BY <1>6, <1>7

LEMMA SerialInvReadBest ==
    ASSUME Serial, NEW g \in Goroutines
    PROVE  SerialInv /\ ReadBest(g) => SerialInv'
<1> SUFFICES ASSUME SerialInv, ReadBest(g) PROVE SerialInv'
  OBVIOUS
<1>1. TypeInv /\ TypeInv'
  BY TypeInvReadBestPutFails DEF SerialInv
<1>2. /\ pc[g] = "readBest"
      /\ UNCHANGED <<phase, memory, job, store, acked>>
  BY DEF ReadBest, miners
<1>3. job[g].number \in Nat /\ Top \in Nat
  BY <1>1, <1>2, JobIsBlock, TopIsHeight, HeightsAreNat
<1>4. ChainLinked' /\ StoredChain' /\ AckInv' /\ Top' = Top
  BY <1>2 DEF SerialInv, ChainLinked, StoredChain, AckInv, Top,
              memory, store
<1>5. /\ \A x \in Goroutines : x # g => pc'[x] = pc[x]
      /\ pc'[g] \in {"setBest", "reply"}
  BY <1>1 DEF ReadBest, TypeInv, TypeOK
<1>6. CASE g = Boot
  <2>1. /\ phase = "booting" /\ job[g] = Genesis /\ bestKey = 0
        /\ \A h \in Handlers : pc[h] = "idle"
    BY <1>2, <1>6, WhoIsStoring, ConstantsAssumption
  <2>2. GetBestBlock = NoBlock /\ job[g].number = 0 /\ ~(0 > 0)
    BY <2>1 DEF GetBestBlock, Genesis
  <2>3. pc'[g] = "reply"
    BY <1>1, <2>2 DEF ReadBest, TypeInv, TypeOK
  <2>4. numberKeys[0] = Genesis /\ blocks = <<Genesis>>
    BY <1>2, <1>6, <2>1 DEF SerialInv, BootInv
  <2>5. BootInv' /\ ServeInv'
    BY <1>2, <1>5, <1>6, <2>1, <2>3, <2>4, ConstantsAssumption
       DEF BootInv, ServeInv, Goroutines, memory, store
  <2> QED BY <1>1, <1>4, <2>5 DEF SerialInv
<1>7. CASE g # Boot
  <2>1. /\ g \in Handlers /\ phase = "up" /\ job[g] = bestBlock /\ job[g].number >= 1
        /\ pc[Boot] = "idle" /\ job[g].number = Len(blocks) - 1
        /\ \A h \in Handlers : h = g
    BY <1>2, <1>7, WhoIsStoring
  <2>2. Len(blocks) = Top + 2 /\ numberKeys[job[g].number] = job[g]
    BY <1>2, <2>1 DEF SerialInv, ServeInv
  <2>3. job[g].number > Top
    BY <1>3, <2>1, <2>2
  <2>4. pc'[g] = "setBest"
    <3>1. job[g].number > (IF dbOpen /\ GetBestBlock # NoBlock THEN GetBestBlock.number ELSE 0)
      BY <1>1, <1>3, <2>1, <2>3, TopIsHeight
    <3> QED BY <1>1, <3>1 DEF ReadBest, TypeInv, TypeOK
  <2>5. BootInv'
    BY <1>2, <1>5, <1>7, <2>1 DEF BootInv, Goroutines
  <2>6. ServeInv'
    BY <1>2, <1>4, <2>1, <2>2, <2>4 DEF SerialInv, ServeInv, memory, store
  <2> QED BY <1>1, <1>4, <2>5, <2>6 DEF SerialInv
<1> QED BY <1>6, <1>7

LEMMA SerialInvSetBestBlock ==
    ASSUME Serial, NEW g \in Goroutines
    PROVE  SerialInv /\ SetBestBlock(g) => SerialInv'
<1> SUFFICES ASSUME SerialInv, SetBestBlock(g) PROVE SerialInv'
  OBVIOUS
<1>1. TypeInv /\ TypeInv'
  BY TypeInvSetBestBlock DEF SerialInv
<1>2. /\ pc[g] = "setBest" /\ bestKey' = job[g].hash
      /\ pc' = [pc EXCEPT ![g] = "reply"]
      /\ UNCHANGED <<phase, memory, job, hashKeys, numberKeys, acked>>
  BY DEF SetBestBlock, miners
<1>3. /\ g \in Handlers /\ phase = "up" /\ job[g] = bestBlock /\ job[g].number >= 1
      /\ pc[Boot] = "idle" /\ job[g].number = Len(blocks) - 1
      /\ \A h \in Handlers : h = g
  BY <1>2, WhoIsStoring
<1>4. /\ job[g].number \in Nat /\ job[g] \in Block /\ job[g].hash \in Hashes
      /\ hashKeys[job[g].hash] = job[g]
      /\ Top \in Nat /\ Len(blocks) = Top + 2
      /\ numberKeys[job[g].number] = job[g] /\ numberKeys[0] = Genesis
      /\ \A i \in 0..Top : blocks[i + 1] = numberKeys[i]
  <2>1. job[g].number \in Nat /\ job[g] \in Block /\ job[g].hash \in Hashes /\ Top \in Nat
    BY <1>1, <1>2, JobIsBlock, TopIsHeight, HeightsAreNat
  <2> QED BY <1>1, <1>2, <1>3, <2>1 DEF SerialInv, ServeInv, TypeInv, JobInv
<1>5. job[g].hash # 0
  <2>1. job[g].number < job[g].hash
    BY <1>1, <1>2, JobIsBlock DEF TypeInv, KnownInv
  <2> QED BY <1>4, <2>1
<1>6. job[g].number = Top + 1 /\ Top' = Top + 1
  <2>1. Top' = job[g].number
    BY <1>2, <1>4, <1>5 DEF Top
  <2> QED BY <1>3, <1>4, <2>1
<1>7. blocks[Top + 2] = numberKeys[Top + 1] /\ numberKeys[Top + 1] = bestBlock
  BY <1>3, <1>4, <1>6 DEF SerialInv, ChainLinked
<1>8. \A i \in 0..(Top + 1) : blocks[i + 1] = numberKeys[i]
  <2> SUFFICES ASSUME NEW i \in 0..(Top + 1) PROVE blocks[i + 1] = numberKeys[i]
    OBVIOUS
  <2>1. CASE i = Top + 1
    <3>1. i + 1 = Top + 2
      BY <1>4, <2>1
    <3> QED BY <1>7, <2>1, <3>1
  <2>2. CASE i # Top + 1
    <3>1. i \in 0..Top
      BY <1>4, <2>2
    <3> QED BY <1>4, <3>1
  <2> QED BY <2>1, <2>2
<1>9. StoredChain'
  <2>1. ASSUME NEW i \in 0..Top
        PROVE  Abstract!Follows(numberKeys[i], numberKeys[i + 1])
    <3>1. /\ i + 1 \in 1..(Len(blocks) - 1) /\ i \in 0..(Top + 1) /\ i + 1 \in 0..(Top + 1)
      BY <1>4
    <3>2. Abstract!Follows(blocks[i + 1], blocks[(i + 1) + 1])
      BY <1>3, <3>1 DEF SerialInv, ChainLinked
    <3> QED BY <1>8, <3>1, <3>2
  <2>2. ASSUME NEW i \in 0..(Top + 1)
        PROVE  numberKeys[i] # NoBlock
    <3>1. i + 1 \in 1..Len(blocks)
      BY <1>4
    <3>2. blocks[i + 1] \in Block
      BY <1>1, <3>1, ElementOfSeq DEF TypeInv, TypeOK
    <3> QED BY <1>8, <3>2, NoBlockAssumption
  <2>3. /\ Top + 1 >= 1 /\ (Top + 1) - 1 = Top
    BY <1>4
  <2>4. numberKeys[Top + 1] = hashKeys[job[g].hash]
    BY <1>3, <1>4, <1>7
  <2> QED BY <1>2, <1>4, <1>6, <2>1, <2>2, <2>3, <2>4 DEF StoredChain
<1>10. AckInv'
  <2> SUFFICES ASSUME NEW b \in acked
               PROVE  b.number \in 1..(Top + 1) /\ numberKeys[b.number] = b
    BY <1>2, <1>6 DEF AckInv
  <2>1. b.number \in 1..Top /\ numberKeys[b.number] = b
    BY DEF SerialInv, AckInv
  <2> QED BY <1>4, <2>1
<1>11. /\ pc'[g] = "reply"
       /\ \A x \in Goroutines : x # g => pc'[x] = pc[x]
  BY <1>1, <1>2 DEF TypeInv, TypeOK
<1>12. ChainLinked' /\ BootInv'
  <2>1. g # Boot
    BY <1>2, <1>3
  <2> QED BY <1>2, <1>3, <1>11, <2>1
          DEF SerialInv, ChainLinked, BootInv, Goroutines, memory
<1>13. ServeInv'
  <2>1. Len(blocks) = Top' + 1 /\ Top' + 1 # Top' + 2
    BY <1>4, <1>6
  <2>2. \A i \in 0..Top' : blocks[i + 1] = numberKeys[i]
    BY <1>6, <1>8
  <2> QED BY <1>2, <1>3, <1>4, <1>11, <2>1, <2>2 DEF ServeInv, memory
<1> QED BY <1>1, <1>9, <1>10, <1>12, <1>13 DEF SerialInv

LEMMA SerialInvReply ==
    ASSUME Serial, NEW g \in Goroutines
    PROVE  SerialInv /\ Reply(g) => SerialInv'
<1> SUFFICES ASSUME SerialInv, Reply(g) PROVE SerialInv'
  OBVIOUS
<1>1. TypeInv /\ TypeInv'
  BY TypeInvReply DEF SerialInv
<1>2. /\ pc[g] = "reply" /\ phase' = "up"
      /\ acked' = IF g = Boot THEN acked ELSE acked \cup {job[g]}
      /\ pc' = [pc EXCEPT ![g] = "idle"] /\ job' = [job EXCEPT ![g] = NoBlock]
      /\ UNCHANGED <<memory, store>>
  BY DEF Reply
<1>3. phase # "down" /\ Top' = Top /\ Top \in Nat
  BY <1>1, <1>2, JobIsBlock, TopIsHeight DEF Top, store
<1>4. ChainLinked' /\ StoredChain'
  BY <1>2, <1>3 DEF SerialInv, ChainLinked, StoredChain, memory, store
<1>5. /\ pc'[g] = "idle"
      /\ \A x \in Goroutines : x # g => pc'[x] = pc[x] /\ job'[x] = job[x]
  BY <1>1, <1>2 DEF TypeInv, TypeOK
<1>6. CASE g = Boot
  <2>1. /\ blocks = <<Genesis>> /\ bestKey = 0 /\ numberKeys[0] = Genesis
        /\ \A h \in Handlers : pc[h] = "idle"
    BY <1>2, <1>6, WhoIsStoring, ConstantsAssumption DEF SerialInv, BootInv
  <2>2. \A h \in Handlers : pc'[h] = "idle"
    BY <1>5, <2>1 DEF Goroutines
  <2>3. AckInv' /\ BootInv'
    BY <1>2, <1>3, <1>5, <1>6 DEF SerialInv, AckInv, BootInv, Goroutines, store
  <2>4. Top = 0 /\ Len(blocks) = Top + 1 /\ Top + 1 # Top + 2
    BY <2>1 DEF Top
  <2>5. \A i \in 0..Top : blocks[i + 1] = numberKeys[i]
    <3>1. \A i \in 0..Top : i = 0
      BY <2>4
    <3>2. blocks[0 + 1] = numberKeys[0]
      BY <2>1
    <3> QED BY <3>1, <3>2
  <2>6. ServeInv'
    BY <1>2, <1>3, <2>1, <2>2, <2>4, <2>5 DEF ServeInv, memory, store
  <2> QED BY <1>1, <1>4, <2>3, <2>6 DEF SerialInv
<1>7. CASE g # Boot
  <2>1. /\ g \in Handlers /\ phase = "up" /\ job[g] = bestBlock /\ job[g].number >= 1
        /\ pc[Boot] = "idle" /\ job[g].number = Len(blocks) - 1
        /\ \A h \in Handlers : h = g
    BY <1>2, <1>7, WhoIsStoring
  <2>2. /\ Len(blocks) = Top + 1 /\ numberKeys[0] = Genesis
        /\ \A i \in 0..Top : blocks[i + 1] = numberKeys[i]
    BY <1>2, <2>1 DEF SerialInv, ServeInv
  <2>3. job[g].number = Top /\ Top + 1 # Top + 2 /\ Top \in 1..Top
    BY <1>3, <2>1, <2>2
  <2>4. numberKeys[Top] = job[g]
    <3>1. Top \in 0..Top
      BY <1>3
    <3>2. blocks[Top + 1] = bestBlock
      BY <1>3, <2>2 DEF SerialInv, ChainLinked
    <3> QED BY <2>1, <2>2, <3>1, <3>2
  <2>5. AckInv'
    BY <1>2, <1>3, <2>3, <2>4 DEF SerialInv, AckInv, store
  <2>6. BootInv'
    BY <1>2, <1>5, <1>7, <2>1 DEF BootInv, Goroutines
  <2>7. ServeInv'
    BY <1>2, <1>3, <1>5, <2>1, <2>2, <2>3 DEF ServeInv, memory, store
  <2> QED BY <1>1, <1>4, <2>5, <2>6, <2>7 DEF SerialInv
<1> QED BY <1>6, <1>7

LEMMA SerialInvStutter == SerialInv /\ UNCHANGED vars => SerialInv'
<1> SUFFICES ASSUME SerialInv, UNCHANGED vars PROVE SerialInv'
  OBVIOUS
<1>1. TypeInv'
  BY TypeInvStutter DEF SerialInv
<1>2. ChainLinked' /\ BootInv' /\ StoredChain' /\ AckInv'
  BY DEF SerialInv, ChainLinked, BootInv, StoredChain, AckInv,
         Top, vars, memory, store, miners
<1>3. ServeInv'
  BY DEF SerialInv, ServeInv, Top, vars, memory, store
<1> QED BY <1>1, <1>2, <1>3 DEF SerialInv

LEMMA SerialInvNext ==
    ASSUME Serial, StorageMayFail = FALSE
    PROVE  SerialInv /\ [Next]_vars => SerialInv'
<1> SUFFICES ASSUME SerialInv, [Next]_vars PROVE SerialInv'
  OBVIOUS
<1>1. CASE NewBlockchain
  BY <1>1, SerialInvNewBlockchain
<1>2. CASE Crash
  BY <1>2, SerialInvCrash
<1>3. CASE CloseStorage
  BY <1>3 DEF CloseStorage
<1>4. CASE \E t \in Clocks : Mine(t)
  BY <1>4, SerialInvMine
<1>5. CASE \E h \in Handlers, b \in mined : AddBlock(h, b)
  BY <1>5, SerialInvAddBlock
<1>6. ASSUME NEW g \in Goroutines, StoreStep(g)
      PROVE  SerialInv'
  <2>1. ~PutFails(g)
    BY DEF PutFails
  <2> QED BY <1>6, <2>1, SerialInvPutHash, SerialInvPutNumber, SerialInvReadBest,
             SerialInvSetBestBlock, SerialInvReply DEF StoreStep
<1>7. CASE UNCHANGED vars
  BY <1>7, SerialInvStutter
<1> QED BY <1>1, <1>2, <1>3, <1>4, <1>5, <1>6, <1>7 DEF Next

LEMMA SerialInvAlways ==
    ASSUME Serial, StorageMayFail = FALSE
    PROVE  Spec => []SerialInv
BY SerialInvInit, SerialInvNext, PTL DEF Spec

(* Where the acknowledged blocks are, in the store and in memory.          *)
LEMMA AckedAreStored ==
    ASSUME SerialInv, NEW b \in acked
    PROVE  /\ bestKey # 0 /\ b.number \in 1..Top /\ b.number + 1 \in 1..(Top + 1)
           /\ LoadChainFromStorage.blocks[b.number + 1] = b
           /\ phase # "down" => blocks[b.number + 1] = b /\ Top + 1 <= Len(blocks)
<1>1. b.number \in 1..Top /\ numberKeys[b.number] = b /\ Top \in Nat
  BY TopIsHeight DEF SerialInv, AckInv
<1>2. bestKey # 0
  BY <1>1 DEF Top
<1>3. b.number + 1 \in 1..(Top + 1) /\ (b.number + 1) - 1 = b.number /\ b.number \in 0..Top
  BY <1>1
<1>4. LoadChainFromStorage.blocks[b.number + 1] = b
  BY <1>1, <1>2, <1>3, LoadIntact DEF SerialInv
<1>5. ASSUME phase # "down"
      PROVE  blocks[b.number + 1] = b /\ Top + 1 <= Len(blocks)
  <2>1. phase = "up"
    BY <1>2, <1>5 DEF SerialInv, BootInv, TypeInv, TypeOK
  <2> QED BY <1>1, <1>3, <2>1 DEF SerialInv, ServeInv
<1> QED BY <1>1, <1>2, <1>3, <1>4, <1>5

LEMMA SerialInvKeepsAcked == SerialInv => AckedSurvive
<1> SUFFICES ASSUME SerialInv, NEW b \in acked
             PROVE  /\ phase # "down" => \E i \in 1..Len(blocks) : blocks[i] = b
                    /\ \E i \in 1..Len(LoadChainFromStorage.blocks) :
                          LoadChainFromStorage.blocks[i] = b
  BY DEF AckedSurvive
<1>1. /\ bestKey # 0 /\ b.number + 1 \in 1..(Top + 1) /\ Top \in Nat
      /\ LoadChainFromStorage.blocks[b.number + 1] = b
      /\ phase # "down" => blocks[b.number + 1] = b /\ Top + 1 <= Len(blocks)
  BY AckedAreStored, TopIsHeight DEF SerialInv
<1>2. Len(LoadChainFromStorage.blocks) = Top + 1
  BY <1>1, LoadIntact DEF SerialInv
<1>3. Len(blocks) \in Nat
  BY LenProperties DEF SerialInv, TypeInv, TypeOK
<1>4. phase # "down" => b.number + 1 \in 1..Len(blocks)
  BY <1>1, <1>3
<1> QED BY <1>1, <1>2, <1>4

(* With one submission at a time and no failing Put, the chain in memory   *)
(* is linked at every moment, for any number of crashes and restarts: no   *)
(* crash point of StoreBlock leaves keys that load into a broken chain.    *)
THEOREM ChainAlwaysLinked ==
    ASSUME Serial, StorageMayFail = FALSE
    PROVE  Spec => []ChainLinked
BY SerialInvAlways, PTL DEF SerialInv

(* Under the same conditions a block that a miner was told was added is in *)
(* the chain for good, across crashes and restarts.                        *)
THEOREM AckedAlwaysSurvive ==
    ASSUME Serial, StorageMayFail = FALSE
    PROVE  Spec => []AckedSurvive
BY SerialInvAlways, SerialInvKeepsAcked, PTL

-----------------------------------------------------------------------------
(* ChainStore implements DurableChain.                                     *)

(* The chain of DurableChain: the one in memory, and while the node is down*)
(* the one that it would start with.                                       *)
RestartChain ==
    IF LoadChainFromStorage.height = 0
      THEN Append(LoadChainFromStorage.blocks, Genesis)
      ELSE LoadChainFromStorage.blocks

AbstractChain == IF phase = "down" THEN RestartChain ELSE blocks

LEMMA RestartChainIsStored ==
    ASSUME SerialInv
    PROVE  /\ bestKey = 0 => RestartChain = <<Genesis>>
           /\ bestKey # 0 => RestartChain = BlocksByNumber(Top + 1)
<1>1. CASE bestKey = 0
  <2>1. LoadChainFromStorage.height = 0 /\ LoadChainFromStorage.blocks = <<>>
    BY <1>1, LoadIntact DEF SerialInv
  <2> QED BY <1>1, <2>1, GenesisIsBlock DEF RestartChain
<1>2. CASE bestKey # 0
  <2>1. /\ LoadChainFromStorage.height = Top /\ Top >= 1 /\ Top \in Nat
        /\ LoadChainFromStorage.blocks = BlocksByNumber(Top + 1)
    BY <1>2, LoadIntact, TopIsHeight DEF SerialInv
  <2> QED BY <1>2, <2>1 DEF RestartChain
<1> QED BY <1>1, <1>2

LEMMA RestartChainUnchanged ==
    ASSUME UNCHANGED store
    PROVE  RestartChain' = RestartChain
<1>1. LoadChainFromStorage' = LoadChainFromStorage
  BY DEF store, LoadChainFromStorage, GetBestBlock, BlocksByNumber
<1> QED BY <1>1 DEF RestartChain

LEMMA InitRefines == Init => Abstract!Init
<1> SUFFICES ASSUME Init PROVE Abstract!Init
  OBVIOUS
<1>1. SerialInv /\ bestKey = 0 /\ phase = "down" /\ acked = {}
  BY SerialInvInit DEF Init
<1>2. AbstractChain = <<Genesis>>
  BY <1>1, RestartChainIsStored DEF AbstractChain
<1> QED BY <1>1, <1>2 DEF Abstract!Init, AbstractChain, RestartChain

LEMMA NewBlockchainRefines ==
    ASSUME SerialInv, NewBlockchain
    PROVE  AbstractChain' = AbstractChain /\ acked' = acked
<1>1. phase = "down" /\ phase' \in {"booting", "up"} /\ acked' = acked
  BY DEF NewBlockchain, miners
<1>2. CASE bestKey = 0
  <2>1. LoadChainFromStorage = [blocks |-> <<>>, height |-> 0, best |-> NoBlock, utxo |-> <<>>]
    BY <1>2, LoadIntact DEF SerialInv
  <2>2. blocks' = <<Genesis>>
    BY <2>1, GenesisIsBlock DEF NewBlockchain
  <2>3. AbstractChain = <<Genesis>> /\ AbstractChain' = blocks'
    BY <1>1, <1>2, RestartChainIsStored DEF AbstractChain
  <2> QED BY <1>1, <2>2, <2>3
<1>3. CASE bestKey # 0
  <2>1. /\ LoadChainFromStorage.height = Top /\ Top >= 1 /\ Top \in Nat
        /\ LoadChainFromStorage.blocks = BlocksByNumber(Top + 1)
    BY <1>3, LoadIntact, TopIsHeight DEF SerialInv
  <2>2. blocks' = BlocksByNumber(Top + 1)
    BY <2>1 DEF NewBlockchain
  <2>3. AbstractChain = BlocksByNumber(Top + 1) /\ AbstractChain' = blocks'
    BY <1>1, <1>3, RestartChainIsStored DEF AbstractChain
  <2> QED BY <1>1, <2>2, <2>3
<1> QED BY <1>2, <1>3

(* A crash cuts the chain down to the stored one, which has every          *)
(* acknowledged block.                                                     *)
LEMMA CrashRefines ==
    ASSUME SerialInv, SerialInv', Crash
    PROVE  \E n \in 1..Len(AbstractChain) : Abstract!Recover(n)
<1>1. /\ phase \in {"booting", "up"} /\ phase' = "down" /\ acked' = acked /\ UNCHANGED store
      /\ blocks \in Seq(Block) /\ Len(blocks) \in Nat /\ AbstractChain = blocks
  BY LenProperties DEF Crash, miners, SerialInv, TypeInv, TypeOK, AbstractChain
<1>2. Top \in Nat /\ Top' = Top /\ bestKey' = bestKey
  BY <1>1, TopIsHeight DEF SerialInv, Top, store
<1>3. Top + 1 \in 1..Len(blocks)
  <2>1. CASE phase = "up"
    BY <1>1, <1>2, <2>1 DEF SerialInv, ServeInv
  <2>2. CASE phase = "booting"
    <3>1. Top = 0 /\ Len(blocks) = 1
      BY <2>2 DEF SerialInv, BootInv, Top
    <3> QED BY <3>1
  <2> QED BY <1>1, <2>1, <2>2
<1>4. \A b \in acked : \E i \in 1..(Top + 1) : blocks[i] = b
  BY <1>1, AckedAreStored
<1>5. AbstractChain' = RestartChain
  BY <1>1, RestartChainUnchanged DEF AbstractChain
<1>6. RestartChain = SubSeq(blocks, 1, Top + 1)
  <2>1. CASE bestKey = 0
    <3>1. RestartChain = <<Genesis>>
      BY <2>1, RestartChainIsStored
    <3>2. Top = 0 /\ blocks[1] = Genesis
      BY <1>1, <2>1 DEF Top, SerialInv, ChainLinked
    <3>3. SubSeq(blocks, 1, 1) = <<blocks[1]>>
      <4>1. SubSeq(blocks, 1, 1) = [i \in 1..1 |-> blocks[i]]
        BY <1>1, <1>3, <3>2
      <4>2. [i \in 1..1 |-> blocks[i]] = <<blocks[1]>>
        OBVIOUS
      <4> QED BY <4>1, <4>2
    <3> QED BY <3>1, <3>2, <3>3
  <2>2. CASE bestKey # 0
    <3>1. RestartChain = BlocksByNumber(Top + 1)
      BY <2>2, RestartChainIsStored
    <3>2. BlocksByNumber(Top + 1) = [i \in 1..(Top + 1) |-> numberKeys[i - 1]]
      BY DEF BlocksByNumber
    <3>3. phase = "up"
      BY <1>1, <2>2 DEF SerialInv, BootInv
    <3>4. \A i \in 1..(Top + 1) : numberKeys[i - 1] = blocks[i]
      <4> SUFFICES ASSUME NEW i \in 1..(Top + 1) PROVE numberKeys[i - 1] = blocks[i]
        OBVIOUS
      <4>1. i - 1 \in 0..Top /\ (i - 1) + 1 = i
        BY <1>2
      <4> QED BY <3>3, <4>1 DEF SerialInv, ServeInv
    <3>5. SubSeq(blocks, 1, Top + 1) = [i \in 1..(Top + 1) |-> blocks[i]]
      BY <1>1, <1>2, <1>3
    <3> QED BY <3>1, <3>2, <3>4, <3>5
  <2> QED BY <2>1, <2>2
<1>7. Abstract!Recover(Top + 1)
  <2>1. \A b \in acked : \E i \in 1..(Top + 1) : AbstractChain[i] = b
    BY <1>1, <1>4
  <2>2. AbstractChain' = SubSeq(AbstractChain, 1, Top + 1)
    BY <1>1, <1>5, <1>6
  <2> QED BY <1>1, <2>1, <2>2, Zenon DEF Abstract!Recover, AbstractChain, RestartChain
<1> QED BY <1>1, <1>3, <1>7

LEMMA AddBlockRefines ==
    ASSUME SerialInv, NEW h \in Handlers, NEW b \in mined, AddBlock(h, b)
    PROVE  b \in Block /\ Abstract!Extend(b)
<1>1. /\ phase = "up" /\ phase' = "up" /\ blocks' = Append(blocks, b) /\ acked' = acked
      /\ bestBlock = blocks[Len(blocks)] /\ ValidateBlock(b)
  BY DEF AddBlock, miners, SerialInv, ChainLinked
<1>2. b \in Block /\ b.number >= 1
  BY DEF SerialInv, TypeInv, TypeOK, KnownInv
<1>3. Abstract!Follows(blocks[Len(blocks)], b)
  <2>1. b.number # 0
    BY <1>2
  <2>2. /\ b.parent = bestBlock.hash /\ b.number = bestBlock.number + 1
        /\ b.timestamp >= bestBlock.timestamp
    BY <1>1, <2>1 DEF ValidateBlock
  <2> QED BY <1>1, <2>2 DEF Abstract!Follows
<1>4. AbstractChain = blocks /\ AbstractChain' = blocks'
  BY <1>1 DEF AbstractChain
<1> QED BY <1>1, <1>2, <1>3, <1>4 DEF Abstract!Extend, AbstractChain, RestartChain

LEMMA ReplyRefines ==
    ASSUME Serial, SerialInv, NEW g \in Goroutines, Reply(g)
    PROVE  \/ AbstractChain' = AbstractChain /\ acked' = acked
           \/ \E i \in 1..Len(AbstractChain) : Abstract!Confirm(i)
<1>1. /\ pc[g] # "idle" /\ phase' = "up" /\ blocks' = blocks
      /\ acked' = IF g = Boot THEN acked ELSE acked \cup {job[g]}
  BY DEF Reply, memory
<1>2. phase # "down" /\ AbstractChain = blocks /\ AbstractChain' = blocks
  BY <1>1, JobIsBlock DEF SerialInv, AbstractChain
<1>3. CASE g # Boot
  <2>1. job[g] = blocks[Len(blocks)] /\ Len(blocks) > 0
    BY <1>1, <1>2, <1>3, WhoIsStoring DEF SerialInv, ChainLinked
  <2>2. Len(blocks) \in 1..Len(blocks)
    BY <2>1, LenProperties DEF SerialInv, TypeInv, TypeOK
  <2>3. Abstract!Confirm(Len(blocks))
    BY <1>1, <1>2, <1>3, <2>1 DEF Abstract!Confirm, AbstractChain, RestartChain
  <2> QED BY <1>2, <2>2, <2>3
<1> QED BY <1>1, <1>2, <1>3

(* All other steps change neither the chain nor what was acknowledged.     *)
LEMMA OtherStepsRefine ==
    ASSUME SerialInv,
           \/ UNCHANGED vars
           \/ \E t \in Clocks : Mine(t)
           \/ \E g \in Goroutines : PutHash(g) \/ PutNumber(g) \/ ReadBest(g) \/ SetBestBlock(g)
    PROVE  AbstractChain' = AbstractChain /\ acked' = acked
<1>1. CASE UNCHANGED vars
  <2>1. RestartChain' = RestartChain
    BY <1>1, RestartChainUnchanged DEF vars
  <2> QED BY <1>1, <2>1 DEF vars, memory, miners, AbstractChain
<1>2. CASE \E t \in Clocks : Mine(t)
  BY <1>2 DEF Mine, memory, AbstractChain
<1>3. ASSUME NEW g \in Goroutines,
             PutHash(g) \/ PutNumber(g) \/ ReadBest(g) \/ SetBestBlock(g)
      PROVE  AbstractChain' = AbstractChain /\ acked' = acked
  <2>1. pc[g] # "idle" /\ phase' = phase /\ blocks' = blocks /\ acked' = acked
    BY <1>3 DEF PutHash, PutNumber, ReadBest, SetBestBlock, memory, miners
  <2>2. phase # "down"
    BY <2>1, JobIsBlock DEF SerialInv
  <2> QED BY <2>1, <2>2 DEF AbstractChain
<1> QED BY <1>1, <1>2, <1>3

LEMMA StepRefines ==
    ASSUME Serial, StorageMayFail = FALSE, SerialInv, SerialInv', [Next]_vars
    PROVE  [Abstract!Next]_(Abstract!vars)
<1>1. SUFFICES \/ AbstractChain' = AbstractChain /\ acked' = acked
               \/ Abstract!Next
  BY DEF Abstract!vars, AbstractChain, RestartChain
<1>2. CASE NewBlockchain
  BY <1>2, NewBlockchainRefines
<1>3. CASE Crash
  <2>1. \E n \in 1..Len(AbstractChain) : Abstract!Recover(n)
    BY <1>3, CrashRefines
  <2> QED BY <2>1 DEF Abstract!Next, AbstractChain, RestartChain
<1>4. CASE CloseStorage
  BY <1>4 DEF CloseStorage
<1>5. CASE \E h \in Handlers, b \in mined : AddBlock(h, b)
  BY <1>5, AddBlockRefines DEF Abstract!Next
<1>6. ASSUME NEW g \in Goroutines, StoreStep(g)
      PROVE  (AbstractChain' = AbstractChain /\ acked' = acked) \/ Abstract!Next
  <2>1. CASE Reply(g)
    <3>1. \/ AbstractChain' = AbstractChain /\ acked' = acked
          \/ \E i \in 1..Len(AbstractChain) : Abstract!Confirm(i)
      BY <2>1, ReplyRefines
    <3> QED BY <3>1 DEF Abstract!Next, AbstractChain, RestartChain
  <2>2. CASE ~Reply(g)
    BY <1>6, <2>2, OtherStepsRefine DEF StoreStep, PutFails
  <2> QED BY <2>1, <2>2
<1>7. CASE (\E t \in Clocks : Mine(t)) \/ UNCHANGED vars
  BY <1>7, OtherStepsRefine
<1> QED BY <1>2, <1>3, <1>4, <1>5, <1>6, <1>7 DEF Next

(* Under the same conditions the node keeps the promise of DurableChain:   *)
(* its chain only grows by blocks that follow its last one, and a restart  *)
(* forgets only blocks at its end that were not acknowledged.              *)
THEOREM Refinement ==
    ASSUME Serial, StorageMayFail = FALSE
    PROVE  Spec => ImplementsDurableChain
<1>1. Init => Abstract!Init
  BY InitRefines
<1>2. SerialInv /\ SerialInv' /\ [Next]_vars => [Abstract!Next]_(Abstract!vars)
  BY StepRefines
<1> QED BY <1>1, <1>2, SerialInvAlways, PTL DEF Spec, Abstract!Spec, ImplementsDurableChain
=============================================================================
