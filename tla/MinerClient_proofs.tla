------------------------- MODULE MinerClient_proofs -------------------------
(***************************************************************************)
(* Proofs about MinerClient, for every size of the event channel, every    *)
(* number of attempts and every number of blocks: retries and late         *)
(* submissions add no block twice, and what the miner logs is true.        *)
(***************************************************************************)
EXTENDS MinerClient, TLAPS

Placed(h, parent) ==
    \A i \in 1..Len(chain) : chain[i] = h => i > 1 /\ chain[i - 1] = parent

InChain(h) == \E i \in 1..Len(chain) : chain[i] = h

InFlight(h) == \E s \in submissions : s.hash = h

(* Hashes are handed out in order, 0 for the genesis block; a worker holds *)
(* one from the moment it finds it until it is reported.                   *)
HashInv ==
    /\ Len(chain) > 0 /\ chain[1] = 0
    /\ \A i \in 1..Len(chain) : chain[i] < nextHash
    /\ \A h \in found : 0 < h /\ h < nextHash
    /\ hash # 0 => hash \in found
    /\ worker \in {"emit", "post", "wait"} <=> hash # 0

(* A block has one parent, and when it is in the chain it stands above it. *)
(* So the node's check of the parent refuses a block that was added before.*)
ParentInv ==
    /\ AddedOnce
    /\ \A s, t \in submissions : s.hash = t.hash => s.parent = t.parent
    /\ \A s \in submissions : s.hash = hash => s.parent = template.parent
    /\ \A s \in submissions : Placed(s.hash, s.parent)
    /\ hash # 0 => Placed(hash, template.parent)

(* What worker and node know of the submission under way.                  *)
CallInv ==
    /\ \A s \in submissions : s.hash = hash =>
          s.attempt <= attempt /\ (worker = "post" => s.attempt < attempt)
    /\ worker = "emit" => ~InChain(hash) /\ ~InFlight(hash)
    /\ worker = "post" /\ attempt = 1 => ~InChain(hash)
    /\ worker = "wait" =>
          /\ answer = "added" => InChain(hash)
          /\ answer = "rejected" /\ attempt = 1 => ~InChain(hash)
          /\ answer = "none" /\ attempt = 1 /\ InFlight(hash) => ~InChain(hash)
          /\ answer # "none" =>
                \A s \in submissions : s.hash = hash => s.attempt # attempt

(* A block that was reported as rejected at once can never be added.       *)
ReportInv ==
    \A r \in reports :
        /\ r.hash # hash
        /\ r.result = "added" => InChain(r.hash)
        /\ r.result = "rejected" /\ r.attempts = 1 => ~InChain(r.hash) /\ ~InFlight(r.hash)

Inv == TypeOK /\ HashInv /\ ParentInv /\ CallInv /\ ReportInv

-----------------------------------------------------------------------------
(* What leaves the worker's block alone, and what ends with it.            *)

LEMMA InitInv ==
    ASSUME Init
    PROVE  Inv
BY MinerAssumption
   DEF Init, Inv, TypeOK, HashInv, ParentInv, CallInv, ReportInv, AddedOnce, Hashes,
       WorkerSteps, Template, Placed, InChain, InFlight

(* Every step keeps the types.                                             *)
LEMMA TypeStep ==
    ASSUME TypeOK, HashInv, [Next]_vars
    PROVE  TypeOK'
<1>a. \A s \in submissions : s.hash \in Hashes
  BY DEF TypeOK
<1>b. \A h \in Hashes : Append(chain, h) \in Seq(Hashes)
  BY DEF TypeOK
<1>c. ASSUME Hash PROVE found \subseteq found' /\ found' \subseteq Hashes
  <2>1. found' = found \/ (nextHash <= MaxBlocks /\ found' = found \cup {nextHash})
    BY <1>c DEF Hash
  <2>2. nextHash <= MaxBlocks => nextHash \in Hashes
    BY MinerAssumption DEF TypeOK, Hashes
  <2> QED BY <2>1, <2>2 DEF TypeOK
<1>d. ASSUME Hash PROVE eventBus' \in Seq(found') /\ Len(eventBus') <= EventBusSize
  <2>1. eventBus' = eventBus /\ eventBus \in Seq(found) /\ Len(eventBus) <= EventBusSize
    BY <1>d DEF Hash, TypeOK
  <2>2. eventBus \in Seq(found')
    <3>1. \A i \in 1..Len(eventBus) : eventBus[i] \in found'
      BY <1>c, <1>d, <2>1
    <3> QED BY <2>1, <3>1
  <2> QED BY <2>1, <2>2
<1> USE MinerAssumption DEF TypeOK, HashInv, Hashes, Template, WorkerSteps, MineNext,
                            node, call, miner, others
<1>1. CASE Loop
  BY <1>1 DEF Loop
<1>2. CASE CreateNewBlock
  <2>1. BestBlock \in Hashes /\ Height + 1 \in Nat
    BY DEF BestBlock, Height
  <2> QED BY <1>2, <2>1 DEF CreateNewBlock, BlockTemplate
<1>3. CASE CheckHeight
  BY <1>3 DEF CheckHeight
<1>4. CASE CheckBestBlock
  BY <1>4 DEF CheckBestBlock
<1>5. CASE Select
  BY <1>5 DEF Select
<1>6. CASE Hash
  <2>1. found \subseteq found' /\ found' \subseteq Hashes
    BY <1>6, <1>c
  <2>2. eventBus' \in Seq(found') /\ Len(eventBus') <= EventBusSize
    BY <1>6, <1>d
  <2>3. reports' = reports /\ submissions' = submissions
    BY <1>6 DEF Hash
  <2>4. reports' \subseteq [hash : found', result : {"added", "rejected", "failed"},
                            attempts : 1..MaxRetries]
    BY <2>1, <2>3
  <2>5. submissions' \subseteq [hash : found', parent : Hashes, attempt : 1..MaxRetries]
    BY <2>1, <2>3
  <2>6. /\ worker' \in WorkerSteps /\ hash' \in Hashes /\ nextHash' \in 1..(MaxBlocks + 1)
        /\ worker' \in {"loop", "template", "done"} <=> template' = NoTemplate
    BY <1>6 DEF Hash
  <2> QED BY <1>6, <2>1, <2>2, <2>4, <2>5, <2>6 DEF Hash
<1>7. CASE EmitEvent
  BY <1>7 DEF EmitEvent
<1>8. CASE Post
  BY <1>8 DEF Post
<1>9. CASE ReceiveAnswer
  BY <1>9 DEF ReceiveAnswer, Report
<1>10. CASE AttemptFails
  BY SMTT(30), <1>10 DEF AttemptFails, Report
<1>11. CASE ProcessEvent
  BY <1>11 DEF ProcessEvent
<1>12. CASE EndProcessor
  BY <1>12 DEF EndProcessor
<1>13. CASE EndReporter
  BY <1>13 DEF EndReporter
<1>14. CASE Stop
  BY <1>14 DEF Stop
<1>15. CASE StopReturn
  BY <1>15 DEF StopReturn
<1>16. ASSUME NEW s \in submissions, SubmitBlock(s)
       PROVE  TypeOK'
  <2>1. s.hash \in Hashes
    BY <1>a
  <2>2. chain' \in Seq(Hashes)
    <3>1. chain' = chain \/ chain' = Append(chain, s.hash)
      BY <1>16 DEF SubmitBlock
    <3>2. Append(chain, s.hash) \in Seq(Hashes)
      BY <1>b, <2>1
    <3> QED BY <3>1, <3>2
  <2>3. answer' \in {"none", "added", "rejected"}
    BY <1>16 DEF SubmitBlock, Answer
  <2> QED BY <1>16, <2>2, <2>3 DEF SubmitBlock
<1>17. ASSUME NEW s \in submissions, LoseSubmission(s)
       PROVE  TypeOK'
  BY <1>17 DEF LoseSubmission
<1>18. CASE OtherBlock
  BY <1>18 DEF OtherBlock
<1>19. CASE UNCHANGED vars
  BY <1>19 DEF vars
<1> QED
  BY <1>1, <1>2, <1>3, <1>4, <1>5, <1>6, <1>7, <1>8, <1>9, <1>10, <1>11, <1>12,
     <1>13, <1>14, <1>15, <1>16, <1>17, <1>18, <1>19 DEF Next, WorkerStep

(* A chain that grows by one block keeps the others where they are.        *)
LEMMA AppendedChain ==
    ASSUME TypeOK, HashInv, NEW h \in Hashes, chain' = Append(chain, h)
    PROVE  /\ Len(chain') = Len(chain) + 1
           /\ chain'[Len(chain) + 1] = h
           /\ \A i \in 1..Len(chain) : chain'[i] = chain[i]
           /\ Len(chain) \in Nat /\ Len(chain) > 0
BY DEF TypeOK, HashInv

(* Every step keeps the order in which hashes are handed out.              *)
LEMMA HashStep ==
    ASSUME TypeOK, HashInv, [Next]_vars
    PROVE  HashInv'
<1> USE MinerAssumption DEF HashInv, MineNext, node, call, miner, others
<1>1. CASE Loop
  BY <1>1 DEF Loop, TypeOK
<1>2. CASE CreateNewBlock
  BY <1>2 DEF CreateNewBlock, TypeOK
<1>3. CASE CheckHeight
  BY <1>3 DEF CheckHeight, TypeOK
<1>4. CASE CheckBestBlock
  BY <1>4 DEF CheckBestBlock, TypeOK
<1>5. CASE Select
  BY <1>5 DEF Select, TypeOK
<1>6. CASE Hash
  <2>1. nextHash \in Nat /\ nextHash > 0
    BY DEF TypeOK
  <2>2. \A i \in 1..Len(chain) : chain[i] \in Nat
    BY DEF TypeOK, Hashes
  <2>3. \A h \in found : h \in Nat
    BY DEF TypeOK, Hashes
  <2> QED BY <1>6, <2>1, <2>2, <2>3 DEF Hash
<1>7. CASE EmitEvent
  BY <1>7 DEF EmitEvent
<1>8. CASE Post
  BY <1>8 DEF Post
<1>9. CASE ReceiveAnswer
  BY <1>9 DEF ReceiveAnswer, Report
<1>10. CASE AttemptFails
  BY <1>10 DEF AttemptFails, Report
<1>11. CASE ProcessEvent \/ EndProcessor \/ EndReporter \/ Stop \/ StopReturn
  BY <1>11 DEF ProcessEvent, EndProcessor, EndReporter, Stop, StopReturn
<1>12. ASSUME NEW s \in submissions, SubmitBlock(s)
       PROVE  HashInv'
  <2>1. s.hash \in found /\ s.hash \in Hashes
    BY DEF TypeOK
  <2>2. UNCHANGED <<worker, found, hash, nextHash>>
    BY <1>12 DEF SubmitBlock
  <2>3. CASE chain' = chain
    BY <2>2, <2>3
  <2>4. CASE chain' = Append(chain, s.hash)
    BY <2>1, <2>2, <2>4, AppendedChain
  <2> QED BY <1>12, <2>3, <2>4 DEF SubmitBlock
<1>13. ASSUME NEW s \in submissions, LoseSubmission(s)
       PROVE  HashInv'
  BY <1>13 DEF LoseSubmission
<1>14. CASE OtherBlock
  <2>1. nextHash \in Hashes
    BY <1>14 DEF OtherBlock, TypeOK, Hashes
  <2>2. nextHash \in Nat /\ \A i \in 1..Len(chain) : chain[i] \in Nat
    BY DEF TypeOK, Hashes
  <2>3. \A h \in found : h \in Nat
    BY DEF TypeOK, Hashes
  <2> QED BY <1>14, <2>1, <2>2, <2>3, AppendedChain DEF OtherBlock
<1>15. CASE UNCHANGED vars
  BY <1>15 DEF vars
<1> QED
  BY <1>1, <1>2, <1>3, <1>4, <1>5, <1>6, <1>7, <1>8, <1>9, <1>10, <1>11, <1>12,
     <1>13, <1>14, <1>15 DEF Next, WorkerStep

(* Submissions are of blocks that were found, and 0 is none of them.       *)
LEMMA FoundHashes ==
    ASSUME TypeOK, HashInv
    PROVE  /\ \A s \in submissions : s.hash \in found
           /\ \A r \in reports : r.hash \in found
           /\ \A h \in found : h # 0 /\ h # nextHash
           /\ \A i \in 1..Len(chain) : chain[i] # nextHash
BY DEF TypeOK, HashInv, Hashes

(* Every step keeps blocks above their parents, and so none is added twice.*)
LEMMA ParentStep ==
    ASSUME TypeOK, HashInv, ParentInv, [Next]_vars
    PROVE  ParentInv'
<1>a. ASSUME UNCHANGED <<chain, submissions>>,
             hash' = 0 \/ (hash' = hash /\ template' = template)
      PROVE  ParentInv'
  BY <1>a, FoundHashes DEF ParentInv, AddedOnce, Placed
<1> USE DEF MineNext, node, call, miner, others
<1>1. CASE Loop
  BY <1>1, <1>a DEF Loop
<1>2. CASE CreateNewBlock
  <2>1. hash = 0
    BY <1>2 DEF CreateNewBlock, HashInv
  <2> QED BY <1>2, <1>a, <2>1 DEF CreateNewBlock
<1>3. CASE CheckHeight
  BY <1>3, <1>a DEF CheckHeight
<1>4. CASE CheckBestBlock
  BY <1>4, <1>a DEF CheckBestBlock
<1>5. CASE Select
  BY <1>5, <1>a DEF Select
<1>6. CASE Hash
  <2>1. UNCHANGED <<chain, submissions, template>>
    BY <1>6 DEF Hash
  <2>2. hash' = hash \/ hash' = nextHash
    BY <1>6 DEF Hash
  <2>3. CASE hash' = nextHash
    BY <2>1, <2>3, FoundHashes DEF ParentInv, AddedOnce, Placed
  <2> QED BY <1>a, <2>1, <2>2, <2>3
<1>7. CASE EmitEvent
  BY <1>7, <1>a DEF EmitEvent
<1>8. CASE Post
  <2>1. UNCHANGED <<chain, hash, template>> /\ hash # 0
    BY <1>8 DEF Post, HashInv
  <2>2. \A s \in submissions' :
           s \in submissions \/ (s.hash = hash /\ s.parent = template.parent)
    BY <1>8 DEF Post
  <2>3. \A s \in submissions' : s.hash = hash => s.parent = template.parent
    BY <2>2 DEF ParentInv
  <2>4. \A s, t \in submissions' : s.hash = t.hash => s.parent = t.parent
    BY <2>2, <2>3 DEF ParentInv
  <2>5. \A s \in submissions' : Placed(s.hash, s.parent)
    BY <2>1, <2>2 DEF ParentInv
  <2> QED BY <2>1, <2>3, <2>4, <2>5 DEF ParentInv, AddedOnce, Placed
<1>9. CASE ReceiveAnswer
  BY <1>9, <1>a DEF ReceiveAnswer, Report
<1>10. CASE AttemptFails
  BY <1>10, <1>a DEF AttemptFails, Report
<1>11. CASE ProcessEvent \/ EndProcessor \/ EndReporter \/ Stop \/ StopReturn
  BY <1>11, <1>a DEF ProcessEvent, EndProcessor, EndReporter, Stop, StopReturn
<1>b. ASSUME NEW h \in Hashes, chain' = Append(chain, h),
             UNCHANGED <<hash, template>>, submissions' \subseteq submissions,
             \A i \in 1..Len(chain) : chain[i] # h,
             \A s \in submissions : s.hash = h => s.parent = BestBlock,
             hash = h => hash = 0 \/ template.parent = BestBlock
      PROVE  ParentInv'
  <2>1. /\ Len(chain') = Len(chain) + 1 /\ Len(chain) \in Nat /\ Len(chain) > 0
        /\ chain'[Len(chain) + 1] = h
        /\ \A i \in 1..Len(chain) : chain'[i] = chain[i]
    BY <1>b, AppendedChain
  <2>2. AddedOnce'
    BY <1>b, <2>1 DEF AddedOnce, ParentInv
  <2>3. ASSUME NEW g, NEW parent, Placed(g, parent), g = h => parent = BestBlock
        PROVE  Placed(g, parent)'
    BY <2>1, <2>3 DEF Placed, BestBlock
  <2>4. \A s \in submissions : Placed(s.hash, s.parent)'
    BY <1>b, <2>3 DEF ParentInv
  <2>5. hash # 0 => Placed(hash, template.parent)'
    BY <1>b, <2>3 DEF ParentInv
  <2> QED BY <1>b, <2>2, <2>4, <2>5 DEF ParentInv, Placed
<1>12. ASSUME NEW s \in submissions, SubmitBlock(s)
       PROVE  ParentInv'
  <2>1. UNCHANGED <<worker, hash, template>> /\ submissions' \subseteq submissions
    BY <1>12 DEF SubmitBlock
  <2>2. CASE s.parent = BestBlock
    <3>1. chain' = Append(chain, s.hash) /\ s.hash \in Hashes
      BY <1>12, <2>2 DEF SubmitBlock, TypeOK
    <3>2. \A i \in 1..Len(chain) : chain[i] # s.hash
      <4>1. SUFFICES ASSUME NEW i \in 1..Len(chain), chain[i] = s.hash PROVE FALSE
        OBVIOUS
      <4>2. i > 1 /\ chain[i - 1] = chain[Len(chain)]
        BY <2>2, <4>1 DEF ParentInv, Placed, BestBlock
      <4>3. i - 1 \in 1..Len(chain) /\ Len(chain) \in 1..Len(chain) /\ i - 1 # Len(chain)
        BY <4>2 DEF TypeOK, HashInv
      <4> QED BY <4>2, <4>3 DEF ParentInv, AddedOnce
    <3>3. /\ \A t \in submissions : t.hash = s.hash => t.parent = BestBlock
          /\ hash = s.hash => template.parent = BestBlock
      BY <2>2 DEF ParentInv
    <3> QED BY <1>b, <2>1, <3>1, <3>2, <3>3
  <2>3. CASE s.parent # BestBlock
    <3>1. chain' = chain
      BY <1>12, <2>3 DEF SubmitBlock
    <3> QED BY <2>1, <3>1 DEF ParentInv, AddedOnce, Placed
  <2> QED BY <2>2, <2>3
<1>13. ASSUME NEW s \in submissions, LoseSubmission(s)
       PROVE  ParentInv'
  BY <1>13 DEF LoseSubmission, ParentInv, AddedOnce, Placed
<1>14. CASE OtherBlock
  <2>1. nextHash \in Hashes
    BY <1>14, MinerAssumption DEF OtherBlock, TypeOK, Hashes
  <2>2. hash # nextHash
    BY <2>1, FoundHashes DEF HashInv, TypeOK
  <2> QED BY <1>14, <1>b, <2>1, <2>2, FoundHashes DEF OtherBlock
<1>15. CASE UNCHANGED vars
  BY <1>15, <1>a DEF vars
<1> QED
  BY <1>1, <1>2, <1>3, <1>4, <1>5, <1>6, <1>7, <1>8, <1>9, <1>10, <1>11, <1>12,
     <1>13, <1>14, <1>15 DEF Next, WorkerStep

(* Every step keeps what is known of the submission under way.             *)
LEMMA CallStep ==
    ASSUME TypeOK, HashInv, ParentInv, CallInv, [Next]_vars
    PROVE  CallInv'
<1>a. ASSUME UNCHANGED <<chain, submissions, worker, hash, attempt, answer>>
      PROVE  CallInv'
  BY <1>a DEF CallInv, InChain, InFlight
<1>b. ASSUME UNCHANGED submissions, hash' = 0, worker' \notin {"emit", "post", "wait"}
      PROVE  CallInv'
  BY <1>b, FoundHashes DEF CallInv
<1> USE DEF MineNext, node, call, miner, others
<1>1. CASE Loop
  BY <1>1, <1>b DEF Loop, HashInv
<1>2. CASE CreateNewBlock
  BY <1>2, <1>b DEF CreateNewBlock, HashInv
<1>3. CASE CheckHeight
  BY <1>3, <1>b DEF CheckHeight, HashInv
<1>4. CASE CheckBestBlock
  BY <1>4, <1>b DEF CheckBestBlock, HashInv
<1>5. CASE Select
  BY <1>5, <1>b DEF Select, HashInv
<1>6. CASE Hash
  <2>1. UNCHANGED <<chain, submissions>>
    BY <1>6 DEF Hash
  <2>2. CASE worker' = "emit" /\ hash' = nextHash
    BY <2>1, <2>2, FoundHashes DEF CallInv, InChain, InFlight
  <2>3. CASE worker' = "select" /\ UNCHANGED hash
    BY <1>6, <1>b, <2>1, <2>3 DEF Hash, HashInv
  <2> QED BY <1>6, <2>2, <2>3 DEF Hash
<1>7. CASE EmitEvent
  BY <1>7 DEF EmitEvent, CallInv, InChain, InFlight
<1>8. CASE Post
  <2>1. /\ UNCHANGED <<chain, hash, attempt>> /\ worker = "post"
        /\ worker' = "wait" /\ answer' = "none"
    BY <1>8 DEF Post
  <2>2. \A s \in submissions' : s \in submissions \/ s.attempt = attempt
    BY <1>8 DEF Post
  <2>3. \A s \in submissions' : s.hash = hash => s.attempt <= attempt
    BY <2>1, <2>2 DEF CallInv, TypeOK
  <2> QED BY <2>1, <2>3 DEF CallInv, InChain
<1>9. CASE ReceiveAnswer
  BY <1>9, <1>b DEF ReceiveAnswer, Report
<1>10. CASE AttemptFails
  <2>1. CASE worker' = "post" /\ attempt' = attempt + 1 /\ UNCHANGED <<hash, submissions>>
    BY <2>1 DEF CallInv, TypeOK, InChain
  <2>2. CASE Report("failed") /\ UNCHANGED submissions
    BY <2>2, <1>b DEF Report
  <2> QED BY <1>10, <2>1, <2>2 DEF AttemptFails
<1>11. CASE ProcessEvent \/ EndProcessor \/ EndReporter \/ Stop \/ StopReturn
  BY <1>11, <1>a DEF ProcessEvent, EndProcessor, EndReporter, Stop, StopReturn
<1>12. ASSUME NEW s \in submissions, SubmitBlock(s)
       PROVE  CallInv'
  <2>1. /\ UNCHANGED <<worker, hash, attempt>>
        /\ submissions' = submissions \ {s}
    BY <1>12 DEF SubmitBlock
  <2>2. ASSUME NEW h, InFlight(h)' PROVE InFlight(h)
    BY <2>1, <2>2 DEF InFlight
  <2>3. ASSUME NEW h, InChain(h)' PROVE InChain(h) \/ h = s.hash
    <3>1. CASE chain' = chain
      BY <2>3, <3>1 DEF InChain
    <3>2. CASE chain' = Append(chain, s.hash) /\ s.hash \in Hashes
      BY <2>3, <3>2, AppendedChain DEF InChain
    <3> QED BY <1>12, <3>1, <3>2 DEF SubmitBlock, TypeOK
  <2>4. ASSUME NEW h, InChain(h) \/ (h = s.hash /\ s.parent = BestBlock) PROVE InChain(h)'
    <3>1. CASE chain' = chain /\ s.parent # BestBlock
      BY <2>4, <3>1 DEF InChain
    <3>2. CASE chain' = Append(chain, s.hash) /\ s.hash \in Hashes
      <4>1. /\ Len(chain') = Len(chain) + 1 /\ Len(chain) \in Nat
            /\ chain'[Len(chain) + 1] = s.hash
            /\ \A i \in 1..Len(chain) : chain'[i] = chain[i]
        BY <3>2, AppendedChain
      <4>2. Len(chain) + 1 \in 1..Len(chain')
        BY <4>1
      <4>3. \A i \in 1..Len(chain) : i \in 1..Len(chain')
        BY <4>1
      <4> QED BY <2>4, <4>1, <4>2, <4>3 DEF InChain
    <3> QED BY <1>12, <3>1, <3>2 DEF SubmitBlock, TypeOK
  <2>5. CASE s.hash # hash
    <3>1. UNCHANGED answer
      BY <1>12, <2>5 DEF SubmitBlock, Answer
    <3>2. InChain(hash)' <=> InChain(hash)
      BY <2>1, <2>3, <2>4, <2>5 DEF InChain
    <3> QED BY <2>1, <2>2, <3>1, <3>2 DEF CallInv
  <2>6. CASE s.hash = hash /\ worker # "wait"
    <3>1. worker = "post" /\ attempt # 1
      BY <2>6, FoundHashes DEF CallInv, InFlight, HashInv, TypeOK
    <3> QED BY <2>1, <3>1 DEF CallInv
  <2>7. CASE s.hash = hash /\ worker = "wait"
    <3>1. CASE s.attempt = attempt
      <4>1. \A t \in submissions' : t.hash = hash => t.attempt # attempt
        <5>1. SUFFICES ASSUME NEW t \in submissions, t.hash = hash, t.attempt = attempt
                       PROVE  t = s
          BY <2>1
        <5>2. t.parent = s.parent
          BY <2>7, <5>1 DEF ParentInv
        <5> QED BY <2>7, <3>1, <5>1, <5>2 DEF TypeOK
      <4>2. attempt = 1 => ~InFlight(hash)'
        BY <2>1, <4>1 DEF InFlight, CallInv, TypeOK
      <4>3. CASE s.parent = BestBlock
        <5>1. InChain(hash)' /\ answer' = "added"
          BY <1>12, <2>4, <2>7, <3>1, <4>3 DEF SubmitBlock, Answer
        <5> QED BY <2>1, <2>7, <4>1, <5>1 DEF CallInv
      <4>4. CASE s.parent # BestBlock
        <5>1. chain' = chain /\ answer' = "rejected" /\ answer = "none"
          BY <1>12, <2>7, <3>1, <4>4 DEF SubmitBlock, Answer, CallInv, TypeOK
        <5>2. attempt = 1 => ~InChain(hash)'
          BY <2>1, <2>7, <5>1 DEF CallInv, InChain, InFlight
        <5> QED BY <2>1, <2>7, <4>1, <5>1, <5>2 DEF CallInv
      <4> QED BY <4>3, <4>4
    <3>2. CASE s.attempt # attempt
      <4>1. UNCHANGED answer
        BY <1>12, <3>2 DEF SubmitBlock, Answer
      <4>2. attempt # 1
        BY <2>7, <3>2 DEF CallInv, TypeOK
      <4>3. InChain(hash) => InChain(hash)'
        BY <2>1, <2>4 DEF InChain
      <4> QED BY <2>1, <2>7, <4>1, <4>2, <4>3 DEF CallInv
    <3> QED BY <3>1, <3>2
  <2> QED BY <2>5, <2>6, <2>7
<1>13. ASSUME NEW s \in submissions, LoseSubmission(s)
       PROVE  CallInv'
  BY <1>13 DEF LoseSubmission, CallInv, InChain, InFlight
<1>14. CASE OtherBlock
  <2>1. nextHash \in Hashes /\ hash # nextHash
    BY <1>14, MinerAssumption, FoundHashes DEF OtherBlock, TypeOK, Hashes, HashInv
  <2>2. InChain(hash)' <=> InChain(hash)
    BY <1>14, <2>1, AppendedChain DEF OtherBlock, InChain
  <2> QED BY <1>14, <2>2 DEF OtherBlock, CallInv, InFlight
<1>15. CASE UNCHANGED vars
  BY <1>15, <1>a DEF vars
<1> QED
  BY <1>1, <1>2, <1>3, <1>4, <1>5, <1>6, <1>7, <1>8, <1>9, <1>10, <1>11, <1>12,
     <1>13, <1>14, <1>15 DEF Next, WorkerStep

(* Every step keeps the reports true.                                      *)
LEMMA ReportStep ==
    ASSUME TypeOK, HashInv, ParentInv, CallInv, ReportInv, [Next]_vars
    PROVE  ReportInv'
<1>a. ASSUME UNCHANGED <<chain, submissions, reports>>, hash' \in {0, hash, nextHash}
      PROVE  ReportInv'
  <2>1. \A r \in reports : r.hash # 0 /\ r.hash # nextHash
    BY FoundHashes
  <2> QED BY <1>a, <2>1 DEF ReportInv, InChain, InFlight
<1>b. ASSUME worker = "wait", NEW result, Report(result), UNCHANGED <<chain, submissions>>,
             result = "added" => InChain(hash),
             result = "rejected" /\ attempt = 1 => ~InChain(hash) /\ ~InFlight(hash)
      PROVE  ReportInv'
  <2>1. hash' = 0 /\ hash # 0 /\ \A r \in reports : r.hash # 0
    BY <1>b, FoundHashes DEF Report, MineNext, HashInv
  <2>2. \A r \in reports' : r \in reports
           \/ (r.hash = hash /\ r.result = result /\ r.attempts = attempt)
    BY <1>b DEF Report
  <2> QED BY <1>b, <2>1, <2>2 DEF ReportInv, InChain, InFlight
<1>c. ASSUME UNCHANGED <<hash, reports>>, submissions' \subseteq submissions,
             NEW h \in Hashes, chain' = Append(chain, h),
             \A r \in reports : r.result = "rejected" /\ r.attempts = 1 => r.hash # h
      PROVE  ReportInv'
  <2>1. \A r \in reports : InChain(r.hash) => InChain(r.hash)'
    BY <1>c, AppendedChain DEF InChain
  <2>2. \A r \in reports : InChain(r.hash)' => InChain(r.hash) \/ r.hash = h
    BY <1>c, AppendedChain DEF InChain
  <2> QED BY <1>c, <2>1, <2>2 DEF ReportInv, InChain, InFlight
<1> USE DEF MineNext, node, call, miner, others
<1>1. CASE Loop \/ CreateNewBlock \/ CheckHeight \/ CheckBestBlock \/ Select \/ EmitEvent
  BY <1>1, <1>a DEF Loop, CreateNewBlock, CheckHeight, CheckBestBlock, Select, EmitEvent
<1>2. CASE Hash
  BY <1>2, <1>a DEF Hash
<1>3. CASE Post
  <2>1. UNCHANGED <<chain, reports, hash>>
    BY <1>3 DEF Post
  <2>2. \A s \in submissions' : s \in submissions \/ s.hash = hash
    BY <1>3 DEF Post
  <2> QED BY <2>1, <2>2 DEF ReportInv, InChain, InFlight
<1>4. CASE ReceiveAnswer
  <2>1. answer = "added" => InChain(hash)
    BY <1>4 DEF ReceiveAnswer, CallInv
  <2>2. answer = "rejected" /\ attempt = 1 => ~InChain(hash) /\ ~InFlight(hash)
    BY <1>4 DEF ReceiveAnswer, CallInv, InFlight, TypeOK
  <2> QED BY <1>4, <1>b, <2>1, <2>2 DEF ReceiveAnswer
<1>5. CASE AttemptFails
  <2>1. CASE Report("failed")
    BY <1>5, <1>b, <2>1 DEF AttemptFails
  <2>2. CASE UNCHANGED <<hash, reports>>
    BY <1>5, <1>a, <2>2 DEF AttemptFails
  <2> QED BY <1>5, <2>1, <2>2 DEF AttemptFails
<1>6. CASE ProcessEvent \/ EndProcessor \/ EndReporter \/ Stop \/ StopReturn
  BY <1>6, <1>a DEF ProcessEvent, EndProcessor, EndReporter, Stop, StopReturn
<1>7. ASSUME NEW s \in submissions, SubmitBlock(s)
      PROVE  ReportInv'
  <2>1. UNCHANGED <<hash, reports>> /\ submissions' \subseteq submissions
    BY <1>7 DEF SubmitBlock
  <2>2. CASE chain' = chain
    BY <2>1, <2>2 DEF ReportInv, InChain, InFlight
  <2>3. CASE chain' = Append(chain, s.hash)
    <3>1. s.hash \in Hashes
      BY DEF TypeOK
    <3>2. \A r \in reports : r.result = "rejected" /\ r.attempts = 1 => r.hash # s.hash
      BY DEF ReportInv, InFlight
    <3> QED BY <1>c, <2>1, <2>3, <3>1, <3>2
  <2> QED BY <1>7, <2>2, <2>3 DEF SubmitBlock
<1>8. ASSUME NEW s \in submissions, LoseSubmission(s)
      PROVE  ReportInv'
  BY <1>8 DEF LoseSubmission, ReportInv, InChain, InFlight
<1>9. CASE OtherBlock
  <2>1. nextHash \in Hashes
    BY <1>9, MinerAssumption DEF OtherBlock, TypeOK, Hashes
  <2>2. \A r \in reports : r.hash # nextHash
    BY FoundHashes
  <2> QED BY <1>9, <1>c, <2>1, <2>2 DEF OtherBlock
<1>10. CASE UNCHANGED vars
  BY <1>10, <1>a DEF vars
<1> QED
  BY <1>1, <1>2, <1>3, <1>4, <1>5, <1>6, <1>7, <1>8, <1>9, <1>10 DEF Next, WorkerStep

-----------------------------------------------------------------------------
(* The invariant holds whatever the sizes, the losses and the delays.      *)
THEOREM Invariance == Spec => []Inv
<1>1. Init => Inv
  BY InitInv
<1>2. Inv /\ [Next]_vars => Inv'
  BY TypeStep, HashStep, ParentStep, CallStep, ReportStep DEF Inv
<1> QED BY <1>1, <1>2, PTL DEF Spec

(* Variables have their types, for every instance of callRPC and channel.  *)
THEOREM TypeCorrect == Spec => []TypeOK
<1>1. Inv => TypeOK
  BY DEF Inv
<1> QED BY <1>1, Invariance, PTL

(* However many attempts callRPC makes of a submission and however late the*)
(* node handles them, no block is in the chain twice.                      *)
THEOREM AlwaysAddedOnce == Spec => []AddedOnce
<1>1. Inv => AddedOnce
  BY DEF Inv, ParentInv
<1> QED BY <1>1, Invariance, PTL

(* What the miner logs of a submission is true of the node's chain, then   *)
(* and later.                                                              *)
THEOREM ReportsAlwaysTrue == Spec => []ReportsAreTrue
<1>1. Inv => ReportsAreTrue
  BY DEF Inv, ReportInv, ReportsAreTrue, InChain
<1> QED BY <1>1, Invariance, PTL

(* Once Stop has returned, worker and event processor have ended.          *)
EndedInv == stopCall = "returned" => worker = "done" /\ processor = "done"

(* When Stop has returned, the miner finds, sends and logs nothing more.   *)
THEOREM StopIsFinal == Spec => NothingAfterStop
<1> USE DEF MineNext, node, call, miner, others
<1>1. Init => EndedInv
  BY DEF Init, EndedInv
<1>2. EndedInv /\ [Next]_vars => EndedInv'
  <2> SUFFICES ASSUME EndedInv, [Next]_vars PROVE EndedInv'
    OBVIOUS
  <2>1. CASE WorkerStep
    BY <2>1 DEF EndedInv, WorkerStep, Loop, CreateNewBlock, CheckHeight, CheckBestBlock,
                Select, Hash, EmitEvent, Post, ReceiveAnswer, AttemptFails, Report
  <2>2. CASE ProcessEvent \/ EndProcessor \/ EndReporter \/ Stop \/ StopReturn \/ OtherBlock
    BY <2>2 DEF EndedInv, ProcessEvent, EndProcessor, EndReporter, Stop, StopReturn, OtherBlock
  <2>3. ASSUME NEW s \in submissions, SubmitBlock(s) \/ LoseSubmission(s)
        PROVE  EndedInv'
    BY <2>3 DEF EndedInv, SubmitBlock, LoseSubmission
  <2>4. CASE UNCHANGED vars
    BY <2>4 DEF EndedInv, vars
  <2> QED BY <2>1, <2>2, <2>3, <2>4 DEF Next
<1>3. EndedInv /\ [Next]_vars =>
         [stopCall = "returned" =>
             /\ UNCHANGED <<found, reports, eventBus, worker>>
             /\ submissions' \subseteq submissions]_vars
  <2> SUFFICES ASSUME EndedInv, Next, stopCall = "returned"
               PROVE  /\ UNCHANGED <<found, reports, eventBus, worker>>
                      /\ submissions' \subseteq submissions
    BY DEF vars
  <2>1. worker = "done" /\ processor = "done"
    BY DEF EndedInv
  <2>2. ~WorkerStep
    BY <2>1 DEF WorkerStep, Loop, CreateNewBlock, CheckHeight, CheckBestBlock,
                Select, Hash, EmitEvent, Post, ReceiveAnswer, AttemptFails
  <2>3. CASE ProcessEvent \/ EndProcessor \/ EndReporter \/ Stop \/ StopReturn \/ OtherBlock
    BY <2>1, <2>3 DEF ProcessEvent, EndProcessor, EndReporter, Stop, StopReturn, OtherBlock
  <2>4. ASSUME NEW s \in submissions, SubmitBlock(s) \/ LoseSubmission(s)
        PROVE  /\ UNCHANGED <<found, reports, eventBus, worker>>
               /\ submissions' \subseteq submissions
    BY <2>4 DEF SubmitBlock, LoseSubmission
  <2> QED BY <2>2, <2>3, <2>4 DEF Next
<1> QED BY <1>1, <1>2, <1>3, PTL DEF Spec, NothingAfterStop
=============================================================================
