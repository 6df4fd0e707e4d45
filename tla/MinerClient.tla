----------------------------- MODULE MinerClient -----------------------------
(***************************************************************************)
(* kalon-miner-v2 (cmd/kalon-miner-v2/main.go) and its node.               *)
(*                                                                         *)
(* One worker goroutine asks the node for a template, checks that it is    *)
(* not outdated, mines it, puts an event on a bounded channel and submits  *)
(* the block, which callRPC sends up to three times.  A second goroutine   *)
(* takes the events, a third prints statistics, and Stop closes a channel  *)
(* and waits for all three.  A submission may be lost, handled after the   *)
(* miner gave up waiting for it, or handled with its answer lost.          *)
(*                                                                         *)
(* Definitions named X_Y are X with one mistake: each shows that a property*)
(* notices it, and no specification uses them.                             *)
(***************************************************************************)
EXTENDS Integers, Sequences

CONSTANTS
    EventBusSize,  \* capacity of the channel eventBus: 100 in the code
    MaxRetries,    \* attempts of callRPC: 3 in the code
    MaxBlocks,     \* bound: how many blocks are found by all miners
    NoTemplate     \* a worker that holds no block

Hashes == 0..MaxBlocks     \* 0 is the genesis block
Template == [parent : Hashes, number : Nat]

ASSUME MinerAssumption ==
    /\ EventBusSize \in Nat \ {0}
    /\ MaxRetries \in Nat \ {0}
    /\ MaxBlocks \in Nat
    /\ NoTemplate \notin Template

WorkerSteps == {"loop", "template", "height", "best", "select", "hash", "emit",
                "post", "wait", "done"}

VARIABLES
    stopCall,    \* Stop: "no", "waiting" (stopChan is closed) or "returned"
    worker,      \* what miningWorker does next
    template,    \* the block it works on,
    hash,        \* the hash that it found for it,
    attempt,     \* the attempt of callRPC that submits it,
    answer,      \* and the node's answer to this attempt, if any
    found,       \* the blocks it has found: BlocksFound is their number
    reports,     \* what it logged of each: [hash, result, attempts]
    eventBus,    \* the events in the channel
    processor,   \* eventProcessor and
    reporter,    \* statsReporter: "running" or "done"
    submissions, \* submitBlock requests that the node may still handle
    chain,       \* the hashes of the node's chain
    nextHash     \* the hash of the next block that any miner finds

node == <<submissions, chain>>
call == <<attempt, answer>>
miner == <<template, hash, found, reports>>
others == <<processor, reporter>>
vars == <<stopCall, worker, miner, call, eventBus, others, node, nextHash>>

Height == Len(chain) - 1
BestBlock == chain[Len(chain)]

(* What the node answers to createBlockTemplate: a block on its best one.  *)
BlockTemplate == [parent |-> BestBlock, number |-> Height + 1]

(* Start: the three goroutines run.                                        *)
Init ==
    /\ stopCall = "no"
    /\ worker = "loop" /\ template = NoTemplate /\ hash = 0
    /\ attempt = 1 /\ answer = "none"
    /\ found = {} /\ reports = {}
    /\ eventBus = <<>> /\ processor = "running" /\ reporter = "running"
    /\ submissions = {} /\ chain = <<0>> /\ nextHash = 1

-----------------------------------------------------------------------------
(* miningWorker and mineBlock.                                             *)

(* Back to the loop of miningWorker.                                       *)
MineNext ==
    /\ worker' = "loop"
    /\ template' = NoTemplate /\ hash' = 0

Loop ==
    /\ worker = "loop"
    /\ worker' = IF stopCall = "no" THEN "template" ELSE "done"
    /\ UNCHANGED <<stopCall, miner, call, eventBus, others, node, nextHash>>

(* CreateNewBlock: a template on the best block; without one, start again. *)
CreateNewBlock ==
    /\ worker = "template"
    /\ \/ /\ template' = BlockTemplate
          /\ worker' = "height"
          /\ UNCHANGED hash
       \/ MineNext
    /\ UNCHANGED <<stopCall, found, reports, call, eventBus, others, node, nextHash>>

(* getCurrentHeight, which is 0 when every attempt failed.                 *)
CheckHeight ==
    /\ worker = "height"
    /\ \E currentHeight \in {Height, 0} :
          \/ /\ currentHeight < template.number
             /\ worker' = "best"
             /\ UNCHANGED <<template, hash>>
          \/ currentHeight >= template.number /\ MineNext
    /\ UNCHANGED <<stopCall, found, reports, call, eventBus, others, node, nextHash>>

(* getBestBlock, whose check is left out when every attempt failed.        *)
CheckBestBlock ==
    /\ worker = "best"
    /\ \/ /\ worker' = "select"
          /\ UNCHANGED <<template, hash>>
       \/ BestBlock # template.parent /\ MineNext
    /\ UNCHANGED <<stopCall, found, reports, call, eventBus, others, node, nextHash>>

Select_NoStop ==
    /\ worker = "select"
    /\ worker' = "hash"
    /\ UNCHANGED <<stopCall, miner, call, eventBus, others, node, nextHash>>

(* The select before each nonce.                                           *)
Select ==
    /\ worker = "select"
    /\ \/ stopCall = "no" /\ worker' = "hash" /\ UNCHANGED <<template, hash>>
       \/ stopCall # "no" /\ MineNext
    /\ UNCHANGED <<stopCall, found, reports, call, eventBus, others, node, nextHash>>

(* The hash of this nonce meets the target, or it does not.                *)
Hash ==
    /\ worker = "hash"
    /\ \/ /\ nextHash <= MaxBlocks
          /\ hash' = nextHash
          /\ nextHash' = nextHash + 1
          /\ found' = found \cup {nextHash}
          /\ worker' = "emit"
       \/ worker' = "select" /\ UNCHANGED <<hash, found, nextHash>>
    /\ UNCHANGED <<stopCall, template, reports, call, eventBus, others, node>>

-----------------------------------------------------------------------------
(* handleBlockFound, AddBlock and callRPC.                                 *)

(* The send on eventBus waits while the channel is full.                   *)
EmitEvent ==
    /\ worker = "emit"
    /\ Len(eventBus) < EventBusSize
    /\ eventBus' = Append(eventBus, hash)
    /\ worker' = "post"
    /\ attempt' = 1
    /\ UNCHANGED <<stopCall, miner, answer, others, node, nextHash>>

Post ==
    /\ worker = "post"
    /\ submissions' = submissions \cup
                        {[hash |-> hash, parent |-> template.parent, attempt |-> attempt]}
    /\ answer' = "none"
    /\ worker' = "wait"
    /\ UNCHANGED <<stopCall, miner, attempt, eventBus, others, chain, nextHash>>

Report(result) ==
    /\ reports' = reports \cup {[hash |-> hash, result |-> result, attempts |-> attempt]}
    /\ MineNext

ReceiveAnswer_IgnoresError ==
    /\ worker = "wait" /\ answer # "none"
    /\ Report("added")
    /\ UNCHANGED <<stopCall, found, call, eventBus, others, node, nextHash>>

(* An answer that can be decoded ends the call.                            *)
ReceiveAnswer ==
    /\ worker = "wait" /\ answer # "none"
    /\ Report(answer)
    /\ UNCHANGED <<stopCall, found, call, eventBus, others, node, nextHash>>

AttemptFails_OnceMore ==
    /\ worker = "wait"
    /\ \/ /\ attempt <= MaxRetries
          /\ attempt' = attempt + 1
          /\ worker' = "post"
          /\ UNCHANGED <<template, hash, reports>>
       \/ attempt > MaxRetries /\ Report("failed") /\ UNCHANGED attempt
    /\ UNCHANGED <<stopCall, found, answer, eventBus, others, node, nextHash>>

AttemptFails_Forever ==
    /\ worker = "wait"
    /\ worker' = "post"
    /\ UNCHANGED <<stopCall, miner, call, eventBus, others, node, nextHash>>

(* No connection, a timeout of 30 s, a broken connection, or an answer that*)
(* is not JSON (the node's rate limit): try again, or give up.             *)
AttemptFails ==
    /\ worker = "wait"
    /\ \/ /\ attempt < MaxRetries
          /\ attempt' = attempt + 1
          /\ worker' = "post"
          /\ UNCHANGED <<template, hash, reports>>
       \/ attempt = MaxRetries /\ Report("failed") /\ UNCHANGED attempt
    /\ UNCHANGED <<stopCall, found, answer, eventBus, others, node, nextHash>>

WorkerStep ==
    \/ Loop
    \/ CreateNewBlock
    \/ CheckHeight
    \/ CheckBestBlock
    \/ Select
    \/ Hash
    \/ EmitEvent
    \/ Post
    \/ ReceiveAnswer
    \/ AttemptFails

-----------------------------------------------------------------------------
(* The node.  It does not know that a miner has given up waiting.          *)

Answer(s, result) ==
    answer' = IF worker = "wait" /\ s.hash = hash /\ s.attempt = attempt
                THEN result ELSE answer

SubmitBlock_AnyParent(s) ==
    /\ submissions' = submissions \ {s}
    /\ \/ s.parent \in {chain[i] : i \in 1..Len(chain)}
          /\ chain' = Append(chain, s.hash) /\ Answer(s, "added")
       \/ s.parent \notin {chain[i] : i \in 1..Len(chain)}
          /\ UNCHANGED chain /\ Answer(s, "rejected")
    /\ UNCHANGED <<stopCall, worker, miner, attempt, eventBus, others, nextHash>>

(* handleSubmitBlockV2, with the one check of validateBlockV2 that depends *)
(* on what was added in the meantime.                                      *)
SubmitBlock(s) ==
    /\ submissions' = submissions \ {s}
    /\ \/ /\ s.parent = BestBlock
          /\ chain' = Append(chain, s.hash) /\ Answer(s, "added")
       \/ /\ s.parent # BestBlock
          /\ UNCHANGED chain /\ Answer(s, "rejected")
    /\ UNCHANGED <<stopCall, worker, miner, attempt, eventBus, others, nextHash>>

(* It is lost on its way, or refused: all 50 connections are in use, or its*)
(* address has used up the requests of this minute (limitConnections and   *)
(* checkRateLimit).  The refusal is no JSON, so AttemptFails follows.      *)
LoseSubmission(s) ==
    /\ submissions' = submissions \ {s}
    /\ UNCHANGED <<stopCall, worker, miner, call, eventBus, others, chain, nextHash>>

(* A block of another miner is added.                                      *)
OtherBlock ==
    /\ nextHash <= MaxBlocks
    /\ chain' = Append(chain, nextHash)
    /\ nextHash' = nextHash + 1
    /\ UNCHANGED <<stopCall, worker, miner, call, eventBus, others, submissions>>

-----------------------------------------------------------------------------
(* The other goroutines and Stop.                                          *)

(* eventProcessor: select takes either case when both are ready.           *)
ProcessEvent ==
    /\ processor = "running" /\ eventBus # <<>>
    /\ eventBus' = Tail(eventBus)
    /\ UNCHANGED <<stopCall, worker, miner, call, others, node, nextHash>>

EndProcessor ==
    /\ processor = "running" /\ stopCall # "no"
    /\ processor' = "done"
    /\ UNCHANGED <<stopCall, worker, miner, call, eventBus, reporter, node, nextHash>>

EndReporter ==
    /\ reporter = "running" /\ stopCall # "no"
    /\ reporter' = "done"
    /\ UNCHANGED <<stopCall, worker, miner, call, eventBus, processor, node, nextHash>>

(* Stop is called, by main on a signal.                                    *)
Stop ==
    /\ stopCall = "no"
    /\ stopCall' = "waiting"
    /\ UNCHANGED <<worker, miner, call, eventBus, others, node, nextHash>>

StopReturn_NoWorker ==
    /\ stopCall = "waiting"
    /\ processor = "done" /\ reporter = "done"
    /\ stopCall' = "returned"
    /\ UNCHANGED <<worker, miner, call, eventBus, others, node, nextHash>>

(* wg.Wait returns.                                                        *)
StopReturn ==
    /\ stopCall = "waiting"
    /\ worker = "done" /\ processor = "done" /\ reporter = "done"
    /\ stopCall' = "returned"
    /\ UNCHANGED <<worker, miner, call, eventBus, others, node, nextHash>>

Next ==
    \/ WorkerStep
    \/ ProcessEvent
    \/ EndProcessor
    \/ EndReporter
    \/ Stop
    \/ StopReturn
    \/ \E s \in submissions : SubmitBlock(s) \/ LoseSubmission(s)
    \/ OtherBlock

Spec == Init /\ [][Next]_vars

(* The Go scheduler runs every goroutine that can go on, and the timeout of*)
(* the HTTP client ends every attempt.  Nothing obliges the node to handle *)
(* a submission, a hash to meet the target, or anybody to call Stop.       *)
FairSpec ==
    /\ Spec
    /\ WF_vars(WorkerStep)
    /\ WF_vars(ProcessEvent \/ EndProcessor)
    /\ WF_vars(EndReporter)
    /\ WF_vars(StopReturn)

-----------------------------------------------------------------------------
(* Properties.                                                             *)

(* Variables have their types; no attempt goes beyond the limit of callRPC,*)
(* and no template is held by a worker that starts again.                  *)
TypeOK ==
    /\ stopCall \in {"no", "waiting", "returned"}
    /\ worker \in WorkerSteps
    /\ template \in Template \cup {NoTemplate}
    /\ worker \in {"loop", "template", "done"} <=> template = NoTemplate
    /\ hash \in Hashes
    /\ attempt \in 1..MaxRetries
    /\ answer \in {"none", "added", "rejected"}
    /\ found \subseteq Hashes
    /\ reports \subseteq [hash : found, result : {"added", "rejected", "failed"},
                          attempts : 1..MaxRetries]
    /\ eventBus \in Seq(found) /\ Len(eventBus) <= EventBusSize
    /\ processor \in {"running", "done"} /\ reporter \in {"running", "done"}
    /\ submissions \subseteq [hash : found, parent : Hashes, attempt : 1..MaxRetries]
    /\ chain \in Seq(Hashes)
    /\ nextHash \in 1..(MaxBlocks + 1)

(* However often callRPC repeats a submission, and however late the node   *)
(* handles it, no block is added to the chain twice.                       *)
AddedOnce ==
    \A i, j \in 1..Len(chain) : chain[i] = chain[j] => i = j

(* What the miner logs of a block is true of the node: "submitted          *)
(* successfully" says that it is in the chain, and a rejection that answers*)
(* the first attempt says that it is not and will not be.  A rejection of a*)
(* later attempt says nothing, nor does a failure: an attempt whose answer *)
(* was lost may have added the block.                                      *)
ReportsAreTrue ==
    \A r \in reports :
        LET added == \E i \in 1..Len(chain) : chain[i] = r.hash
        IN  /\ r.result = "added" => added
            /\ r.result = "rejected" /\ r.attempts = 1 => ~added

(* A block that was found is submitted and its fate logged, whatever the   *)
(* node does, unless Stop ends eventProcessor while the channel is full.   *)
FoundIsReported ==
    worker = "emit" ~> \/ worker = "loop"
                       \/ worker = "emit" /\ stopCall # "no" /\ Len(eventBus) = EventBusSize

(* Stop returns, whatever the node does and wherever it finds the worker,  *)
(* unless the event channel is full when it is called: then the worker may *)
(* wait for eventProcessor, which may have ended, and Stop for the worker. *)
StopReturns ==
    stopCall = "waiting" /\ Len(eventBus) < EventBusSize ~> stopCall = "returned"

(* When Stop has returned, the miner does nothing more: it finds no block, *)
(* sends no submission and logs nothing.                                   *)
NothingAfterStop ==
    [][stopCall = "returned" =>
          /\ UNCHANGED <<found, reports, eventBus, worker>>
          /\ submissions' \subseteq submissions]_vars
=============================================================================
