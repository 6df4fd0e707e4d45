----------------------------- MODULE LegacyMiner -----------------------------
(***************************************************************************)
(* The miner of the package mining (mining/miner.go, mining/randomx.go):   *)
(* Start, Stop and SetThreads, the goroutines of miningLoop, miningWorker  *)
(* and handleMiningResults, and the channels blockChan and hashChan between*)
(* them.  The blockchain that it mines for is an interface which nothing in*)
(* the repository implements: its calls return, and what they do is no     *)
(* state here.                                                             *)
(*                                                                         *)
(* Start may follow Stop before the goroutines have noticed it: they look  *)
(* at m.running and at the field rm.stopChan, which Start replaces.        *)
(* Statistics, and the two goroutines that update them, are left out.  Of a*)
(* template it does not matter which nonces win: any may, or none; so the  *)
(* channels only count what is in them.                                    *)
(*                                                                         *)
(* Definitions named X_Y are X with one mistake: each shows that a property*)
(* notices it, and no specification uses them.                             *)
(***************************************************************************)
EXTENDS Integers, Sequences, FiniteSets

CONSTANTS
    EndNonce,       \* the last nonce of a template: 2^64 - 1 in the code
    BlockChanSize,  \* capacity of blockChan: 10 in the code
    HashChanSize,   \* capacity of hashChan: 100 in the code
    ThreadCounts,   \* arguments of SetThreads, which takes any int
    MaxThreads,     \* bound: threads
    MaxStarts,      \* bound: calls of Start
    MaxWorkers,     \* bound: workers that these may create altogether
    MaxHandlers     \* bound: goroutines of handleMiningResults at a time

ASSUME LegacyMinerAssumption ==
    /\ EndNonce \in Nat
    /\ BlockChanSize \in Nat \ {0} /\ HashChanSize \in Nat \ {0}
    /\ MaxThreads \in 1..EndNonce
    /\ ThreadCounts \subseteq Int
    /\ \A n \in ThreadCounts : -EndNonce <= n /\ n <= MaxThreads
    /\ MaxStarts \in Nat \ {0} /\ MaxWorkers \in Nat /\ MaxHandlers \in Nat \ {0}

(* A worker is named by the Start that creates it and its workerID.        *)
Workers == (1..MaxStarts) \X (0..(MaxThreads - 1))
Handlers == 1..MaxHandlers

VARIABLES
    running,    \* Miner.running, and RandomXMiner.running with it
    panicked,   \* the process has ended
    threads,    \* RandomXMiner.threads
    starts,     \* calls of Start; stopChan is the channel of the last one
    loops,      \* for each Start, its miningLoop: "none", "wait", "create" or "ended"
    workers,    \* the goroutines of miningWorker
    blockChan,  \* how many templates are in the channel
    hashChan,   \* how many results are in the channel
    handlers,   \* the goroutines of handleMiningResults: "none", "wait" or "found"
    asStarted   \* history: SetThreads has not been called since the last Start

control == <<running, panicked, threads, starts, asStarted>>
channels == <<blockChan, hashChan>>
vars == <<control, loops, workers, channels, handlers>>

(* The channel of the k-th Start is closed.                                *)
Closed(k) == k < starts \/ ~running

WorkerAt(step) == [step |-> step, stopChan |-> 0, range |-> 0, nonces |-> {}]

(* NewRandomXMiner takes the number of CPUs if it is given no threads.     *)
Init ==
    /\ running = FALSE /\ panicked = FALSE
    /\ threads \in 1..MaxThreads
    /\ starts = 0 /\ asStarted = TRUE
    /\ loops = [s \in 1..MaxStarts |-> "none"]
    /\ workers = [w \in Workers |-> WorkerAt("none")]
    /\ blockChan = 0 /\ hashChan = 0
    /\ handlers = [h \in Handlers |-> "none"]

-----------------------------------------------------------------------------
(* Start, Stop and SetThreads, each under its lock.                        *)

Start ==
    /\ ~running /\ ~panicked /\ starts < MaxStarts
    /\ running' = TRUE
    /\ starts' = starts + 1
    /\ asStarted' = TRUE
    /\ Cardinality({w \in Workers : workers[w].step # "none"}) + threads <= MaxWorkers
    /\ workers' = [w \in Workers |-> IF w[1] = starts' /\ w[2] < threads
                                       THEN WorkerAt("idle") ELSE workers[w]]
    /\ loops' = [loops EXCEPT ![starts'] = "wait"]
    /\ UNCHANGED <<panicked, threads, channels, handlers>>

Stop ==
    /\ running
    /\ running' = FALSE
    /\ UNCHANGED <<panicked, threads, starts, asStarted, loops, workers, channels, handlers>>

(* No goroutine starts or ends: only the ranges of later searches change.  *)
SetThreads(n) ==
    /\ ~panicked
    /\ threads' = n
    /\ asStarted' = FALSE
    /\ UNCHANGED <<running, panicked, starts, loops, workers, channels, handlers>>

-----------------------------------------------------------------------------
(* miningLoop, once a second.                                              *)

Wake(s) ==
    /\ loops[s] = "wait"
    /\ loops' = [loops EXCEPT ![s] = IF running THEN "create" ELSE "ended"]
    /\ UNCHANGED <<control, workers, channels, handlers>>

Offered_Always == blockChan + 1

(* RandomXMiner.MineBlock drops a block for which the channel has no room. *)
Offered == IF blockChan < BlockChanSize THEN blockChan + 1 ELSE blockChan

MineBlock_NoListener(s) ==
    /\ loops[s] = "create"
    /\ loops' = [loops EXCEPT ![s] = "wait"]
    /\ blockChan' = Offered
    /\ UNCHANGED <<control, workers, hashChan, handlers>>

(* createMiningBlock and mineBlock, which starts one more handler for each *)
(* block, also for one that was dropped.                                   *)
MineBlock(s) ==
    /\ loops[s] = "create"
    /\ loops' = [loops EXCEPT ![s] = "wait"]
    /\ blockChan' = Offered
    /\ \/ \E h \in Handlers :
             /\ handlers[h] = "none"
             /\ handlers' = [handlers EXCEPT ![h] = "wait"]
       \/ /\ \A h \in Handlers : handlers[h] # "none"
          /\ UNCHANGED handlers
    /\ UNCHANGED <<control, workers, hashChan>>

(* The blockchain has no best block or no template.                        *)
NoTemplate(s) ==
    /\ loops[s] = "create"
    /\ loops' = [loops EXCEPT ![s] = "wait"]
    /\ UNCHANGED <<control, workers, channels, handlers>>

LoopStep(s) == Wake(s) \/ MineBlock(s) \/ NoTemplate(s)

-----------------------------------------------------------------------------
(* miningWorker.                                                           *)

NonceRange_OneMore(id, range, n) ==
    LET first == (id * range) % (EndNonce + 1)
        next  == (first + range + 1) % (EndNonce + 1)
    IN  first..((IF id = n - 1 THEN EndNonce ELSE next) - 1)

(* An int converted to uint64.                                             *)
Word(n) == IF n < 0 THEN n + EndNonce + 1 ELSE n

(* nonceRange for n threads, and the nonces from startNonce to endNonce, in*)
(* 64-bit arithmetic.                                                      *)
RangeSize(n) == EndNonce \div Word(n)

NonceRange(id, range, n) ==
    LET first == (id * range) % (EndNonce + 1)
        next  == (first + range) % (EndNonce + 1)
    IN  first..((IF id = n - 1 THEN EndNonce ELSE next) - 1)

(* stopChan is closed.  When there is also a block, select takes either.   *)
EndWorker(w) ==
    /\ workers[w].step \in {"idle", "select"} /\ ~running
    /\ workers' = [workers EXCEPT ![w] = WorkerAt("ended")]
    /\ UNCHANGED <<control, loops, channels, handlers>>

TakeBlock(w) ==
    /\ workers[w].step \in {"idle", "select"} /\ blockChan > 0
    /\ workers' = [workers EXCEPT ![w] = WorkerAt("select")]
    /\ blockChan' = blockChan - 1
    /\ UNCHANGED <<control, loops, hashChan, handlers>>

(* The default of the select: search the last block, again if need be.     *)
(* Nothing guards rm.threads, which is read here ...                       *)
BeginSearch(w) ==
    /\ workers[w].step = "select" /\ running /\ blockChan = 0
    /\ threads # 0
    /\ workers' = [workers EXCEPT ![w] = [WorkerAt("divided") EXCEPT
                       !.range = RangeSize(threads)]]
    /\ UNCHANGED <<control, loops, channels, handlers>>

(* ... and a division by zero in one goroutine ends all of them ...        *)
Panic(w) ==
    /\ workers[w].step = "select" /\ running /\ blockChan = 0
    /\ threads = 0
    /\ panicked' = TRUE /\ running' = FALSE
    /\ workers' = [v \in Workers |-> IF workers[v].step = "none" THEN workers[v]
                                       ELSE WorkerAt("ended")]
    /\ loops' = [s \in 1..MaxStarts |-> "ended"]
    /\ handlers' = [h \in Handlers |-> "none"]
    /\ UNCHANGED <<threads, starts, asStarted, channels>>

(* ... and here again.                                                     *)
SetRange(w) ==
    /\ workers[w].step = "divided"
    /\ workers' = [workers EXCEPT ![w] = [WorkerAt("mine") EXCEPT
                       !.nonces = NonceRange(w[2], workers[w].range, threads)]]
    /\ UNCHANGED <<control, loops, channels, handlers>>

(* Some nonce of the range meets the target.  The select that sends it     *)
(* reads stopChan once.                                                    *)
Find(w) ==
    /\ workers[w].step = "mine" /\ workers[w].nonces # {}
    /\ workers' = [workers EXCEPT ![w] = [WorkerAt("send") EXCEPT !.stopChan = starts]]
    /\ UNCHANGED <<control, loops, channels, handlers>>

(* No nonce does, or stopChan is found closed before one.                  *)
EndSearch(w) ==
    /\ workers[w].step = "mine"
    /\ workers' = [workers EXCEPT ![w] = WorkerAt("select")]
    /\ UNCHANGED <<control, loops, channels, handlers>>

Send(w) ==
    /\ workers[w].step = "send" /\ hashChan < HashChanSize
    /\ hashChan' = hashChan + 1
    /\ workers' = [workers EXCEPT ![w] = WorkerAt("select")]
    /\ UNCHANGED <<control, loops, blockChan, handlers>>

GiveUp_Never(w) == FALSE /\ UNCHANGED vars

(* The channel that was stopChan when the send began is closed.            *)
GiveUp(w) ==
    /\ workers[w].step = "send" /\ Closed(workers[w].stopChan)
    /\ workers' = [workers EXCEPT ![w] = WorkerAt("select")]
    /\ UNCHANGED <<control, loops, channels, handlers>>

WorkerStep(w) ==
    EndWorker(w) \/ TakeBlock(w) \/ BeginSearch(w) \/ Panic(w) \/ SetRange(w) \/ Find(w)
        \/ EndSearch(w) \/ Send(w) \/ GiveUp(w)

-----------------------------------------------------------------------------
(* handleMiningResults and handleFoundBlock.                               *)

Receive(h) ==
    /\ handlers[h] = "wait" /\ hashChan > 0
    /\ handlers' = [handlers EXCEPT ![h] = "found"]
    /\ hashChan' = hashChan - 1
    /\ UNCHANGED <<control, loops, workers, blockChan>>

(* A second has passed, and a result may just have come.                   *)
EndHandler(h) ==
    /\ handlers[h] = "wait" /\ ~running
    /\ handlers' = [handlers EXCEPT ![h] = "none"]
    /\ UNCHANGED <<control, loops, workers, channels>>

(* handleFoundBlock: calls of the blockchain, whatever becomes of the block*)
HandleFoundBlock(h) ==
    /\ handlers[h] = "found"
    /\ handlers' = [handlers EXCEPT ![h] = "wait"]
    /\ UNCHANGED <<control, loops, workers, channels>>

HandlerStep(h) == Receive(h) \/ EndHandler(h) \/ HandleFoundBlock(h)

-----------------------------------------------------------------------------
Next ==
    \/ Start
    \/ Stop
    \/ \E n \in ThreadCounts : SetThreads(n)
    \/ \E s \in 1..MaxStarts : LoopStep(s)
    \/ \E w \in Workers : WorkerStep(w)
    \/ \E h \in Handlers : HandlerStep(h)

Spec == Init /\ [][Next]_vars

(* Goroutines that can go on do so, and the blockchain does not refuse     *)
(* every template.                                                         *)
Fairness ==
    /\ \A s \in 1..MaxStarts : WF_vars(LoopStep(s)) /\ SF_vars(MineBlock(s))
    /\ \A w \in Workers : WF_vars(WorkerStep(w))
    /\ \A h \in Handlers : WF_vars(HandlerStep(h))

FairSpec == Spec /\ Fairness

-----------------------------------------------------------------------------
(* Properties.                                                             *)

(* Variables have their types, and the channels hold no more than their    *)
(* capacity.                                                               *)
TypeOK ==
    /\ running \in BOOLEAN /\ panicked \in BOOLEAN /\ asStarted \in BOOLEAN
    /\ threads \in (1..MaxThreads) \cup ThreadCounts
    /\ starts \in 0..MaxStarts
    /\ loops \in [1..MaxStarts -> {"none", "wait", "create", "ended"}]
    /\ workers \in [Workers -> [step : {"none", "idle", "select", "divided", "mine", "send",
                                          "ended"},
                                stopChan : 0..MaxStarts, range : 0..EndNonce,
                                nonces : SUBSET (0..(EndNonce - 1))]]
    /\ blockChan \in 0..BlockChanSize
    /\ hashChan \in 0..HashChanSize
    /\ handlers \in [Handlers -> {"none", "wait", "found"}]

(* The workers of the last Start.                                          *)
Crew == {w \in Workers : w[1] = starts /\ workers[w].step # "none"}

(* "Last worker gets remaining nonces" (randomx.go:172): all but the last  *)
(* of all are searched by some worker, when all of them search.            *)
RemainingNoncesSearched ==
    Crew # {} /\ (\A w \in Crew : workers[w].step = "mine") =>
        UNION {workers[w].nonces : w \in Crew} = 0..(EndNonce - 1)

(* Two workers of one Start never search the same nonce, and together they *)
(* leave out only the last of all, in spite of 64-bit arithmetic and two   *)
(* reads of threads; unless SetThreads is called (randomx.go:166-176).     *)
RangesPartitionNonces ==
    asStarted =>
        /\ \A v, w \in Crew : v # w => workers[v].nonces \cap workers[w].nonces = {}
        /\ RemainingNoncesSearched

AllEnded ==
    /\ \A s \in 1..MaxStarts : loops[s] \in {"none", "ended"}
    /\ \A w \in Workers : workers[w].step \in {"none", "ended"}
    /\ \A h \in Handlers : handlers[h] = "none"

(* After Stop, unless Start follows, every goroutine ends: also those of   *)
(* earlier Starts that had not noticed their Stop when Start followed.     *)
StopEndsAll == ~running ~> AllEnded \/ running

(* While the miner runs, a full hashChan, on which every worker would wait,*)
(* is read again: a handler is there, or miningLoop will start one.        *)
ResultsAreTaken == hashChan = HashChanSize ~> hashChan < HashChanSize \/ ~running
=============================================================================
