------------------------- MODULE LegacyMiner_proofs -------------------------
(***************************************************************************)
(* Proofs about LegacyMiner, for any number of threads, of Starts and of   *)
(* goroutines: the types, and that the workers share the nonces out between*)
(* them.                                                                   *)
(***************************************************************************)
EXTENDS LegacyMiner, TLAPS

WorkerSteps == {"none", "idle", "select", "divided", "mine", "send", "ended"}
WorkerType == [step : WorkerSteps, stopChan : 0..MaxStarts, range : 0..EndNonce,
               nonces : SUBSET (0..(EndNonce - 1))]
LoopSteps == {"none", "wait", "create", "ended"}
HandlerSteps == {"none", "wait", "found"}

(* A worker has nonces while it searches; those of the last Start are as   *)
(* many as there are threads, and have read that number twice, unless      *)
(* SetThreads has been called.                                             *)
WorkerInv ==
    \A w \in Workers :
        /\ w[1] > starts => workers[w].step = "none"
        /\ workers[w].step # "mine" => workers[w].nonces = {}
        /\ w[1] = starts /\ asStarted =>
              /\ workers[w].step # "none" <=> w[2] < threads
              /\ workers[w].step = "divided" => workers[w].range = RangeSize(threads)
              /\ workers[w].step = "mine" =>
                    workers[w].nonces = NonceRange(w[2], RangeSize(threads), threads)

Inv == TypeOK /\ WorkerInv

-----------------------------------------------------------------------------
(* The types of records and ranges.                                        *)

LEMMA Bounds ==
    /\ EndNonce \in Nat /\ MaxThreads \in 1..EndNonce /\ MaxStarts \in Nat \ {0}
    /\ BlockChanSize \in Nat \ {0} /\ HashChanSize \in Nat \ {0}
BY LegacyMinerAssumption

LEMMA AtType ==
    ASSUME NEW step \in WorkerSteps
    PROVE  /\ WorkerAt(step) \in WorkerType
           /\ WorkerAt(step).step = step /\ WorkerAt(step).nonces = {}
BY Bounds DEF WorkerAt, WorkerType

(* threads as uint64 is a divisor, unless it is 0.                         *)
LEMMA ThreadsType ==
    ASSUME TypeOK
    PROVE  /\ threads \in Int /\ threads <= MaxThreads
           /\ threads # 0 => Word(threads) \in 1..EndNonce
<1>1. threads \in Int /\ threads <= MaxThreads /\ -EndNonce <= threads
  <2>1. CASE threads \in 1..MaxThreads
    BY <2>1, Bounds
  <2>2. CASE threads \in ThreadCounts
    BY <2>2, LegacyMinerAssumption
  <2> QED BY <2>1, <2>2 DEF TypeOK
<1> QED BY <1>1, Bounds DEF Word

LEMMA RangeSizeType ==
    ASSUME TypeOK, threads # 0
    PROVE  RangeSize(threads) \in 0..EndNonce
<1> DEFINE n == Word(threads)
           range == EndNonce \div n
<1>1. n \in 1..EndNonce
  BY ThreadsType
<1> HIDE DEF n
<1>2. range \in Nat /\ n * range <= EndNonce
  BY <1>1, Bounds
<1> HIDE DEF range
<1>3. range <= n * range
  BY <1>1, <1>2
<1> QED BY <1>2, <1>3, <1>1, Bounds DEF range, n, RangeSize

LEMMA NonceRangeType ==
    ASSUME NEW id \in Nat, NEW range \in 0..EndNonce, NEW n
    PROVE  NonceRange(id, range, n) \subseteq 0..(EndNonce - 1)
<1> DEFINE product == id * range
           first == product % (EndNonce + 1)
           next  == (first + range) % (EndNonce + 1)
           last  == IF id = n - 1 THEN EndNonce ELSE next
<1>1. product \in Nat
  BY Bounds
<1> HIDE DEF product
<1>2. first \in 0..EndNonce
  BY <1>1, Bounds
<1> HIDE DEF first
<1>3. next \in 0..EndNonce
  BY <1>2, Bounds
<1> HIDE DEF next
<1>4. last \in 0..EndNonce
  BY <1>3, Bounds
<1>5. NonceRange(id, range, n) = first..(last - 1)
  BY DEF NonceRange, product, first, next
<1> HIDE DEF last
<1> QED BY <1>2, <1>4, <1>5, Bounds

-----------------------------------------------------------------------------
(* Every step keeps the invariant.                                         *)

LEMMA InitInv == Init => Inv
<1> SUFFICES ASSUME Init PROVE Inv
  OBVIOUS
<1>1. WorkerAt("none") \in WorkerType
  BY AtType DEF WorkerSteps
<1>2. TypeOK
  <2>1. workers \in [Workers -> WorkerType]
    BY <1>1 DEF Init
  <2>2. loops \in [1..MaxStarts -> LoopSteps] /\ handlers \in [Handlers -> HandlerSteps]
    BY DEF Init, LoopSteps, HandlerSteps
  <2>3. starts \in 0..MaxStarts /\ blockChan \in 0..BlockChanSize /\ hashChan \in 0..HashChanSize
    BY Bounds DEF Init
  <2> QED BY <2>1, <2>2, <2>3
          DEF Init, TypeOK, WorkerType, WorkerSteps, LoopSteps, HandlerSteps
<1>3. WorkerInv
  BY AtType DEF Init, WorkerInv, WorkerSteps, Workers
<1> QED BY <1>2, <1>3 DEF Inv

(* Start makes as many workers as there are threads, of a new Start.       *)
LEMMA StartInv ==
    ASSUME Inv, Start
    PROVE  Inv'
<1>1. /\ WorkerAt("idle") \in WorkerType
      /\ WorkerAt("idle").step = "idle" /\ WorkerAt("idle").nonces = {}
  BY AtType DEF WorkerSteps
<1>2. starts' = starts + 1 /\ starts \in Nat /\ starts' \in 0..MaxStarts
  BY Bounds DEF Start, Inv, TypeOK
<1>3. /\ workers' \in [Workers -> WorkerType]
      /\ \A w \in Workers : workers'[w] = IF w[1] = starts' /\ w[2] < threads
                                            THEN WorkerAt("idle") ELSE workers[w]
  BY <1>1 DEF Start, Inv, TypeOK, WorkerType, WorkerSteps
<1>4. TypeOK'
  BY <1>2, <1>3 DEF Start, channels, Inv, TypeOK, WorkerType, WorkerSteps
<1>5. WorkerInv'
  <2> SUFFICES ASSUME NEW w \in Workers
               PROVE  /\ w[1] > starts' => workers'[w].step = "none"
                      /\ workers'[w].step # "mine" => workers'[w].nonces = {}
                      /\ w[1] = starts' =>
                            /\ workers'[w].step # "none" <=> w[2] < threads
                            /\ workers'[w].step \notin {"divided", "mine"}
    BY DEF WorkerInv, Start
  <2>1. /\ w[1] \in Nat
        /\ w[1] > starts => workers[w].step = "none"
        /\ workers[w].step # "mine" => workers[w].nonces = {}
    BY DEF Inv, WorkerInv, Workers
  <2>2. CASE w[1] = starts' /\ w[2] < threads
    BY <1>1, <1>2, <1>3, <2>2
  <2>3. CASE ~(w[1] = starts' /\ w[2] < threads)
    BY <1>2, <1>3, <2>1, <2>3
  <2> QED BY <2>2, <2>3
<1> QED BY <1>4, <1>5 DEF Inv

(* A step that makes no worker do anything.                                *)
LEMMA OthersInv ==
    ASSUME Inv,
           \/ Stop \/ (\E n \in ThreadCounts : SetThreads(n))
           \/ (\E s \in 1..MaxStarts : LoopStep(s)) \/ (\E h \in Handlers : HandlerStep(h))
           \/ UNCHANGED vars
    PROVE  Inv'
<1> USE DEF LoopStep, Wake, MineBlock, NoTemplate, HandlerStep, Receive, EndHandler,
            HandleFoundBlock, Stop, SetThreads, vars, control, channels
<1>1. /\ UNCHANGED <<starts, workers>>
      /\ running' \in BOOLEAN /\ panicked' \in BOOLEAN /\ asStarted' \in BOOLEAN
      /\ threads' \in (1..MaxThreads) \cup ThreadCounts
      /\ asStarted' => asStarted /\ threads' = threads
  <2>1. CASE \E n \in ThreadCounts : SetThreads(n)
    BY <2>1 DEF Inv, TypeOK
  <2>2. CASE ~\E n \in ThreadCounts : SetThreads(n)
    <3>1. /\ UNCHANGED <<starts, workers, panicked, threads, asStarted>>
          /\ running' \in {running, FALSE}
      BY <2>2
    <3> QED BY <3>1 DEF Inv, TypeOK
  <2> QED BY <2>1, <2>2
<1>2. loops' \in [1..MaxStarts -> LoopSteps]
  BY DEF Inv, TypeOK, LoopSteps
<1>3. handlers' \in [Handlers -> HandlerSteps]
  BY DEF Inv, TypeOK, HandlerSteps
<1>4. blockChan' \in 0..BlockChanSize /\ hashChan' \in 0..HashChanSize
  BY Bounds DEF Inv, TypeOK, Offered
<1>5. TypeOK'
  BY <1>1, <1>2, <1>3, <1>4 DEF Inv, TypeOK, LoopSteps, HandlerSteps
<1>6. WorkerInv'
  BY <1>1 DEF Inv, WorkerInv
<1> QED BY <1>5, <1>6 DEF Inv

(* One worker that exists goes on, to a state that is right for it.        *)
LEMMA WorkerGoesOn ==
    ASSUME Inv, NEW w \in Workers, NEW record \in WorkerType,
           workers' = [workers EXCEPT ![w] = record],
           workers[w].step # "none", record.step # "none",
           record.step # "mine" => record.nonces = {},
           record.step = "divided" => record.range = RangeSize(threads),
           record.step = "mine" /\ w[1] = starts /\ asStarted =>
               record.nonces = NonceRange(w[2], RangeSize(threads), threads),
           blockChan' \in 0..BlockChanSize, hashChan' \in 0..HashChanSize,
           UNCHANGED <<control, loops, handlers>>
    PROVE  Inv'
<1>1. /\ workers' \in [Workers -> WorkerType] /\ workers'[w] = record
      /\ \A v \in Workers : v # w => workers'[v] = workers[v]
  BY DEF Inv, TypeOK, WorkerType, WorkerSteps
<1>2. TypeOK'
  BY <1>1 DEF control, Inv, TypeOK, WorkerType, WorkerSteps
<1>3. WorkerInv'
  <2> SUFFICES ASSUME NEW v \in Workers
               PROVE  /\ v[1] > starts => workers'[v].step = "none"
                      /\ workers'[v].step # "mine" => workers'[v].nonces = {}
                      /\ v[1] = starts /\ asStarted =>
                            /\ workers'[v].step # "none" <=> v[2] < threads
                            /\ workers'[v].step = "divided" =>
                                  workers'[v].range = RangeSize(threads)
                            /\ workers'[v].step = "mine" =>
                                  workers'[v].nonces = NonceRange(v[2], RangeSize(threads), threads)
    BY DEF WorkerInv, control
  <2>1. CASE v = w
    BY <1>1, <2>1 DEF Inv, WorkerInv
  <2>2. CASE v # w
    BY <1>1, <2>2 DEF Inv, WorkerInv
  <2> QED BY <2>1, <2>2
<1> QED BY <1>2, <1>3 DEF Inv

LEMMA WorkerStepInv ==
    ASSUME Inv, NEW w \in Workers, WorkerStep(w)
    PROVE  Inv'
<1>0. blockChan \in 0..BlockChanSize /\ hashChan \in 0..HashChanSize /\ workers[w] \in WorkerType
  BY DEF Inv, TypeOK, WorkerType, WorkerSteps
<1>1. ASSUME NEW step \in {"ended", "select"}, workers' = [workers EXCEPT ![w] = WorkerAt(step)],
             workers[w].step # "none",
             blockChan' \in 0..BlockChanSize, hashChan' \in 0..HashChanSize,
             UNCHANGED <<control, loops, handlers>>
      PROVE  Inv'
  <2>1. /\ WorkerAt(step) \in WorkerType /\ WorkerAt(step).step = step
        /\ WorkerAt(step).nonces = {}
    BY <1>1, AtType DEF WorkerSteps
  <2> QED BY <1>1, <2>1, WorkerGoesOn
<1>2. CASE EndWorker(w)
  BY <1>0, <1>1, <1>2 DEF EndWorker, channels
<1>3. CASE TakeBlock(w)
  <2>1. blockChan' \in 0..BlockChanSize
    BY <1>0, <1>3, Bounds DEF TakeBlock
  <2> QED BY <1>0, <1>1, <1>3, <2>1 DEF TakeBlock
<1>4. CASE BeginSearch(w)
  <2> DEFINE record == [WorkerAt("divided") EXCEPT !.range = RangeSize(threads)]
  <2>1. RangeSize(threads) \in 0..EndNonce
    BY <1>4, RangeSizeType DEF BeginSearch, Inv
  <2>2. /\ record \in WorkerType /\ record.step = "divided" /\ record.nonces = {}
        /\ record.range = RangeSize(threads)
    BY <2>1, Bounds DEF WorkerAt, WorkerType, WorkerSteps
  <2>3. /\ workers' = [workers EXCEPT ![w] = record] /\ workers[w].step # "none"
        /\ UNCHANGED <<control, loops, handlers, blockChan, hashChan>>
    BY <1>4 DEF BeginSearch, channels
  <2> HIDE DEF record
  <2> QED BY <1>0, <2>2, <2>3, WorkerGoesOn
<1>5. CASE Panic(w)
  <2>1. WorkerAt("ended") \in WorkerType /\ WorkerAt("ended").step = "ended"
        /\ WorkerAt("ended").nonces = {}
    BY AtType DEF WorkerSteps
  <2>2. /\ workers' \in [Workers -> WorkerType]
        /\ \A v \in Workers : workers'[v] = IF workers[v].step = "none" THEN workers[v]
                                              ELSE WorkerAt("ended")
    BY <1>5, <2>1 DEF Panic, Inv, TypeOK, WorkerType, WorkerSteps
  <2>3. TypeOK'
    BY <1>5, <2>2 DEF Panic, channels, Inv, TypeOK, WorkerType, WorkerSteps
  <2>4. WorkerInv'
    BY <1>5, <2>1, <2>2 DEF Panic, Inv, WorkerInv
  <2> QED BY <2>3, <2>4 DEF Inv
<1>6. CASE SetRange(w)
  <2> DEFINE nonces == NonceRange(w[2], workers[w].range, threads)
             record == [WorkerAt("mine") EXCEPT !.nonces = nonces]
  <2>1. w[2] \in Nat /\ workers[w].range \in 0..EndNonce
    BY <1>0, Bounds DEF Workers, WorkerType
  <2>2. nonces \subseteq 0..(EndNonce - 1)
    BY <2>1, NonceRangeType
  <2> HIDE DEF nonces
  <2>3. record \in WorkerType /\ record.step = "mine" /\ record.nonces = nonces
    BY <2>2, Bounds DEF WorkerAt, WorkerType, WorkerSteps
  <2>4. /\ workers' = [workers EXCEPT ![w] = record] /\ workers[w].step = "divided"
        /\ UNCHANGED <<control, loops, handlers, blockChan, hashChan>>
    BY <1>6 DEF SetRange, channels, nonces
  <2>5. w[1] = starts /\ asStarted => nonces = NonceRange(w[2], RangeSize(threads), threads)
    BY <2>4 DEF Inv, WorkerInv, nonces
  <2> HIDE DEF record
  <2> QED BY <1>0, <2>3, <2>4, <2>5, WorkerGoesOn
<1>7. CASE Find(w)
  <2> DEFINE record == [WorkerAt("send") EXCEPT !.stopChan = starts]
  <2>0. starts \in 0..MaxStarts
    BY DEF Inv, TypeOK
  <2>1. record \in WorkerType /\ record.step = "send" /\ record.nonces = {}
    BY <2>0, Bounds DEF WorkerAt, WorkerType, WorkerSteps
  <2>2. /\ workers' = [workers EXCEPT ![w] = record] /\ workers[w].step # "none"
        /\ UNCHANGED <<control, loops, handlers, blockChan, hashChan>>
    BY <1>7 DEF Find, channels
  <2> HIDE DEF record
  <2> QED BY <1>0, <2>1, <2>2, WorkerGoesOn
<1>8. CASE EndSearch(w) \/ GiveUp(w)
  BY <1>0, <1>1, <1>8 DEF EndSearch, GiveUp, channels
<1>9. CASE Send(w)
  <2>1. hashChan' \in 0..HashChanSize
    BY <1>0, <1>9, Bounds DEF Send
  <2> QED BY <1>0, <1>1, <1>9, <2>1 DEF Send
<1> QED BY <1>2, <1>3, <1>4, <1>5, <1>6, <1>7, <1>8, <1>9 DEF WorkerStep

LEMMA InvAlways == Spec => []Inv
<1>1. Inv /\ [Next]_vars => Inv'
  BY StartInv, OthersInv, WorkerStepInv DEF Next
<1> QED BY <1>1, InitInv, PTL DEF Spec

(* Every variable has its type, and no channel holds more than it has room *)
(* for, however many goroutines Starts have left behind.                   *)
THEOREM TypeCorrect == Spec => []TypeOK
<1>1. Inv => TypeOK
  BY DEF Inv
<1> QED BY <1>1, InvAlways, PTL

-----------------------------------------------------------------------------
(* Nonce ranges, in 64-bit arithmetic, when the two reads give one number. *)

Share(id, n) == NonceRange(id, EndNonce \div n, n)

(* Nothing overflows: worker id begins at id * range, and all but the last *)
(* end before the next one begins.                                         *)
LEMMA RangeBounds ==
    ASSUME NEW n \in Nat \ {0}, NEW id \in 0..(n - 1)
    PROVE  /\ EndNonce \div n \in Nat
           /\ id * (EndNonce \div n) \in Nat
           /\ id * (EndNonce \div n) + (EndNonce \div n) <= EndNonce
           /\ Share(id, n) = IF id = n - 1
                 THEN (id * (EndNonce \div n))..(EndNonce - 1)
                 ELSE (id * (EndNonce \div n))..(id * (EndNonce \div n) + (EndNonce \div n) - 1)
<1> DEFINE range == EndNonce \div n
           first == id * range
<1>1. range \in Nat /\ n * range <= EndNonce
  BY Bounds
<1> HIDE DEF range
<1>2. first \in Nat /\ (id + 1) * range = first + range /\ (id + 1) * range <= n * range
  BY <1>1
<1>3. first + range <= EndNonce
  BY <1>1, <1>2, Bounds
<1> HIDE DEF first
<1>4. first % (EndNonce + 1) = first /\ (first + range) % (EndNonce + 1) = first + range
  BY <1>1, <1>2, <1>3, Bounds
<1>5. Share(id, n) = first..((IF id = n - 1 THEN EndNonce ELSE first + range) - 1)
  BY <1>4 DEF Share, NonceRange, first, range
<1> QED BY <1>1, <1>2, <1>3, <1>5 DEF first, range

(* Of two workers, one ends before the other begins.                       *)
LEMMA RangesDisjoint ==
    ASSUME NEW n \in Nat \ {0}, NEW i \in 0..(n - 1), NEW j \in 0..(n - 1), i < j
    PROVE  Share(i, n) \cap Share(j, n) = {}
<1> DEFINE range == EndNonce \div n
<1>1. range \in Nat /\ i * range \in Nat /\ j * range \in Nat
  BY RangeBounds
<1>2. Share(i, n) = (i * range)..(i * range + range - 1)
  <2>1. i # n - 1
    OBVIOUS
  <2> QED BY <2>1, RangeBounds
<1>3. \A nonce \in Share(j, n) : nonce \in Int /\ nonce >= j * range
  <2> DEFINE first == j * range
  <2>1. first \in Nat
    BY <1>1
  <2>2. Share(j, n) = IF j = n - 1 THEN first..(EndNonce - 1) ELSE first..(first + range - 1)
    BY RangeBounds
  <2> HIDE DEF first, range
  <2>3. \A nonce \in Share(j, n) : nonce \in Int /\ nonce >= first
    BY <2>1, <2>2, <1>1, Bounds
  <2> QED BY <2>3 DEF first
<1> HIDE DEF range
<1>4. i * range + range <= j * range
  BY <1>1
<1> QED BY <1>1, <1>2, <1>3, <1>4

(* The worker whose range has a nonce: its number divided by the range, or *)
(* the last worker, which searches the remainder too.                      *)
LEMMA RangesCover ==
    ASSUME NEW n \in Nat \ {0}, NEW nonce \in 0..(EndNonce - 1)
    PROVE  \E id \in 0..(n - 1) : nonce \in Share(id, n)
<1> DEFINE range == EndNonce \div n
           last  == n - 1
<1>1. range \in Nat /\ last \in 0..(n - 1) /\ last * range \in Nat
  BY RangeBounds
<1>2. Share(last, n) = (last * range)..(EndNonce - 1)
  BY <1>1, RangeBounds
<1> HIDE DEF range
<1>3. CASE nonce >= last * range
  BY <1>1, <1>2, <1>3, Bounds
<1>4. CASE nonce < last * range
  <2>1. range # 0
    BY <1>4, <1>1
  <2> DEFINE id == nonce \div range
  <2>2. id \in Nat /\ id * range <= nonce /\ nonce < id * range + range
    BY <1>1, <2>1
  <2> HIDE DEF id
  <2>3. id < last
    <3> SUFFICES ASSUME last <= id PROVE FALSE
      BY <2>2
    <3>1. last * range <= id * range
      BY <1>1, <2>2
    <3> QED BY <3>1, <2>2, <1>1, <1>4
  <2>4. id \in 0..(n - 1) /\ id # n - 1
    BY <2>2, <2>3
  <2>5. Share(id, n) = (id * range)..(id * range + range - 1)
    BY <2>4, RangeBounds DEF range
  <2>6. nonce \in Share(id, n)
    BY <2>2, <2>5, <1>1
  <2> QED BY <2>4, <2>6
<1> QED BY <1>3, <1>4, <1>1

(* The workers of the last Start are as many as there are threads.         *)
LEMMA CrewIsThreads ==
    ASSUME Inv, asStarted
    PROVE  /\ \A w \in Crew : /\ w[2] \in 0..(threads - 1) /\ w = <<starts, w[2]>>
                              /\ threads \in Nat \ {0} /\ RangeSize(threads) = EndNonce \div threads
           /\ Crew # {} => \A id \in 0..(threads - 1) : <<starts, id>> \in Crew
<1>1. threads \in Int /\ threads <= MaxThreads
  BY ThreadsType DEF Inv
<1>2. ASSUME NEW w \in Crew
      PROVE  /\ w[2] \in 0..(threads - 1) /\ w = <<starts, w[2]>>
             /\ threads \in Nat \ {0} /\ RangeSize(threads) = EndNonce \div threads
             /\ starts \in 1..MaxStarts
  <2>1. w \in Workers /\ w[1] = starts /\ w[2] < threads
    BY <1>2 DEF Crew, Inv, WorkerInv
  <2>2. w[2] \in Nat /\ w = <<starts, w[2]>> /\ starts \in 1..MaxStarts
    BY <2>1, Bounds DEF Workers
  <2> QED BY <1>1, <2>1, <2>2 DEF RangeSize, Word
<1>3. ASSUME Crew # {}, NEW id \in 0..(threads - 1)
      PROVE  <<starts, id>> \in Crew
  <2>1. starts \in 1..MaxStarts
    BY <1>2, <1>3
  <2>2. <<starts, id>> \in Workers
    BY <1>1, <1>3, <2>1, Bounds DEF Workers
  <2>3. id < threads
    BY <1>1, <1>3
  <2> QED BY <2>2, <2>3 DEF Crew, Inv, WorkerInv
<1> QED BY <1>2, <1>3

LEMMA RangesPartition == Inv => RangesPartitionNonces
<1> SUFFICES ASSUME Inv, asStarted
             PROVE  /\ \A v, w \in Crew : v # w => workers[v].nonces \cap workers[w].nonces = {}
                    /\ RemainingNoncesSearched
  BY DEF RangesPartitionNonces
<1>1. \A w \in Crew : /\ w[2] \in 0..(threads - 1) /\ w = <<starts, w[2]>>
                      /\ threads \in Nat \ {0} /\ RangeSize(threads) = EndNonce \div threads
  BY CrewIsThreads
<1>2. \A w \in Crew : workers[w].nonces = IF workers[w].step = "mine" THEN Share(w[2], threads)
                                          ELSE {}
  BY <1>1 DEF Inv, WorkerInv, Crew, Share
<1>3. ASSUME NEW v \in Crew, NEW w \in Crew, v # w
      PROVE  workers[v].nonces \cap workers[w].nonces = {}
  <2>1. v[2] < w[2] \/ w[2] < v[2]
    BY <1>1, <1>3
  <2>2. Share(v[2], threads) \cap Share(w[2], threads) = {}
    BY <2>1, <1>1, RangesDisjoint
  <2> QED BY <1>2, <2>2
<1>4. ASSUME Crew # {}, \A w \in Crew : workers[w].step = "mine"
      PROVE  UNION {workers[w].nonces : w \in Crew} = 0..(EndNonce - 1)
  <2>1. threads \in Nat \ {0} /\ \A w \in Crew : workers[w].nonces = Share(w[2], threads)
    BY <1>1, <1>2, <1>4
  <2>2. \A w \in Crew : workers[w].nonces \subseteq 0..(EndNonce - 1)
    BY DEF Inv, TypeOK, Crew
  <2>3. ASSUME NEW nonce \in 0..(EndNonce - 1)
        PROVE  \E w \in Crew : nonce \in workers[w].nonces
    <3>1. PICK id \in 0..(threads - 1) : nonce \in Share(id, threads)
      BY <2>1, RangesCover
    <3>2. <<starts, id>> \in Crew
      BY <1>4, CrewIsThreads
    <3> QED BY <2>1, <3>1, <3>2
  <2> QED BY <2>2, <2>3
<1> QED BY <1>3, <1>4 DEF RemainingNoncesSearched

(* For any number of threads and any last nonce, the workers of the last   *)
(* Start share all nonces but that one out between them, unless SetThreads *)
(* is called.                                                              *)
THEOREM NoncesShared == Spec => []RangesPartitionNonces
BY InvAlways, RangesPartition, PTL
=============================================================================
