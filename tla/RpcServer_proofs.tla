-------------------------- MODULE RpcServer_proofs --------------------------
(***************************************************************************)
(* Proofs about RpcServer, for any number of addresses, slots and requests:*)
(* no slot is lost or used twice, and no minute sees more than twice the   *)
(* rate limit of an address.                                               *)
(***************************************************************************)
EXTENDS RpcServer, FiniteSetTheorems, TLAPS

USE DEF RateLimit

(* What the requests of an address that passed, in order, have to do with  *)
(* its counter.  All but the last limit.count came before the period of the*)
(* counter began; and all but these and RequestsPerMin more came before the*)
(* period before it, which was longer than a minute.                       *)
Fits(times, limit, now) ==
    /\ limit.lastReset <= now
    /\ \A i \in 1..Len(times) :
          /\ times[i] <= now
          /\ i + limit.count <= Len(times) => times[i] <= limit.lastReset
          /\ i + limit.count + RequestsPerMin <= Len(times)
                => times[i] + Minute < limit.lastReset

Spread(times) ==
    \A i \in 1..Len(times) :
        i + 2 * RequestsPerMin <= Len(times)
            => times[i + 2 * RequestsPerMin] - times[i] > Minute

Inv ==
    /\ TypeOK
    /\ \A a \in Addresses : Fits(admitted[a], Known(a), clock) /\ Spread(admitted[a])

-----------------------------------------------------------------------------
(* The counter.                                                            *)

LEMMA Bounds == MaxConnections \in Nat \ {0} /\ RequestsPerMin \in Nat \ {0}
                  /\ Minute \in Nat \ {0} /\ MaxClock \in Nat
BY RpcServerAssumption

LEMMA KnownType ==
    ASSUME TypeOK, NEW a \in Addresses
    PROVE  Known(a) \in RateLimit /\ CurrentLimit(a) \in RateLimit
BY Bounds DEF TypeOK, Known, CurrentLimit

(* Time that passes, and a reset, leave the counter as it should be.       *)
LEMMA LaterFits ==
    ASSUME NEW times \in Seq(Nat), NEW limit \in RateLimit, NEW now \in Nat, NEW later \in Nat,
           now <= later, Fits(times, limit, now)
    PROVE  Fits(times, limit, later)
BY Bounds DEF Fits

LEMMA ResetFits ==
    ASSUME NEW times \in Seq(Nat), NEW limit \in RateLimit, NEW now \in Nat,
           Fits(times, limit, now), now - limit.lastReset > Minute
    PROVE  Fits(times, [count |-> 0, lastReset |-> now], now)
<1> DEFINE reset == [count |-> 0, lastReset |-> now]
<1>1. /\ limit.count \in 0..RequestsPerMin /\ limit.lastReset \in Nat /\ Len(times) \in Nat
      /\ reset.count = 0 /\ reset.lastReset = now
  BY Bounds
<1> HIDE DEF reset
<1>2. ASSUME NEW i \in 1..Len(times)
      PROVE  /\ times[i] <= now
             /\ i + reset.count <= Len(times) => times[i] <= reset.lastReset
             /\ i + reset.count + RequestsPerMin <= Len(times)
                   => times[i] + Minute < reset.lastReset
  <2>1. /\ times[i] \in Nat /\ i \in Nat
        /\ times[i] <= now
        /\ i + limit.count <= Len(times) => times[i] <= limit.lastReset
    BY DEF Fits
  <2>2. i + RequestsPerMin <= Len(times) => i + limit.count <= Len(times)
    BY <2>1, <1>1, Bounds
  <2> QED BY SMTT(30), <2>1, <2>2, <1>1, Bounds
<1> QED BY <1>2, <1>1 DEF Fits, reset

LEMMA CurrentFits ==
    ASSUME TypeOK, NEW a \in Addresses, Fits(admitted[a], Known(a), clock)
    PROVE  Fits(admitted[a], CurrentLimit(a), clock)
<1>1. admitted[a] \in Seq(Nat) /\ clock \in Nat
  BY Bounds DEF TypeOK
<1>2. CASE clock - Known(a).lastReset > Minute
  BY <1>1, <1>2, KnownType, ResetFits DEF CurrentLimit
<1>3. CASE ~(clock - Known(a).lastReset > Minute)
  BY <1>3 DEF CurrentLimit
<1> QED BY <1>2, <1>3

(* One more request that passes.                                           *)
LEMMA OneMore ==
    ASSUME NEW times \in Seq(Nat), NEW limit \in RateLimit, NEW now \in Nat,
           Fits(times, limit, now), Spread(times), limit.count < RequestsPerMin
    PROVE  /\ Fits(Append(times, now), [limit EXCEPT !.count = @ + 1], now)
           /\ Spread(Append(times, now))
<1> DEFINE more == Append(times, now)
           counted == [limit EXCEPT !.count = @ + 1]
<1>1. /\ Len(times) \in Nat /\ Len(more) = Len(times) + 1
      /\ \A i \in 1..Len(times) : more[i] = times[i] /\ times[i] \in Nat
      /\ more[Len(times) + 1] = now
  OBVIOUS
<1>2. /\ limit.count \in 0..RequestsPerMin /\ limit.lastReset \in Nat
      /\ counted.count = limit.count + 1 /\ counted.lastReset = limit.lastReset
  BY Bounds
<1> HIDE DEF more, counted
<1>3. Fits(more, counted, now)
  <2>1. ASSUME NEW i \in 1..Len(more)
        PROVE  /\ more[i] <= now
               /\ i + counted.count <= Len(more) => more[i] <= counted.lastReset
               /\ i + counted.count + RequestsPerMin <= Len(more)
                     => more[i] + Minute < counted.lastReset
    <3>1. CASE i \in 1..Len(times)
      <4>1. /\ i \in Nat /\ times[i] <= now /\ limit.lastReset <= now
            /\ i + limit.count <= Len(times) => times[i] <= limit.lastReset
            /\ i + limit.count + RequestsPerMin <= Len(times)
                  => times[i] + Minute < limit.lastReset
        BY <3>1 DEF Fits
      <4>2. more[i] = times[i]
        BY <3>1, <1>1
      <4>3. Len(times) \in Nat /\ limit.count \in Nat /\ RequestsPerMin \in Nat
        BY <1>1, <1>2, Bounds
      <4>4. Len(more) = Len(times) + 1 /\ counted.count = limit.count + 1
        BY <1>1, <1>2
      <4>5. i + counted.count <= Len(more) <=> i + limit.count <= Len(times)
        BY <4>1, <4>3, <4>4
      <4>6. i + counted.count + RequestsPerMin <= Len(more)
              <=> i + limit.count + RequestsPerMin <= Len(times)
        BY <4>1, <4>3, <4>4
      <4> QED BY <4>1, <4>2, <4>5, <4>6, <1>2
    <3>2. CASE i = Len(times) + 1
      BY <3>2, <1>1, <1>2, Bounds
    <3> QED BY <3>1, <3>2, <1>1
  <2> QED BY <2>1, <1>2 DEF Fits
<1>4. Spread(more)
  <2> SUFFICES ASSUME NEW i \in 1..Len(more), i + 2 * RequestsPerMin <= Len(more)
               PROVE  more[i + 2 * RequestsPerMin] - more[i] > Minute
    BY DEF Spread
  <2> DEFINE j == i + 2 * RequestsPerMin
  <2>1. i \in Nat /\ j \in Nat /\ 1 <= i /\ i < j /\ j <= Len(times) + 1
    BY <1>1, Bounds
  <2>2. CASE j <= Len(times)
    <3>1. i \in 1..Len(times) /\ j \in 1..Len(times)
      BY <2>1, <2>2, <1>1
    <3>2. times[j] - times[i] > Minute
      BY <3>1, <2>2, <1>1, Bounds DEF Spread
    <3> QED BY <3>1, <3>2, <1>1
  <2>3. CASE j = Len(times) + 1
    <3>1. i \in 1..Len(times) /\ i + limit.count + RequestsPerMin <= Len(times)
      BY <2>1, <2>3, <1>1, <1>2, Bounds
    <3>2. times[i] + Minute < limit.lastReset /\ limit.lastReset <= now
      BY <3>1 DEF Fits
    <3>3. more[j] = now /\ more[i] = times[i] /\ times[i] \in Nat
      BY <2>3, <3>1, <1>1
    <3> QED BY SMTT(30), <3>2, <3>3, <1>2, Bounds
  <2> QED BY <2>1, <2>2, <2>3, <1>1
<1> QED BY <1>3, <1>4 DEF more, counted

(* The RateLimit of one address is set, and of no other.                   *)
LEMMA SetLimit ==
    ASSUME TypeOK, NEW a \in Addresses, NEW limit \in RateLimit, SetRateLimit(a, limit),
           clock' = clock
    PROVE  /\ DOMAIN rateLimits' = DOMAIN rateLimits \cup {a}
           /\ \A x \in DOMAIN rateLimits' : rateLimits'[x] \in RateLimit
           /\ Known(a)' = limit
           /\ \A x \in Addresses : x # a => Known(x)' = Known(x)
BY DEF TypeOK, SetRateLimit, Known

-----------------------------------------------------------------------------
(* The slots.                                                              *)

(* One goroutine more, or one fewer, is in a handler.                      *)
LEMMA Slots ==
    ASSUME TypeOK, NEW r \in Requests, NEW record,
           requests' = [requests EXCEPT ![r] = record]
    PROVE  /\ Cardinality(InHandler) \in Nat
           /\ requests[r].step = "none" /\ record.step # "none"
                 => Cardinality(InHandler') = Cardinality(InHandler) + 1
           /\ requests[r].step # "none" /\ record.step = "none"
                 => Cardinality(InHandler') = Cardinality(InHandler) - 1
           /\ requests[r].step # "none" /\ record.step # "none"
                 => Cardinality(InHandler') = Cardinality(InHandler)
<1>1. IsFiniteSet(Requests)
  BY RpcServerAssumption
<1>2. InHandler \in SUBSET Requests
  BY DEF InHandler
<1>3. IsFiniteSet(InHandler)
  BY <1>1, <1>2, FS_Subset
<1>4. Cardinality(InHandler) \in Nat
  BY <1>3, FS_CardinalityType
<1>5. \A x \in Requests : requests'[x] = IF x = r THEN record ELSE requests[x]
  BY DEF TypeOK
<1>6. r \in InHandler <=> requests[r].step # "none"
  BY DEF InHandler
<1>7. CASE requests[r].step = "none" /\ record.step # "none"
  <2>1. InHandler' = InHandler \cup {r}
    BY <1>5, <1>7 DEF InHandler
  <2>2. Cardinality(InHandler \cup {r}) = Cardinality(InHandler) + 1
    BY <1>3, <1>6, <1>7, FS_AddElement
  <2> QED BY <2>1, <2>2, <1>4, <1>7
<1>8. CASE requests[r].step # "none" /\ record.step = "none"
  <2>1. InHandler' = InHandler \ {r}
    BY <1>5, <1>8 DEF InHandler
  <2>2. Cardinality(InHandler \ {r}) = Cardinality(InHandler) - 1
    BY <1>3, <1>6, <1>8, FS_RemoveElement
  <2> QED BY <2>1, <2>2, <1>4, <1>8
<1>9. CASE requests[r].step # "none" /\ record.step # "none"
  <2>1. InHandler' = InHandler
    BY <1>5, <1>9 DEF InHandler
  <2> QED BY <2>1, <1>4, <1>9
<1>10. CASE requests[r].step = "none" /\ record.step = "none"
  BY <1>4, <1>10
<1> QED BY <1>7, <1>8, <1>9, <1>10

(* A goroutine goes to its next step in the handler.                       *)
LEMMA StepsOn ==
    ASSUME TypeOK, NEW r \in Requests, NEW step \in Steps \ {"none"},
           requests[r].step # "none",
           requests' = [requests EXCEPT ![r].step = step]
    PROVE  /\ Cardinality(InHandler') = Cardinality(InHandler)
           /\ requests' \in [Requests -> [step : Steps, from : SUBSET Anyone]]
<1> DEFINE record == [requests[r] EXCEPT !.step = step]
<1>1. /\ record.step = step /\ record \in [step : Steps, from : SUBSET Anyone]
      /\ requests' = [requests EXCEPT ![r] = record]
  BY DEF TypeOK
<1> HIDE DEF record
<1>2. Cardinality(InHandler') = Cardinality(InHandler)
  BY <1>1, Slots
<1>3. requests' \in [Requests -> [step : Steps, from : SUBSET Anyone]]
  BY <1>1 DEF TypeOK
<1> QED BY <1>2, <1>3

-----------------------------------------------------------------------------
(* Every step keeps the types.                                             *)

LEMMA InitType == Init => TypeOK
<1> SUFFICES ASSUME Init PROVE TypeOK
  OBVIOUS
<1>1. InHandler = {}
  BY DEF Init, InHandler, NoRequest
<1>2. Cardinality(InHandler) = 0
  BY <1>1, FS_EmptySet
<1>3. requests \in [Requests -> [step : Steps, from : SUBSET Anyone]]
  BY DEF Init, NoRequest, Steps
<1>4. /\ DOMAIN rateLimits \subseteq Addresses
      /\ \A a \in DOMAIN rateLimits : rateLimits[a] \in RateLimit
  BY DEF Init
<1>5. admitted \in [Addresses -> Seq(0..MaxClock)]
  BY DEF Init
<1> QED BY <1>2, <1>3, <1>4, <1>5, Bounds DEF Init, TypeOK

LEMMA ListenType == TypeOK /\ (Listen \/ Stop \/ Shutdown) => TypeOK'
BY DEF TypeOK, Listen, Stop, Shutdown, InHandler

LEMMA TickType == TypeOK /\ Tick => TypeOK'
BY Bounds DEF TypeOK, Tick, InHandler

LEMMA EnterType ==
    ASSUME TypeOK, NEW r \in Requests, NEW a \in Anyone, Enter(r, a)
    PROVE  TypeOK'
<1> DEFINE record == [step |-> "entered", from |-> {a}]
<1>1. /\ record.step = "entered" /\ record \in [step : Steps, from : SUBSET Anyone]
      /\ requests' = [requests EXCEPT ![r] = record]
  BY DEF Enter, Steps
<1> HIDE DEF record
<1>2. Cardinality(InHandler) \in Nat /\ Cardinality(InHandler') = Cardinality(InHandler) + 1
  BY <1>1, Slots DEF Enter
<1>3. requests' \in [Requests -> [step : Steps, from : SUBSET Anyone]]
  BY <1>1 DEF TypeOK
<1> QED BY <1>2, <1>3, Bounds DEF Enter, TypeOK

LEMMA LeaveType ==
    ASSUME TypeOK, NEW r \in Requests, Leave(r)
    PROVE  TypeOK'
<1>1. NoRequest.step = "none" /\ NoRequest \in [step : Steps, from : SUBSET Anyone]
  BY DEF NoRequest, Steps
<1>2. Cardinality(InHandler) \in Nat /\ Cardinality(InHandler') = Cardinality(InHandler) - 1
  BY <1>1, Slots DEF Leave
<1>3. requests' \in [Requests -> [step : Steps, from : SUBSET Anyone]]
  BY <1>1 DEF Leave, TypeOK
<1> QED BY <1>2, <1>3, Bounds DEF Leave, TypeOK

LEMMA HandleType ==
    ASSUME TypeOK, NEW r \in Requests, Health(r) \/ AdmitLocalhost(r) \/ Handle(r)
    PROVE  TypeOK'
<1>1. \E step \in Steps \ {"none"} : requests[r].step # "none"
                                     /\ requests' = [requests EXCEPT ![r].step = step]
  BY DEF Health, AdmitLocalhost, Handle, Steps
<1>2. /\ Cardinality(InHandler') = Cardinality(InHandler)
      /\ requests' \in [Requests -> [step : Steps, from : SUBSET Anyone]]
  BY <1>1, StepsOn
<1> QED BY <1>2 DEF Health, AdmitLocalhost, Handle, TypeOK

LEMMA AdmitType ==
    ASSUME TypeOK, NEW r \in Requests, NEW a \in Addresses, Admit(r, a)
    PROVE  TypeOK'
<1> DEFINE counted == [CurrentLimit(a) EXCEPT !.count = @ + 1]
<1>1. CurrentLimit(a) \in RateLimit /\ CurrentLimit(a).count < RequestsPerMin
  BY KnownType DEF Admit
<1>2. counted \in RateLimit
  BY <1>1, Bounds
<1> HIDE DEF counted
<1>3. SetRateLimit(a, counted) /\ clock' = clock
  BY DEF Admit, counted
<1>4. /\ DOMAIN rateLimits' = DOMAIN rateLimits \cup {a}
      /\ \A x \in DOMAIN rateLimits' : rateLimits'[x] \in RateLimit
  BY <1>2, <1>3, SetLimit
<1>5. /\ Cardinality(InHandler') = Cardinality(InHandler)
      /\ requests' \in [Requests -> [step : Steps, from : SUBSET Anyone]]
  <2>1. requests[r] = [step |-> "entered", from |-> {a}]
    BY DEF Admit
  <2>2. requests' = [requests EXCEPT ![r].step = "admitted"]
    BY DEF Admit
  <2>3. requests[r].step # "none"
    BY <2>1
  <2>4. "admitted" \in Steps \ {"none"}
    BY DEF Steps
  <2> QED BY <2>2, <2>3, <2>4, StepsOn
<1>6. admitted' \in [Addresses -> Seq(0..MaxClock)]
  BY DEF Admit, TypeOK
<1> QED BY <1>4, <1>5, <1>6 DEF Admit, TypeOK

LEMMA RefuseType ==
    ASSUME TypeOK, NEW r \in Requests, NEW a \in Addresses, Refuse(r, a)
    PROVE  TypeOK'
<1>1. /\ DOMAIN rateLimits' = DOMAIN rateLimits \cup {a}
      /\ \A x \in DOMAIN rateLimits' : rateLimits'[x] \in RateLimit
  BY KnownType, SetLimit DEF Refuse
<1>2. /\ Cardinality(InHandler') = Cardinality(InHandler)
      /\ requests' \in [Requests -> [step : Steps, from : SUBSET Anyone]]
  <2>1. requests[r] = [step |-> "entered", from |-> {a}]
    BY DEF Refuse
  <2>2. requests' = [requests EXCEPT ![r].step = "leaving"]
    BY DEF Refuse
  <2>3. requests[r].step # "none"
    BY <2>1
  <2>4. "leaving" \in Steps \ {"none"}
    BY DEF Steps
  <2> QED BY <2>2, <2>3, <2>4, StepsOn
<1> QED BY <1>1, <1>2 DEF Refuse, TypeOK

LEMMA ExitType ==
    ASSUME TypeOK, Exit
    PROVE  TypeOK'
<1>1. InHandler' = {}
  BY DEF Exit, InHandler, NoRequest
<1>2. Cardinality(InHandler') = 0
  BY <1>1, FS_EmptySet
<1>3. requests' \in [Requests -> [step : Steps, from : SUBSET Anyone]]
  BY DEF Exit, NoRequest, Steps
<1> QED BY <1>2, <1>3, Bounds DEF Exit, TypeOK

LEMMA NextType == TypeOK /\ [Next]_vars => TypeOK'
<1> SUFFICES ASSUME TypeOK, [Next]_vars PROVE TypeOK'
  OBVIOUS
<1>1. CASE Listen \/ Stop \/ Shutdown
  BY <1>1, ListenType
<1>2. ASSUME NEW r \in Requests, NEW a \in Anyone, Enter(r, a) PROVE TypeOK'
  BY <1>2, EnterType
<1>3. ASSUME NEW r \in Requests, RequestStep(r) PROVE TypeOK'
  BY <1>3, HandleType, AdmitType, RefuseType, LeaveType DEF RequestStep
<1>4. CASE Exit
  BY <1>4, ExitType
<1>5. CASE Tick
  BY <1>5, TickType
<1>6. CASE UNCHANGED vars
  BY <1>6 DEF vars, TypeOK, InHandler
<1> QED BY <1>1, <1>2, <1>3, <1>4, <1>5, <1>6 DEF Next

(* The slots in use are the requests in a handler, and no more than there  *)
(* are, whichever way requests end; and every variable has its type.       *)
THEOREM TypeCorrect == Spec => []TypeOK
BY InitType, NextType, PTL DEF Spec

-----------------------------------------------------------------------------
(* The rate limit.                                                         *)

(* Nothing but a request of the address itself changes what its counter    *)
(* says; time does, for an address that has none, but then it has no       *)
(* request that passed.                                                    *)
LEMMA InitInv == Init => Inv
<1> SUFFICES ASSUME Init PROVE Inv
  OBVIOUS
<1>1. TypeOK
  BY InitType
<1>2. ASSUME NEW a \in Addresses
      PROVE  Fits(admitted[a], Known(a), clock) /\ Spread(admitted[a])
  <2>1. admitted[a] = <<>> /\ Known(a).lastReset = clock /\ clock = 0
    BY DEF Init, Known
  <2>2. Len(admitted[a]) = 0
    BY <2>1
  <2> QED BY <2>1, <2>2 DEF Fits, Spread
<1> QED BY <1>1, <1>2 DEF Inv

LEMMA AdmitInv ==
    ASSUME Inv, NEW r \in Requests, NEW a \in Addresses, Admit(r, a)
    PROVE  Inv'
<1>1. TypeOK /\ TypeOK'
  BY AdmitType DEF Inv
<1>2. /\ CurrentLimit(a) \in RateLimit /\ CurrentLimit(a).count < RequestsPerMin
      /\ Fits(admitted[a], CurrentLimit(a), clock) /\ Spread(admitted[a])
  BY <1>1, KnownType, CurrentFits DEF Admit, Inv
<1> DEFINE counted == [CurrentLimit(a) EXCEPT !.count = @ + 1]
<1>3. counted \in RateLimit
  BY <1>2, Bounds
<1>4. admitted[a] \in Seq(Nat) /\ clock \in Nat
  BY <1>1, Bounds DEF TypeOK
<1>5. Fits(Append(admitted[a], clock), counted, clock) /\ Spread(Append(admitted[a], clock))
  BY <1>2, <1>4, OneMore
<1>6. SetRateLimit(a, counted) /\ clock' = clock
  BY DEF Admit
<1> HIDE DEF counted
<1>7. Known(a)' = counted /\ \A x \in Addresses : x # a => Known(x)' = Known(x)
  BY <1>1, <1>3, <1>6, SetLimit
<1>8. /\ admitted'[a] = Append(admitted[a], clock)
      /\ \A x \in Addresses : x # a => admitted'[x] = admitted[x]
  BY <1>1 DEF Admit, TypeOK
<1>9. ASSUME NEW x \in Addresses
      PROVE  Fits(admitted'[x], Known(x)', clock') /\ Spread(admitted'[x])
  BY <1>5, <1>6, <1>7, <1>8 DEF Inv
<1> QED BY <1>1, <1>9 DEF Inv

LEMMA RefuseInv ==
    ASSUME Inv, NEW r \in Requests, NEW a \in Addresses, Refuse(r, a)
    PROVE  Inv'
<1>1. TypeOK /\ TypeOK'
  BY RefuseType DEF Inv
<1>2. CurrentLimit(a) \in RateLimit /\ Fits(admitted[a], CurrentLimit(a), clock)
  BY <1>1, KnownType, CurrentFits DEF Inv
<1>3. SetRateLimit(a, CurrentLimit(a)) /\ clock' = clock /\ admitted' = admitted
  BY DEF Refuse
<1>4. Known(a)' = CurrentLimit(a) /\ \A x \in Addresses : x # a => Known(x)' = Known(x)
  BY <1>1, <1>2, <1>3, SetLimit
<1>5. ASSUME NEW x \in Addresses
      PROVE  Fits(admitted'[x], Known(x)', clock') /\ Spread(admitted'[x])
  BY <1>2, <1>3, <1>4 DEF Inv
<1> QED BY <1>1, <1>5 DEF Inv

LEMMA TickInv ==
    ASSUME Inv, Tick
    PROVE  Inv'
<1>1. TypeOK /\ TypeOK'
  BY TickType DEF Inv
<1>2. clock \in Nat /\ clock' = clock + 1 /\ admitted' = admitted /\ rateLimits' = rateLimits
  BY <1>1, Bounds DEF TypeOK, Tick
<1>3. ASSUME NEW a \in Addresses
      PROVE  Fits(admitted'[a], Known(a)', clock') /\ Spread(admitted'[a])
  <2>1. admitted[a] \in Seq(Nat) /\ Known(a) \in RateLimit
        /\ Fits(admitted[a], Known(a), clock) /\ Spread(admitted[a])
    BY <1>1, KnownType, Bounds DEF TypeOK, Inv
  <2>2. Fits(admitted[a], Known(a), clock')
    BY <2>1, <1>2, LaterFits
  <2>3. CASE a \in DOMAIN rateLimits
    BY <2>1, <2>2, <2>3, <1>2 DEF Known
  <2>4. CASE a \notin DOMAIN rateLimits
    <3>1. /\ Known(a).count = 0 /\ Known(a)'.count = 0
          /\ Known(a).lastReset = clock /\ Known(a)'.lastReset = clock + 1
      BY <2>4, <1>2 DEF Known
    <3> DEFINE times == admitted[a]
    <3> HIDE DEF times
    <3>2. Len(times) \in Nat /\ \A i \in 1..Len(times) : times[i] \in Nat
      BY <2>1 DEF times
    <3>3. Fits(times, Known(a)', clock')
      BY SMTT(30), <2>1, <3>1, <3>2, <1>2, Bounds DEF Fits, times
    <3> QED BY <2>1, <3>3, <1>2 DEF times
  <2> QED BY <2>3, <2>4
<1> QED BY <1>1, <1>3 DEF Inv

LEMMA NextInv == Inv /\ [Next]_vars => Inv'
<1> SUFFICES ASSUME Inv, [Next]_vars PROVE Inv'
  OBVIOUS
<1>1. TypeOK'
  BY NextType DEF Inv
<1>2. CASE UNCHANGED <<rateLimits, clock, admitted>>
  BY <1>1, <1>2 DEF Inv, Known
<1>3. CASE Tick
  BY <1>3, TickInv
<1>4. ASSUME NEW r \in Requests, RequestStep(r), ~UNCHANGED <<rateLimits, clock, admitted>>
      PROVE  Inv'
  BY <1>4, AdmitInv, RefuseInv DEF RequestStep, Health, AdmitLocalhost, Handle, Leave
<1> QED BY <1>2, <1>3, <1>4 DEF Next, vars, Listen, Enter, Stop, Shutdown, Exit

LEMMA InvSpread == Inv => AtMostTwicePerMinute
BY DEF Inv, Spread, AtMostTwicePerMinute

(* For any rate limit, any length of a period and any requests, no minute  *)
(* sees more than twice the limit of an address.                           *)
THEOREM TwiceAtMost == Spec => []AtMostTwicePerMinute
BY InitInv, NextInv, InvSpread, PTL DEF Spec
=============================================================================
