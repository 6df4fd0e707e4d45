------------------------------ MODULE RpcServer ------------------------------
(***************************************************************************)
(* The HTTP side of the node's RPC server (rpc/server_v2.go): the slots of *)
(* limitConnections, the rate limit of each address, the goroutine of each *)
(* request, and the shutdown that NodeV2.Stop begins and does not wait for *)
(* (cmd/kalon-node-v2/main.go).  What the methods do is in ChainStore and  *)
(* Ledger; here they take some time, and may panic.  The map connections,  *)
(* which nothing reads, is left out, and so is the whitelist, which nothing*)
(* fills.                                                                  *)
(*                                                                         *)
(* Definitions named X_Y are X with one mistake: each shows that a property*)
(* notices it, and no specification uses them.                             *)
(***************************************************************************)
EXTENDS Integers, Sequences, FiniteSets

CONSTANTS
    Addresses,       \* what extractIP finds in requests, without localhost
    Localhost,       \* and the addresses of localhost
    MaxConnections,  \* requests at a time: 50 in the code
    RequestsPerMin,  \* requests of an address before its counter is reset: 600
    Minute,          \* a minute, in ticks of the clock
    Requests,        \* bound: goroutines for requests
    MaxClock         \* bound: the last tick

ASSUME RpcServerAssumption ==
    /\ MaxConnections \in Nat \ {0} /\ RequestsPerMin \in Nat \ {0}
    /\ Minute \in Nat \ {0} /\ MaxClock \in Nat
    /\ Addresses \cap Localhost = {}
    /\ IsFiniteSet(Requests)

VARIABLES
    server,      \* "starting", "listening", "failed", "stopping", "draining" or "exited"
    semaphore,   \* slots in use
    requests,    \* for each goroutine, its step and the address it serves
    rateLimits,  \* Count and LastReset of the addresses that have a RateLimit
    clock,
    admitted     \* history: when checkRateLimit let requests of an address pass

vars == <<server, semaphore, requests, rateLimits, clock, admitted>>

Steps == {"none", "entered", "admitted", "leaving"}
Anyone == Addresses \cup Localhost
RateLimit == [count : 0..RequestsPerMin, lastReset : 0..MaxClock]
NoRequest == [step |-> "none", from |-> {}]
InHandler == {r \in Requests : requests[r].step # "none"}

Init ==
    /\ server = "starting"
    /\ semaphore = 0
    /\ requests = [r \in Requests |-> NoRequest]
    /\ rateLimits = [a \in {} |-> [count |-> 0, lastReset |-> 0]]
    /\ clock = 0
    /\ admitted = [a \in Addresses |-> <<>>]

-----------------------------------------------------------------------------
(* ServerV2.Start: it returns whether or not the goroutine of              *)
(* ListenAndServe could bind, of which only the log tells.                 *)
Listen ==
    /\ server = "starting"
    /\ server' \in {"listening", "failed"}
    /\ UNCHANGED <<semaphore, requests, rateLimits, clock, admitted>>

(* limitConnections, for a new request.  Without a slot it is answered with*)
(* "Too many connections" at once.                                         *)
Enter(r, a) ==
    /\ server \in {"listening", "stopping"}
    /\ requests[r].step = "none"
    /\ semaphore < MaxConnections
    /\ semaphore' = semaphore + 1
    /\ requests' = [requests EXCEPT ![r] = [step |-> "entered", from |-> {a}]]
    /\ UNCHANGED <<server, rateLimits, clock, admitted>>

(* handleHealth has no rate limit.                                         *)
Health(r) ==
    /\ requests[r].step = "entered"
    /\ requests' = [requests EXCEPT ![r].step = "leaving"]
    /\ UNCHANGED <<server, semaphore, rateLimits, clock, admitted>>

Known(a) ==
    IF a \in DOMAIN rateLimits THEN rateLimits[a]
                               ELSE [count |-> 0, lastReset |-> clock]

CurrentLimit_SamePeriod(a) ==
    IF clock - Known(a).lastReset > Minute
      THEN [Known(a) EXCEPT !.count = 0] ELSE Known(a)

(* The counter of this address, reset when more than a minute has passed.  *)
CurrentLimit(a) ==
    IF clock - Known(a).lastReset > Minute
      THEN [count |-> 0, lastReset |-> clock] ELSE Known(a)

SetRateLimit(a, limit) ==
    rateLimits' = [x \in DOMAIN rateLimits \cup {a} |->
                      IF x = a THEN limit ELSE rateLimits[x]]

(* checkRateLimit, under s.mu.                                             *)
Admit(r, a) ==
    /\ requests[r] = [step |-> "entered", from |-> {a}]
    /\ CurrentLimit(a).count < RequestsPerMin
    /\ SetRateLimit(a, [CurrentLimit(a) EXCEPT !.count = @ + 1])
    /\ admitted' = [admitted EXCEPT ![a] = Append(@, clock)]
    /\ requests' = [requests EXCEPT ![r].step = "admitted"]
    /\ UNCHANGED <<server, semaphore, clock>>

(* "Too many requests".                                                    *)
Refuse(r, a) ==
    /\ requests[r] = [step |-> "entered", from |-> {a}]
    /\ CurrentLimit(a).count >= RequestsPerMin
    /\ SetRateLimit(a, CurrentLimit(a))
    /\ requests' = [requests EXCEPT ![r].step = "leaving"]
    /\ UNCHANGED <<server, semaphore, clock, admitted>>

AdmitLocalhost(r) ==
    /\ requests[r].step = "entered" /\ requests[r].from \subseteq Localhost
    /\ requests' = [requests EXCEPT ![r].step = "admitted"]
    /\ UNCHANGED <<server, semaphore, rateLimits, clock, admitted>>

(* The rest of handleRequest: an answer, a parse error (also when the body *)
(* has not come within ReadTimeout), or a panic that handleRequest recovers*)
(* from.                                                                   *)
Handle(r) ==
    /\ requests[r].step = "admitted"
    /\ requests' = [requests EXCEPT ![r].step = "leaving"]
    /\ UNCHANGED <<server, semaphore, rateLimits, clock, admitted>>

Leave_KeepsSlot(r) ==
    /\ requests[r].step = "leaving"
    /\ requests' = [requests EXCEPT ![r] = NoRequest]
    /\ UNCHANGED <<server, semaphore, rateLimits, clock, admitted>>

(* The deferred receive of limitConnections.                               *)
Leave(r) ==
    /\ requests[r].step = "leaving"
    /\ semaphore' = semaphore - 1
    /\ requests' = [requests EXCEPT ![r] = NoRequest]
    /\ UNCHANGED <<server, rateLimits, clock, admitted>>

RequestStep(r) ==
    \/ Health(r)
    \/ \E a \in Addresses : Admit(r, a) \/ Refuse(r, a)
    \/ AdmitLocalhost(r)
    \/ Handle(r)
    \/ Leave(r)

-----------------------------------------------------------------------------
(* ServerV2.Stop only cancels a context.                                   *)
Stop ==
    /\ server = "listening"
    /\ server' = "stopping"
    /\ UNCHANGED <<semaphore, requests, rateLimits, clock, admitted>>

(* The goroutine that waits for this calls Shutdown: no new requests.      *)
Shutdown ==
    /\ server = "stopping"
    /\ server' = "draining"
    /\ UNCHANGED <<semaphore, requests, rateLimits, clock, admitted>>

(* NodeV2.Stop and then main return, and requests end where they are.      *)
Exit ==
    /\ server \in {"stopping", "draining"}
    /\ server' = "exited"
    /\ semaphore' = 0
    /\ requests' = [r \in Requests |-> NoRequest]
    /\ UNCHANGED <<rateLimits, clock, admitted>>

Tick ==
    /\ clock < MaxClock
    /\ clock' = clock + 1
    /\ UNCHANGED <<server, semaphore, requests, rateLimits, admitted>>

Next ==
    \/ Listen
    \/ \E r \in Requests, a \in Anyone : Enter(r, a)
    \/ \E r \in Requests : RequestStep(r)
    \/ Stop
    \/ Shutdown
    \/ Exit
    \/ Tick

Spec == Init /\ [][Next]_vars

(* The goroutine of a request goes on: methods return, and reading the body*)
(* and writing the answer have timeouts.                                   *)
FairSpec == Spec /\ \A r \in Requests : WF_vars(RequestStep(r))

-----------------------------------------------------------------------------
(* Properties.                                                             *)

(* Variables have their types, and there are as many slots in use as       *)
(* requests in a handler, never more than the limit.                       *)
TypeOK ==
    /\ server \in {"starting", "listening", "failed", "stopping", "draining", "exited"}
    /\ semaphore = Cardinality(InHandler) /\ semaphore <= MaxConnections
    /\ requests \in [Requests -> [step : Steps, from : SUBSET Anyone]]
    /\ DOMAIN rateLimits \subseteq Addresses
    /\ \A a \in DOMAIN rateLimits : rateLimits[a] \in RateLimit
    /\ clock \in 0..MaxClock
    /\ admitted \in [Addresses -> Seq(0..MaxClock)]

(* Within any minute, wherever it begins, an address gets at most twice the*)
(* requests of its limit: the counter is reset at fixed times, so that one *)
(* minute can meet two of its periods, and never three (server_v2.go:1107).*)
AtMostTwicePerMinute ==
    \A a \in Addresses : \A i \in 1..Len(admitted[a]) :
        i + 2 * RequestsPerMin <= Len(admitted[a])
            => admitted[a][i + 2 * RequestsPerMin] - admitted[a][i] > Minute

(* A server that turns requests away because all slots are in use has room *)
(* again, whatever became of the requests that had them.                   *)
RoomAgain == semaphore = MaxConnections ~> semaphore < MaxConnections
=============================================================================
