-------------------------- MODULE P2PNetwork_proofs --------------------------
(***************************************************************************)
(* Proofs about P2PNetwork, for any number of addresses and connections:   *)
(* the table of peers lists those that are served, and Stop reaches all of *)
(* them.                                                                   *)
(***************************************************************************)
EXTENDS P2PNetwork, TLAPS

(* The part of TypeOK about the goroutines of Start.                       *)
LoopsOK ==
    /\ accept \in {"select", "accept", "failed", "ended"}
    /\ discover \in {"running", "ended"}
    /\ maintain \in {"running", "ended"}

(* The goroutine of the connection is between addPeer and removePeer.      *)
Live(c) == Served(c) \/ conns[c].step = "remove"

(* Before Stop has returned, and apart from IDs that were cleaned up: a    *)
(* connection is open until its goroutine ends, in the table from addPeer  *)
(* to removePeer, the only one of its ID, and none of a seed node that is  *)
(* still to be dialled is on its way to addPeer.                           *)
ConnInv ==
    stop # "returned" =>
        \A c \in Conns : conns[c].id \notin cleaned =>
            /\ conns[c].step # "ended" => conns[c].open
            /\ Live(c) => conns[c].id \in DOMAIN peers /\ peers[conns[c].id] = c
            /\ conns[c].id \in toDial => conns[c].step # "add"

CloseInv == \A c \in Conns : conns[c].step = "close" => conns[c].id \in Remotes

Inv ==
    /\ TypeOK
    /\ CloseInv
    /\ ConnInv
    /\ ListedIsServed
    /\ OneConnectionPerID
    /\ StopClosesReaders

-----------------------------------------------------------------------------
(* What steps do to conns.                                                 *)

(* A sequence with one element replaced.                                   *)
LEMMA SeqExcept ==
    ASSUME NEW S, NEW s \in Seq(S), NEW i \in 1..Len(s), NEW e \in S
    PROVE  [s EXCEPT ![i] = e] \in Seq(S) /\ Len([s EXCEPT ![i] = e]) = Len(s)
OBVIOUS

(* What TypeOK says of a connection.                                       *)
LEMMA ConnectionType ==
    ASSUME TypeOK, NEW c \in Conns
    PROVE  conns[c].id \in Addresses /\ conns[c].step \in Steps /\ conns[c].open \in BOOLEAN
<1>1. conns[c] \in Connection
  BY DEF TypeOK, Conns
<1> QED BY <1>1 DEF Connection

(* A step of one connection leaves the others, and its ID, as they are.    *)
LEMMA OneConnection ==
    ASSUME TypeOK, NEW c \in Conns, NEW step \in Steps, NEW open \in BOOLEAN,
           conns' = [conns EXCEPT ![c].step = step, ![c].open = open]
    PROVE  /\ conns' \in Seq(Connection) /\ Len(conns') = Len(conns)
           /\ \A d \in Conns : d # c => conns'[d] = conns[d]
           /\ conns'[c].id = conns[c].id /\ conns'[c].step = step /\ conns'[c].open = open
<1>1. conns \in [1..Len(conns) -> Connection] /\ Len(conns) \in Nat
  BY DEF TypeOK
<1>2. conns[c] \in Connection
  BY <1>1 DEF Conns
<1>3. [conns[c] EXCEPT !.step = step, !.open = open] \in Connection
  BY <1>2 DEF Connection
<1>4. conns' = [conns EXCEPT ![c] = [conns[c] EXCEPT !.step = step, !.open = open]]
  BY <1>1, <1>2 DEF Connection, Conns
<1>5. conns' \in Seq(Connection) /\ Len(conns') = Len(conns)
  BY <1>3, <1>4, SeqExcept DEF TypeOK, Conns
<1> QED BY <1>1, <1>2, <1>4, <1>5 DEF Conns, Connection

LEMMA OneStep ==
    ASSUME TypeOK, NEW c \in Conns, NEW step \in Steps, GoTo(c, step)
    PROVE  /\ conns' \in Seq(Connection) /\ Len(conns') = Len(conns)
           /\ \A d \in Conns : d # c => conns'[d] = conns[d]
           /\ conns'[c].id = conns[c].id /\ conns'[c].step = step
           /\ conns'[c].open = conns[c].open
<1>1. conns \in [1..Len(conns) -> Connection] /\ Len(conns) \in Nat
  BY DEF TypeOK
<1>2. conns[c] \in Connection
  BY <1>1 DEF Conns
<1>3. [conns[c] EXCEPT !.step = step] \in Connection
  BY <1>2 DEF Connection
<1>4. conns' = [conns EXCEPT ![c] = [conns[c] EXCEPT !.step = step]]
  BY DEF GoTo
<1>5. conns' \in Seq(Connection) /\ Len(conns') = Len(conns)
  BY <1>3, <1>4, SeqExcept DEF TypeOK, Conns
<1> QED BY <1>1, <1>2, <1>4, <1>5 DEF Conns, Connection

(* A new connection leaves the others as they are.                         *)
LEMMA OneMore ==
    ASSUME TypeOK, NEW a \in Addresses, Len(conns) < MaxConns,
           conns' = Append(conns, NewConnection(a))
    PROVE  /\ conns' \in Seq(Connection) /\ Len(conns') = Len(conns) + 1
           /\ Len(conns) \in Nat /\ Len(conns') <= MaxConns
           /\ \A d \in Conns : conns'[d] = conns[d]
           /\ conns'[Len(conns) + 1] = NewConnection(a)
<1>1. NewConnection(a) \in Connection
  BY DEF NewConnection, Connection, Steps
<1> QED BY <1>1, NetworkAssumption DEF TypeOK, Conns

(* Closing some connections changes nothing else of any.                   *)
LEMMA SomeClosed ==
    ASSUME TypeOK, NEW kept,
           conns' = [c \in Conns |-> [conns[c] EXCEPT !.open = @ /\ c \in kept]]
    PROVE  /\ conns' \in Seq(Connection) /\ Len(conns') = Len(conns)
           /\ \A c \in Conns : /\ conns'[c].id = conns[c].id
                               /\ conns'[c].step = conns[c].step
                               /\ conns'[c].open = (conns[c].open /\ c \in kept)
<1>1. conns \in [1..Len(conns) -> Connection] /\ Len(conns) \in Nat
  BY DEF TypeOK
<1>2. \A c \in Conns : conns[c] \in Connection
  BY <1>1 DEF Conns
<1>3. \A c \in Conns : [conns[c] EXCEPT !.open = @ /\ c \in kept] \in Connection
  BY <1>2 DEF Connection
<1>4. conns' \in Seq(Connection) /\ Len(conns') = Len(conns)
  BY <1>1, <1>3 DEF Conns
<1> QED BY <1>2, <1>4 DEF Connection

-----------------------------------------------------------------------------
(* Every step keeps the invariant.                                         *)

LEMMA InitInv ==
    ASSUME Init
    PROVE  Inv
BY NetworkAssumption
   DEF Init, Inv, TypeOK, CloseInv, ConnInv, ListedIsServed, OneConnectionPerID,
       StopClosesReaders, Conns, Addresses

(* A goroutine between addPeer and removePeer takes its next step.         *)
LEMMA PeerGoesOn ==
    ASSUME Inv, NEW c \in Conns, NEW step \in {"select", "read", "forward", "remove"},
           Live(c), GoTo(c, step),
           UNCHANGED <<background, peers>>, blocks' \in 0..BlockChanSize,
           step = "read" => stop = "no",
           step = "forward" => conns[c].step = "read"
    PROVE  Inv'
<1>0. conns[c].step \in {"select", "read", "forward", "remove"}
  BY DEF Live, Served
<1>1. /\ conns' \in Seq(Connection) /\ Len(conns') = Len(conns)
      /\ \A d \in Conns : d # c => conns'[d] = conns[d]
      /\ conns'[c].id = conns[c].id /\ conns'[c].step = step
      /\ conns'[c].open = conns[c].open
  BY OneStep DEF Inv, Steps
<1>2. Conns' = Conns /\ \A d \in Conns : conns'[d].id = conns[d].id
  BY <1>1 DEF Conns
<1>3. \A d \in Conns : Live(d)' <=> Live(d)
  BY <1>1, <1>2 DEF Live, Served
<1>4. TypeOK'
  BY <1>1, <1>2 DEF Inv, TypeOK, background, calls, loops
<1>5. CloseInv'
  BY <1>1, <1>2 DEF Inv, CloseInv
<1>6. ConnInv'
  <2>1. SUFFICES ASSUME stop # "returned", NEW d \in Conns, conns[d].id \notin cleaned
                 PROVE  /\ conns'[d].step # "ended" => conns'[d].open
                        /\ Live(d)' => conns'[d].id \in DOMAIN peers /\ peers[conns'[d].id] = d
                        /\ conns[d].id \in toDial => conns'[d].step # "add"
    BY <1>2 DEF ConnInv, background, calls, loops
  <2>2. CASE d = c
    BY <1>0, <1>1, <1>3, <2>1, <2>2 DEF Inv, ConnInv
  <2>3. CASE d # c
    BY <1>1, <1>3, <2>1, <2>3 DEF Inv, ConnInv
  <2> QED BY <2>2, <2>3
<1>7. ListedIsServed'
  BY <1>2, <1>3 DEF Inv, ListedIsServed, Live, TypeOK
<1>8. OneConnectionPerID'
  <2>1. \A d \in Conns : conns[d].step = "ended" => conns'[d].step = "ended"
    BY <1>0, <1>1
  <2> QED BY <1>2, <2>1 DEF Inv, OneConnectionPerID, IDWasCleaned, background, calls, loops
<1>9. StopClosesReaders'
  BY <1>1, <1>2 DEF Inv, StopClosesReaders, IDWasCleaned, background, calls, loops
<1> QED BY <1>4, <1>5, <1>6, <1>7, <1>8, <1>9 DEF Inv

(* A goroutine that is not in the table ends.                              *)
LEMMA ConnectionEnds ==
    ASSUME Inv, NEW c \in Conns, DialFails(c) \/ Close(c)
    PROVE  Inv'
<1>0. conns[c].step \in {"add", "close"} /\ UNCHANGED <<background, peers, blocks>>
  BY DEF DialFails, Close
<1>1. /\ conns' \in Seq(Connection) /\ Len(conns') = Len(conns)
      /\ \A d \in Conns : d # c => conns'[d] = conns[d]
      /\ conns'[c].id = conns[c].id /\ conns'[c].step = "ended" /\ ~conns'[c].open
  BY OneConnection DEF Inv, Steps, DialFails, Close
<1>2. Conns' = Conns /\ \A d \in Conns : conns'[d].id = conns[d].id
  BY <1>1 DEF Conns
<1>3. \A d \in Conns : Live(d)' <=> Live(d)
  BY <1>0, <1>1, <1>2 DEF Live, Served
<1>4. TypeOK'
  BY <1>0, <1>1, <1>2 DEF Inv, TypeOK, background, calls, loops
<1>5. CloseInv'
  BY <1>0, <1>1, <1>2 DEF Inv, CloseInv
<1>6. ConnInv'
  <2>1. SUFFICES ASSUME stop # "returned", NEW d \in Conns, conns[d].id \notin cleaned
                 PROVE  /\ conns'[d].step # "ended" => conns'[d].open
                        /\ Live(d)' => conns'[d].id \in DOMAIN peers /\ peers[conns'[d].id] = d
                        /\ conns[d].id \in toDial => conns'[d].step # "add"
    BY <1>0, <1>2 DEF ConnInv, background, calls, loops
  <2>2. CASE d = c
    BY <1>0, <1>1, <1>3, <2>1, <2>2 DEF Inv, ConnInv
  <2>3. CASE d # c
    BY <1>1, <1>3, <2>1, <2>3 DEF Inv, ConnInv
  <2> QED BY <2>2, <2>3
<1>7. ListedIsServed'
  BY <1>0, <1>2, <1>3 DEF Inv, ListedIsServed, Live, TypeOK
<1>8. OneConnectionPerID'
  <2>1. \A d \in Conns : conns[d].step = "ended" => conns'[d].step = "ended"
    BY <1>0, <1>1
  <2> QED BY <1>0, <1>2, <2>1 DEF Inv, OneConnectionPerID, IDWasCleaned, background, calls, loops
<1>9. StopClosesReaders'
  <2>1. \A d \in Conns : conns'[d].step \in {"read", "forward"} /\ conns'[d].open =>
           conns[d].step \in {"read", "forward"} /\ conns[d].open
    BY <1>1
  <2> QED BY <1>0, <1>2, <2>1 DEF Inv, StopClosesReaders, IDWasCleaned, background, calls, loops
<1> QED BY <1>4, <1>5, <1>6, <1>7, <1>8, <1>9 DEF Inv

(* addPeer takes the place only of connections whose ID was cleaned up.    *)
LEMMA AddPeerStep ==
    ASSUME Inv, NEW c \in Conns, AddPeer(c)
    PROVE  Inv'
<1>1. /\ conns' \in Seq(Connection) /\ Len(conns') = Len(conns)
      /\ \A d \in Conns : d # c => conns'[d] = conns[d]
      /\ conns'[c].id = conns[c].id /\ conns'[c].step = "select"
      /\ conns'[c].open = conns[c].open
  BY OneStep DEF Inv, AddPeer, Steps
<1>2. Conns' = Conns /\ \A d \in Conns : conns'[d].id = conns[d].id
  BY <1>1 DEF Conns
<1>3. UNCHANGED <<background, blocks>> /\ conns[c].step = "add"
  BY DEF AddPeer
<1>4. /\ DOMAIN peers' = DOMAIN peers \cup {conns[c].id}
      /\ peers'[conns[c].id] = c
      /\ \A id \in DOMAIN peers : id # conns[c].id => peers'[id] = peers[id]
  BY DEF AddPeer
<1>5. conns[c].id \in Addresses
  BY ConnectionType DEF Inv
<1>6. TypeOK'
  BY <1>1, <1>2, <1>3, <1>4, <1>5 DEF Inv, TypeOK, background, calls, loops
<1>7. CloseInv'
  BY <1>1, <1>2 DEF Inv, CloseInv
<1>8. ConnInv'
  <2>1. SUFFICES ASSUME stop # "returned", NEW d \in Conns, conns[d].id \notin cleaned
                 PROVE  /\ conns'[d].step # "ended" => conns'[d].open
                        /\ Live(d)' => conns'[d].id \in DOMAIN peers' /\ peers'[conns'[d].id] = d
                        /\ conns[d].id \in toDial => conns'[d].step # "add"
    BY <1>2, <1>3 DEF ConnInv, background, calls, loops
  <2>2. CASE d = c
    BY <1>1, <1>3, <1>4, <2>1, <2>2 DEF Inv, ConnInv
  <2>3. CASE d # c
    <3>1. conns[d].id = conns[c].id => conns[d].step = "ended"
      BY <1>3, <2>1, <2>3 DEF Inv, OneConnectionPerID, IDWasCleaned
    <3> QED BY <1>1, <1>4, <2>1, <2>3, <3>1 DEF Inv, ConnInv, Live, Served
  <2> QED BY <2>2, <2>3
<1>9. ListedIsServed'
  BY <1>1, <1>2, <1>3, <1>4 DEF Inv, ListedIsServed, Served, TypeOK
<1>10. OneConnectionPerID'
  BY <1>1, <1>2, <1>3 DEF Inv, OneConnectionPerID, IDWasCleaned, background, calls, loops
<1>11. StopClosesReaders'
  BY <1>1, <1>2, <1>3 DEF Inv, StopClosesReaders, IDWasCleaned, background, calls, loops
<1> QED BY <1>6, <1>7, <1>8, <1>9, <1>10, <1>11 DEF Inv

(* removePeer removes no other connection, unless its ID was cleaned up.   *)
LEMMA RemovePeerStep ==
    ASSUME Inv, NEW c \in Conns, RemovePeer(c)
    PROVE  Inv'
<1> DEFINE next == IF conns[c].id \in Remotes THEN "close" ELSE "ended"
<1>1. /\ conns' \in Seq(Connection) /\ Len(conns') = Len(conns)
      /\ \A d \in Conns : d # c => conns'[d] = conns[d]
      /\ conns'[c].id = conns[c].id /\ conns'[c].step = next
      /\ conns'[c].open = conns[c].open
  BY OneStep DEF Inv, RemovePeer, Steps
<1>2. Conns' = Conns /\ \A d \in Conns : conns'[d].id = conns[d].id
  BY <1>1 DEF Conns
<1>3. UNCHANGED <<background, blocks>> /\ conns[c].step = "remove"
  BY DEF RemovePeer
<1>4. /\ DOMAIN peers' = DOMAIN peers \ {conns[c].id}
      /\ \A id \in DOMAIN peers' : peers'[id] = peers[id]
  BY DEF RemovePeer, Restrict
<1>5. TypeOK'
  BY <1>1, <1>2, <1>3, <1>4 DEF Inv, TypeOK, background, calls, loops
<1>6. CloseInv'
  BY <1>1, <1>2 DEF Inv, CloseInv
<1>7. ConnInv'
  <2>1. SUFFICES ASSUME stop # "returned", NEW d \in Conns, conns[d].id \notin cleaned
                 PROVE  /\ conns'[d].step # "ended" => conns'[d].open
                        /\ Live(d)' => conns'[d].id \in DOMAIN peers' /\ peers'[conns'[d].id] = d
                        /\ conns[d].id \in toDial => conns'[d].step # "add"
    BY <1>2, <1>3 DEF ConnInv, background, calls, loops
  <2>2. CASE d = c
    BY <1>1, <1>3, <2>1, <2>2 DEF Inv, ConnInv, Live, Served
  <2>3. CASE d # c
    <3>1. conns[d].id = conns[c].id => conns[d].step = "ended"
      BY <1>3, <2>1, <2>3 DEF Inv, OneConnectionPerID, IDWasCleaned
    <3> QED BY <1>1, <1>4, <2>1, <2>3, <3>1 DEF Inv, ConnInv, Live, Served
  <2> QED BY <2>2, <2>3
<1>8. ListedIsServed'
  <2>1. \A id \in DOMAIN peers' : peers[id] # c
    BY <1>4 DEF Inv, TypeOK
  <2> QED BY <1>1, <1>4, <2>1 DEF Inv, ListedIsServed, Served, TypeOK
<1>9. OneConnectionPerID'
  BY <1>1, <1>2, <1>3 DEF Inv, OneConnectionPerID, IDWasCleaned, background, calls, loops
<1>10. StopClosesReaders'
  BY <1>1, <1>2, <1>3 DEF Inv, StopClosesReaders, IDWasCleaned, background, calls, loops
<1> QED BY <1>5, <1>6, <1>7, <1>8, <1>9, <1>10 DEF Inv

(* An address that connects, or is dialled, has no goroutine left, unless  *)
(* its ID was cleaned up.                                                  *)
LEMMA NewConnectionStep ==
    ASSUME Inv, NEW a \in Addresses, Len(conns) < MaxConns,
           conns' = Append(conns, NewConnection(a)),
           UNCHANGED <<calls, cleaned, peers, blocks>>, LoopsOK',
           toDial' \subseteq toDial \ {a} \/ (toDial' = toDial /\ a \notin SeedNodes),
           stop # "returned" =>
              \A c \in Conns : conns[c].id = a => conns[c].step = "ended" \/ a \in cleaned
    PROVE  Inv'
<1> DEFINE n == Len(conns) + 1
<1>1. /\ conns' \in Seq(Connection) /\ Len(conns') = n /\ Len(conns') <= MaxConns
      /\ \A d \in Conns : conns'[d] = conns[d]
      /\ conns'[n].id = a /\ conns'[n].step = "add" /\ conns'[n].open
  <2>1. NewConnection(a).id = a /\ NewConnection(a).step = "add" /\ NewConnection(a).open
    BY DEF NewConnection
  <2> QED BY <2>1, OneMore DEF Inv
<1>2. Conns' = Conns \cup {n} /\ n \notin Conns
  BY OneMore DEF Inv, Conns
<1>3. toDial' \subseteq toDial /\ a \notin toDial'
  BY DEF Inv, TypeOK
<1> HIDE DEF n
<1>4. TypeOK'
  BY <1>1, <1>2, <1>3 DEF calls, loops, LoopsOK, Inv, TypeOK
<1>5. CloseInv'
  BY <1>1, <1>2 DEF Inv, CloseInv
<1>6. ConnInv'
  <2>1. SUFFICES ASSUME stop # "returned", NEW d \in Conns', conns'[d].id \notin cleaned
                 PROVE  /\ conns'[d].step # "ended" => conns'[d].open
                        /\ Live(d)' => conns'[d].id \in DOMAIN peers /\ peers[conns'[d].id] = d
                        /\ conns'[d].id \in toDial' => conns'[d].step # "add"
    BY DEF calls, loops, ConnInv
  <2>2. CASE d = n
    BY <1>1, <1>3, <2>2 DEF Live, Served
  <2>3. CASE d \in Conns
    <3>1. conns'[d] = conns[d]
      BY <1>1, <2>3
    <3>2. /\ conns[d].step # "ended" => conns[d].open
          /\ Live(d) => conns[d].id \in DOMAIN peers /\ peers[conns[d].id] = d
          /\ conns[d].id \in toDial => conns[d].step # "add"
      BY <2>1, <2>3, <3>1 DEF Inv, ConnInv
    <3>3. Live(d)' <=> Live(d)
      BY <3>1 DEF Live, Served
    <3> QED BY <1>3, <3>1, <3>2, <3>3
  <2> QED BY <1>2, <2>2, <2>3
<1>7. ListedIsServed'
  <2>1. SUFFICES ASSUME NEW id \in DOMAIN peers
                 PROVE  conns'[peers[id]].step \in {"select", "read", "forward", "remove"}
    BY DEF ListedIsServed, Served
  <2>2. conns[peers[id]].step \in {"select", "read", "forward", "remove"}
    BY DEF Inv, ListedIsServed, Served
  <2>3. conns'[peers[id]] = conns[peers[id]]
    BY <1>1 DEF Inv, TypeOK
  <2> QED BY <2>2, <2>3
<1>8. OneConnectionPerID'
  <2>1. SUFFICES ASSUME stop # "returned", NEW c \in Conns', NEW d \in Conns',
                        c # d, conns'[c].id = conns'[d].id
                 PROVE  \/ conns'[c].step = "ended" \/ conns'[d].step = "ended"
                        \/ conns'[c].id \in cleaned
    BY DEF calls, loops, OneConnectionPerID, IDWasCleaned
  <2>2. CASE c = n \/ d = n
    BY <1>1, <1>2, <2>1, <2>2
  <2>3. CASE c \in Conns /\ d \in Conns
    <3>1. conns'[c] = conns[c] /\ conns'[d] = conns[d]
      BY <1>1, <2>3
    <3>2. \/ conns[c].step = "ended" \/ conns[d].step = "ended"
          \/ conns[c].id \in cleaned
      BY <2>1, <2>3, <3>1 DEF Inv, OneConnectionPerID, IDWasCleaned
    <3> QED BY <3>1, <3>2
  <2> QED BY <1>2, <2>2, <2>3
<1>9. StopClosesReaders'
  BY <1>1, <1>2 DEF calls, loops, Inv, StopClosesReaders, IDWasCleaned
<1> QED BY <1>4, <1>5, <1>6, <1>7, <1>8, <1>9 DEF calls, loops, Inv

LEMMA AcceptStep ==
    ASSUME Inv, NEW a \in Remotes, Accept(a)
    PROVE  Inv'
<1>1. a \in Addresses /\ a \notin SeedNodes
  BY NetworkAssumption DEF Addresses
<1>2. stop # "returned" =>
         \A c \in Conns : conns[c].id = a => conns[c].step = "ended" \/ a \in cleaned
  BY DEF Accept, Inv, ConnInv
<1>3. LoopsOK'
  BY DEF Accept, LoopsOK, Inv, TypeOK
<1> QED BY <1>1, <1>2, <1>3, NewConnectionStep DEF Accept

LEMMA ConnectToSeedStep ==
    ASSUME Inv, NEW a \in SeedNodes, ConnectToSeed(a)
    PROVE  Inv'
<1>1. CASE UNCHANGED conns
  <2>1. toDial' \subseteq toDial /\ UNCHANGED <<calls, loops, cleaned, conns, peers, blocks>>
    BY <1>1 DEF ConnectToSeed
  <2>2. Conns' = Conns
    BY <2>1 DEF Conns
  <2>3. TypeOK'
    BY <2>1, <2>2 DEF calls, loops, LoopsOK, Inv, TypeOK
  <2>4. ConnInv'
    BY <2>1, <2>2 DEF calls, loops, Inv, ConnInv, Live, Served
  <2> QED BY <2>1, <2>2, <2>3, <2>4
          DEF calls, Inv, CloseInv, ListedIsServed, Served, OneConnectionPerID,
              StopClosesReaders, IDWasCleaned
<1>2. CASE a \notin DOMAIN peers /\ Len(conns) < MaxConns /\ conns' = Append(conns, NewConnection(a))
  <2>1. ASSUME stop # "returned", NEW c \in Conns, conns[c].id = a, a \notin cleaned
        PROVE  conns[c].step = "ended"
    <3>1. conns[c].step # "add" /\ ~Live(c)
      BY <1>2, <2>1 DEF ConnectToSeed, Inv, ConnInv
    <3>2. conns[c].step # "close"
      BY <2>1, NetworkAssumption DEF Inv, CloseInv
    <3> QED BY <3>1, <3>2, ConnectionType DEF Inv, Live, Served, Steps
  <2>2. /\ UNCHANGED <<calls, cleaned, peers, blocks>> /\ LoopsOK'
        /\ toDial' \subseteq toDial \ {a} /\ a \in Addresses
    BY DEF ConnectToSeed, Addresses, Inv, TypeOK, loops, LoopsOK
  <2> QED BY <1>2, <2>1, <2>2, NewConnectionStep
<1> QED BY <1>1, <1>2 DEF calls, loops, ConnectToSeed

(* A tick of discoverPeers comes when no dial is under way.                *)
LEMMA DiscoverStep ==
    ASSUME Inv, Discover
    PROVE  Inv'
<1>1. UNCHANGED <<calls, loops, cleaned, conns, peers, blocks>> /\ toDial' = SeedNodes
  BY DEF Discover
<1>2. Conns' = Conns
  BY <1>1 DEF Conns
<1>3. \A c \in Conns : conns[c].id \in toDial' => conns[c].step # "add"
  BY DEF Discover
<1>4. TypeOK'
  BY <1>1, <1>2 DEF calls, loops, LoopsOK, Inv, TypeOK
<1>5. ConnInv'
  BY <1>1, <1>2, <1>3 DEF calls, loops, Inv, ConnInv, Live, Served
<1> QED BY <1>1, <1>2, <1>4, <1>5
        DEF calls, Inv, CloseInv, ListedIsServed, Served, OneConnectionPerID,
            StopClosesReaders, IDWasCleaned

(* cleanupInactivePeers takes its peers out of the table and notes their   *)
(* IDs; the others stay.                                                   *)
LEMMA CleanupStep ==
    ASSUME Inv, CleanupInactivePeers
    PROVE  Inv'
<1>1. PICK inactive :
        /\ inactive \subseteq DOMAIN peers
        /\ conns' = [c \in Conns |->
                        [conns[c] EXCEPT !.open = @ /\ \A id \in inactive : peers[id] # c]]
        /\ peers' = Restrict(peers, DOMAIN peers \ inactive)
        /\ cleaned' = cleaned \cup inactive
  BY DEF CleanupInactivePeers
<1>2. PICK kept : kept = {c \in Conns : \A id \in inactive : peers[id] # c}
  OBVIOUS
<1>3. /\ conns' \in Seq(Connection) /\ Len(conns') = Len(conns)
      /\ \A c \in Conns : /\ conns'[c].id = conns[c].id
                          /\ conns'[c].step = conns[c].step
                          /\ conns'[c].open = (conns[c].open /\ c \in kept)
  <2>1. conns' = [c \in Conns |-> [conns[c] EXCEPT !.open = @ /\ c \in kept]]
    BY <1>1, <1>2
  <2> QED BY <2>1, SomeClosed DEF Inv
<1>4. Conns' = Conns
  BY <1>3 DEF Conns
<1>5. UNCHANGED <<calls, loops, toDial, blocks>>
  BY DEF CleanupInactivePeers
<1>6. /\ DOMAIN peers' = DOMAIN peers \ inactive
      /\ \A id \in DOMAIN peers' : peers'[id] = peers[id]
  BY <1>1 DEF Restrict
<1>7. \A c \in Conns : conns[c].id \notin cleaned' => conns[c].id \notin cleaned /\ c \in kept
  BY <1>1, <1>2 DEF Inv, TypeOK
<1>8. TypeOK'
  <2>1. cleaned' \subseteq Addresses
    BY <1>1 DEF Inv, TypeOK
  <2> QED BY <1>3, <1>4, <1>5, <1>6, <2>1 DEF calls, loops, LoopsOK, Inv, TypeOK
<1>9. CloseInv'
  BY <1>3, <1>4 DEF Inv, CloseInv
<1>10. ConnInv'
  <2>1. SUFFICES ASSUME stop # "returned", NEW d \in Conns, conns[d].id \notin cleaned'
                 PROVE  /\ conns'[d].step # "ended" => conns'[d].open
                        /\ Live(d)' => conns[d].id \in DOMAIN peers' /\ peers'[conns[d].id] = d
                        /\ conns[d].id \in toDial => conns[d].step # "add"
    BY <1>3, <1>4, <1>5 DEF calls, loops, ConnInv
  <2>2. conns[d].id \notin cleaned /\ d \in kept /\ conns[d].id \notin inactive
    BY <1>1, <1>7, <2>1
  <2>3. /\ conns[d].step # "ended" => conns[d].open
        /\ Live(d) => conns[d].id \in DOMAIN peers /\ peers[conns[d].id] = d
        /\ conns[d].id \in toDial => conns[d].step # "add"
    BY <1>5, <2>1, <2>2 DEF calls, loops, Inv, ConnInv
  <2>4. Live(d)' <=> Live(d)
    BY <1>3 DEF Live, Served
  <2> QED BY <1>3, <1>6, <2>2, <2>3, <2>4
<1>11. ListedIsServed'
  BY <1>3, <1>6 DEF Inv, ListedIsServed, Served, TypeOK
<1>12. OneConnectionPerID'
  BY <1>3, <1>4, <1>5, <1>7 DEF calls, loops, Inv, OneConnectionPerID, IDWasCleaned
<1>13. StopClosesReaders'
  <2>1. cleaned \subseteq cleaned'
    BY <1>1
  <2> QED BY <1>3, <1>4, <1>5, <2>1 DEF calls, Inv, StopClosesReaders, IDWasCleaned
<1> QED BY <1>8, <1>9, <1>10, <1>11, <1>12, <1>13 DEF Inv

(* Stop closes all that read, because the table lists them.                *)
LEMMA StopPeersStep ==
    ASSUME Inv, StopPeers
    PROVE  Inv'
<1> DEFINE kept == Conns \ Range(peers)
<1>1. conns' = [c \in Conns |-> [conns[c] EXCEPT !.open = @ /\ c \in kept]]
  BY DEF StopPeers
<1>2. /\ conns' \in Seq(Connection) /\ Len(conns') = Len(conns)
      /\ \A c \in Conns : /\ conns'[c].id = conns[c].id
                          /\ conns'[c].step = conns[c].step
                          /\ conns'[c].open = (conns[c].open /\ c \in kept)
  <2> HIDE DEF kept
  <2> QED BY <1>1, SomeClosed DEF Inv
<1>3. Conns' = Conns
  BY <1>2 DEF Conns
<1>4. /\ UNCHANGED <<info, loops, toDial, cleaned, blocks>>
      /\ stop = "locked" /\ stop' = "returned" /\ DOMAIN peers' = {}
  BY DEF StopPeers
<1>5. TypeOK'
  BY <1>2, <1>3, <1>4 DEF calls, loops, LoopsOK, Inv, TypeOK
<1>6. CloseInv'
  BY <1>2, <1>3 DEF Inv, CloseInv
<1>7. ConnInv' /\ ListedIsServed' /\ OneConnectionPerID'
  BY <1>4 DEF ConnInv, ListedIsServed, OneConnectionPerID
<1>8. StopClosesReaders'
  <2>1. SUFFICES ASSUME NEW c \in Conns, conns[c].step \in {"read", "forward"}, conns'[c].open
                 PROVE  conns[c].id \in cleaned
    BY <1>2, <1>3, <1>4 DEF StopClosesReaders, IDWasCleaned
  <2>2. c \notin Range(peers)
    BY <1>2, <2>1
  <2>3. Live(c)
    BY <2>1 DEF Live, Served
  <2> QED BY <1>4, <2>2, <2>3 DEF Inv, ConnInv, Range
<1> QED BY <1>5, <1>6, <1>7, <1>8 DEF Inv

(* Calls that change neither connections nor table.                        *)
LEMMA CallStep ==
    ASSUME Inv,
           \/ AcceptSelect \/ AcceptFails \/ AcceptIsRunning \/ EndDiscover \/ EndMaintain
           \/ GetNetworkInfo \/ NetworkInfoReturn \/ Stop
    PROVE  Inv'
<1>1. /\ UNCHANGED <<toDial, cleaned, conns, peers, blocks>>
      /\ info' \in {"no", "holds"} /\ LoopsOK'
      /\ stop' = stop \/ (stop = "no" /\ stop' = "locked")
  BY DEF AcceptSelect, AcceptFails, AcceptIsRunning, EndDiscover, EndMaintain, GetNetworkInfo,
         NetworkInfoReturn, Stop, Inv, TypeOK, LoopsOK, calls, loops
<1>2. Conns' = Conns
  BY <1>1 DEF Conns
<1>3. TypeOK'
  BY <1>1, <1>2 DEF calls, loops, LoopsOK, Inv, TypeOK
<1>4. ConnInv'
  BY <1>1, <1>2 DEF Inv, ConnInv, Live, Served
<1>5. CloseInv' /\ ListedIsServed'
  BY <1>1, <1>2 DEF Inv, CloseInv, ListedIsServed, Served
<1>6. OneConnectionPerID' /\ StopClosesReaders'
  BY <1>1, <1>2 DEF Inv, OneConnectionPerID, StopClosesReaders, IDWasCleaned
<1> QED BY <1>3, <1>4, <1>5, <1>6 DEF Inv

LEMMA InvStep ==
    ASSUME Inv, [Next]_vars
    PROVE  Inv'
<1>1. ASSUME NEW c \in Conns, ConnectionStep(c)
      PROVE  Inv'
  <2>1. CASE DialFails(c) \/ Close(c)
    BY <2>1, ConnectionEnds
  <2>2. CASE AddPeer(c)
    BY <2>2, AddPeerStep
  <2>3. CASE RemovePeer(c)
    BY <2>3, RemovePeerStep
  <2>4. CASE Select(c)
    <3> DEFINE next == IF stop = "no" THEN "read" ELSE "remove"
    <3>1. Live(c) /\ GoTo(c, next) /\ UNCHANGED <<background, peers, blocks>>
      BY <2>4 DEF Select, Live, Served
    <3>2. blocks' \in 0..BlockChanSize
      BY <3>1 DEF Inv, TypeOK
    <3>3. /\ next \in {"select", "read", "forward", "remove"}
          /\ next = "read" => stop = "no"
          /\ next # "forward"
      OBVIOUS
    <3> HIDE DEF next
    <3> QED BY <3>1, <3>2, <3>3, PeerGoesOn
  <2>5. CASE ReadMessage(c) \/ ReadFails(c)
    <3>1. PICK next \in {"select", "forward", "remove"} : GoTo(c, next)
      BY <2>5 DEF ReadMessage, ReadFails
    <3>2. conns[c].step = "read" /\ Live(c) /\ UNCHANGED <<background, peers, blocks>>
      BY <2>5 DEF ReadMessage, ReadFails, Live, Served
    <3>3. blocks' \in 0..BlockChanSize
      BY <3>2 DEF Inv, TypeOK
    <3> QED BY <3>1, <3>2, <3>3, PeerGoesOn
  <2>6. CASE ForwardBlock(c)
    <3>1. Live(c) /\ GoTo(c, "select") /\ UNCHANGED <<background, peers>>
      BY <2>6 DEF ForwardBlock, Live, Served
    <3>2. blocks' \in 0..BlockChanSize
      BY <2>6, NetworkAssumption DEF ForwardBlock, Inv, TypeOK
    <3> QED BY <3>1, <3>2, PeerGoesOn
  <2> QED BY <1>1, <2>1, <2>2, <2>3, <2>4, <2>5, <2>6 DEF ConnectionStep
<1>2. ASSUME NEW a \in Remotes, Accept(a)
      PROVE  Inv'
  BY <1>2, AcceptStep
<1>3. ASSUME NEW a \in SeedNodes, ConnectToSeed(a)
      PROVE  Inv'
  BY <1>3, ConnectToSeedStep
<1>4. CASE Discover
  BY <1>4, DiscoverStep
<1>5. CASE CleanupInactivePeers
  BY <1>5, CleanupStep
<1>6. CASE StopPeers
  BY <1>6, StopPeersStep
<1>7. CASE \/ AcceptSelect \/ AcceptFails \/ AcceptIsRunning \/ EndDiscover \/ EndMaintain
          \/ GetNetworkInfo \/ NetworkInfoReturn \/ Stop
  BY <1>7, CallStep
<1>8. CASE UNCHANGED vars
  BY <1>8 DEF vars, background, calls, loops, Inv, TypeOK, CloseInv, ConnInv, ListedIsServed,
              OneConnectionPerID, StopClosesReaders, IDWasCleaned, Live, Served, Conns
<1> QED BY <1>1, <1>2, <1>3, <1>4, <1>5, <1>6, <1>7, <1>8 DEF Next

-----------------------------------------------------------------------------
(* The invariant holds for any number of addresses and connections.        *)
THEOREM Invariance == Spec => []Inv
<1>1. Init => Inv
  BY InitInv
<1>2. Inv /\ [Next]_vars => Inv'
  BY InvStep
<1> QED BY <1>1, <1>2, PTL DEF Spec

(* Variables have their types, and a peer stands under its own ID.         *)
THEOREM TypeCorrect == Spec => []TypeOK
<1>1. Inv => TypeOK
  BY DEF Inv
<1> QED BY <1>1, Invariance, PTL

(* The table has no peer that has gone.                                    *)
THEOREM ListedAlwaysServed == Spec => []ListedIsServed
<1>1. Inv => ListedIsServed
  BY DEF Inv
<1> QED BY <1>1, Invariance, PTL

(* The table has every peer that is served over an open connection, until  *)
(* Stop has emptied it, and apart from IDs that were cleaned up.           *)
THEOREM OpenAlwaysListed == Spec => []OpenIsListed
<1>1. Inv => OpenIsListed
  BY DEF Inv, ConnInv, OpenIsListed, IDWasCleaned, Live
<1> QED BY <1>1, Invariance, PTL

(* No address has two connections at a time, apart from the same IDs.      *)
THEOREM AlwaysOnePerID == Spec => []OneConnectionPerID
<1>1. Inv => OneConnectionPerID
  BY DEF Inv
<1> QED BY <1>1, Invariance, PTL

(* When Stop has returned nobody waits for what a peer writes.             *)
THEOREM StopReachesReaders == Spec => []StopClosesReaders
<1>1. Inv => StopClosesReaders
  BY DEF Inv
<1> QED BY <1>1, Invariance, PTL
=============================================================================
