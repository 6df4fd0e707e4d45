----------------------------- MODULE P2PNetwork -----------------------------
(***************************************************************************)
(* The peers of a node (network/p2p.go): the table of peers, a goroutine   *)
(* for every connection, the goroutines that accept, dial and clean up,    *)
(* Stop, and GetNetworkInfo.                                               *)
(*                                                                         *)
(* The lock of the table, peerMutex, is held within one step, except by    *)
(* GetNetworkInfo, which asks for the other lock, mu, while it holds it;   *)
(* Stop takes the two in the opposite order.                               *)
(*                                                                         *)
(* Definitions named X_Y are X with one mistake: each shows that a property*)
(* notices it, and no specification uses them.                             *)
(***************************************************************************)
EXTENDS Integers, Sequences, FiniteSets, Functions

CONSTANTS
    Remotes,        \* addresses from which peers connect
    SeedNodes,      \* addresses that the node dials
    MaxPeers,       \* no seed is dialled when the table has so many peers
    BlockChanSize,  \* capacity of blockChan: 100 in the code
    MaxConns        \* bound: how many connections are made

ASSUME NetworkAssumption ==
    /\ Remotes \cap SeedNodes = {}
    /\ MaxPeers \in Nat
    /\ BlockChanSize \in Nat
    /\ MaxConns \in Nat

Addresses == Remotes \cup SeedNodes

(* What the goroutine of a connection does next: addPeer, after it has     *)
(* dialled if it has to, the select of handlePeerCommunication, ReadBytes, *)
(* the send on blockChan, and the deferred calls.                          *)
Steps == {"add", "select", "read", "forward", "remove", "close", "ended"}

(* A connection, and whether its socket is open at this end.               *)
Connection == [id : Addresses, step : Steps, open : BOOLEAN]

VARIABLES
    stop,     \* Stop: "no", "locked" (it holds mu) or "returned"
    info,     \* GetNetworkInfo: "no", or "holds" peerMutex and waits for mu
    accept,   \* acceptConnections: "select", in "accept", "failed" or "ended"
    discover, \* discoverPeers: "running" or "ended"
    maintain, \* maintainPeers: "running" or "ended"
    toDial,   \* the seed nodes that connectToSeedNodes has still to look at
    conns,    \* the connections, in the order in which they were made
    peers,    \* the table of peers: from ID to connection
    blocks,   \* how many blocks are in blockChan, which nothing reads
    cleaned   \* history: the IDs that cleanupInactivePeers has removed

calls == <<stop, info>>
loops == <<accept, discover, maintain>>
background == <<calls, loops, toDial, cleaned>>
vars == <<background, conns, peers, blocks>>

NewConnection(id) == [id |-> id, step |-> "add", open |-> TRUE]

Conns == 1..Len(conns)
GoTo(c, step) == conns' = [conns EXCEPT ![c].step = step]
PeerMutexFree == info # "holds"

Init ==
    /\ stop = "no" /\ info = "no" /\ toDial = {}
    /\ accept = "select" /\ discover = "running" /\ maintain = "running"
    /\ conns = <<>> /\ peers = <<>> /\ blocks = 0 /\ cleaned = {}

-----------------------------------------------------------------------------
(* The goroutine of a connection.                                          *)

(* DialTimeout returns an error.                                           *)
DialFails(c) ==
    /\ conns[c].step = "add" /\ conns[c].id \in SeedNodes
    /\ conns' = [conns EXCEPT ![c].step = "ended", ![c].open = FALSE]
    /\ UNCHANGED <<background, peers, blocks>>

(* A new peer takes the place of one with the same ID.                     *)
AddPeer(c) ==
    /\ conns[c].step = "add" /\ PeerMutexFree
    /\ peers' = [id \in DOMAIN peers \cup {conns[c].id} |->
                    IF id = conns[c].id THEN c ELSE peers[id]]
    /\ GoTo(c, "select")
    /\ UNCHANGED <<background, blocks>>

Select(c) ==
    /\ conns[c].step = "select"
    /\ GoTo(c, IF stop = "no" THEN "read" ELSE "remove")
    /\ UNCHANGED <<background, peers, blocks>>

(* A line: perhaps a block or a transaction, or no message at all.         *)
ReadMessage(c) ==
    /\ conns[c].step = "read"
    /\ \E step \in {"select", "forward"} : GoTo(c, step)
    /\ UNCHANGED <<background, peers, blocks>>

(* A timeout, the end of the connection, or one that was closed here.      *)
ReadFails(c) ==
    /\ conns[c].step = "read"
    /\ GoTo(c, "remove")
    /\ UNCHANGED <<background, peers, blocks>>

ForwardBlock_Waits(c) ==
    /\ conns[c].step = "forward"
    /\ blocks < BlockChanSize
    /\ blocks' = blocks + 1
    /\ GoTo(c, "select")
    /\ UNCHANGED <<background, peers>>

ForwardBlock_OneMore(c) ==
    /\ conns[c].step = "forward"
    /\ \/ blocks <= BlockChanSize /\ blocks' = blocks + 1
       \/ blocks > BlockChanSize /\ UNCHANGED blocks
    /\ GoTo(c, "select")
    /\ UNCHANGED <<background, peers>>

(* A block is dropped when the channel is full.                            *)
ForwardBlock(c) ==
    /\ conns[c].step = "forward"
    /\ \/ blocks < BlockChanSize /\ blocks' = blocks + 1
       \/ blocks = BlockChanSize /\ UNCHANGED blocks
    /\ GoTo(c, "select")
    /\ UNCHANGED <<background, peers>>

RemovePeer_NotInTable(c) ==
    /\ conns[c].step = "remove" /\ PeerMutexFree
    /\ GoTo(c, IF conns[c].id \in Remotes THEN "close" ELSE "ended")
    /\ UNCHANGED <<background, peers, blocks>>

RemovePeer_ClosesFirst(c) ==
    /\ conns[c].step = "remove"
    /\ \/ /\ conns[c].open /\ conns[c].id \in Remotes
          /\ conns' = [conns EXCEPT ![c].open = FALSE]
          /\ UNCHANGED peers
       \/ /\ ~conns[c].open \/ conns[c].id \notin Remotes
          /\ PeerMutexFree
          /\ peers' = Restrict(peers, DOMAIN peers \ {conns[c].id})
          /\ GoTo(c, "ended")
    /\ UNCHANGED <<background, blocks>>

(* The peer that has the ID now is removed.  connectToPeer does not close. *)
RemovePeer(c) ==
    /\ conns[c].step = "remove" /\ PeerMutexFree
    /\ peers' = Restrict(peers, DOMAIN peers \ {conns[c].id})
    /\ GoTo(c, IF conns[c].id \in Remotes THEN "close" ELSE "ended")
    /\ UNCHANGED <<background, blocks>>

Close(c) ==
    /\ conns[c].step = "close"
    /\ conns' = [conns EXCEPT ![c].step = "ended", ![c].open = FALSE]
    /\ UNCHANGED <<background, peers, blocks>>

ConnectionStep(c) ==
    \/ DialFails(c)
    \/ AddPeer(c)
    \/ Select(c)
    \/ ReadMessage(c)
    \/ ReadFails(c)
    \/ ForwardBlock(c)
    \/ RemovePeer(c)
    \/ Close(c)

-----------------------------------------------------------------------------
(* The goroutines of Start.                                                *)

(* acceptConnections looks whether stopChan is closed ...                  *)
AcceptSelect ==
    /\ accept = "select"
    /\ accept' = IF stop = "no" THEN "accept" ELSE "ended"
    /\ UNCHANGED <<calls, discover, maintain, toDial, cleaned, conns, peers, blocks>>

(* ... and waits for a connection: Stop closes stopChan before the listener.*)
(* An address and port connect again when their last connection is closed. *)
Accept(a) ==
    /\ accept = "accept" /\ stop # "returned"
    /\ Len(conns) < MaxConns
    /\ \A c \in Conns : conns[c].id = a => ~conns[c].open
    /\ accept' = "select"
    /\ conns' = Append(conns, NewConnection(a))
    /\ UNCHANGED <<calls, discover, maintain, toDial, cleaned, peers, blocks>>

(* An error of Accept, also because the listener is closed.                *)
AcceptFails ==
    /\ accept = "accept"
    /\ accept' = "failed"
    /\ UNCHANGED <<calls, discover, maintain, toDial, cleaned, conns, peers, blocks>>

AcceptIsRunning_AcceptsAgain ==
    /\ accept = "failed" /\ stop # "locked"
    /\ accept' = "accept"
    /\ UNCHANGED <<calls, discover, maintain, toDial, cleaned, conns, peers, blocks>>

(* IsRunning gets mu, to decide whether the error is logged; continue.     *)
AcceptIsRunning ==
    /\ accept = "failed" /\ stop # "locked"
    /\ accept' = "select"
    /\ UNCHANGED <<calls, discover, maintain, toDial, cleaned, conns, peers, blocks>>

(* A tick of discoverPeers, every 30 s: a dial, of 10 s, is over by then.  *)
Discover ==
    /\ discover = "running" /\ toDial = {}
    /\ \A c \in Conns : conns[c].id \in SeedNodes => conns[c].step # "add"
    /\ Cardinality(DOMAIN peers) < MaxPeers
    /\ toDial' = SeedNodes
    /\ UNCHANGED <<calls, loops, cleaned, conns, peers, blocks>>

ConnectToSeed_Again(a) ==
    /\ a \in toDial
    /\ toDial' = toDial \ {a}
    /\ \/ Len(conns) < MaxConns /\ conns' = Append(conns, NewConnection(a))
       \/ Len(conns) = MaxConns /\ UNCHANGED conns
    /\ UNCHANGED <<calls, loops, cleaned, peers, blocks>>

(* A seed node in the table is not dialled; at the bound dials just fail.  *)
ConnectToSeed(a) ==
    /\ a \in toDial
    /\ toDial' = toDial \ {a}
    /\ \/ /\ a \notin DOMAIN peers /\ Len(conns) < MaxConns
          /\ conns' = Append(conns, NewConnection(a))
       \/ /\ a \in DOMAIN peers \/ Len(conns) = MaxConns
          /\ UNCHANGED conns
    /\ UNCHANGED <<calls, loops, cleaned, peers, blocks>>

EndDiscover ==
    /\ discover = "running" /\ toDial = {} /\ stop # "no"
    /\ discover' = "ended"
    /\ UNCHANGED <<calls, accept, maintain, toDial, cleaned, conns, peers, blocks>>

(* A tick of maintainPeers, which may be chosen once more after Stop.      *)
(* LastSeen of a peer that writes lines which are no messages may be old.  *)
(* Its goroutine finds the connection closed.                              *)
CleanupInactivePeers ==
    /\ maintain = "running" /\ PeerMutexFree
    /\ \E inactive \in SUBSET DOMAIN peers \ {{}} :
          /\ conns' = [c \in Conns |->
                          [conns[c] EXCEPT !.open = @ /\ \A id \in inactive : peers[id] # c]]
          /\ peers' = Restrict(peers, DOMAIN peers \ inactive)
          /\ cleaned' = cleaned \cup inactive
    /\ UNCHANGED <<calls, loops, toDial, blocks>>

EndMaintain ==
    /\ maintain = "running" /\ stop # "no"
    /\ maintain' = "ended"
    /\ UNCHANGED <<calls, accept, discover, toDial, cleaned, conns, peers, blocks>>

-----------------------------------------------------------------------------
(* Calls from outside.                                                     *)

GetNetworkInfo ==
    /\ info = "no"
    /\ info' = "holds"
    /\ UNCHANGED <<stop, loops, toDial, cleaned, conns, peers, blocks>>

(* IsRunning gets mu.                                                      *)
NetworkInfoReturn ==
    /\ info = "holds" /\ stop # "locked"
    /\ info' = "no"
    /\ UNCHANGED <<stop, loops, toDial, cleaned, conns, peers, blocks>>

(* Stop takes mu, closes stopChan and the listener ...                     *)
Stop ==
    /\ stop = "no"
    /\ stop' = "locked"
    /\ UNCHANGED <<info, loops, toDial, cleaned, conns, peers, blocks>>

StopPeers_NotClosed ==
    /\ stop = "locked" /\ PeerMutexFree
    /\ stop' = "returned"
    /\ peers' = <<>>
    /\ UNCHANGED <<info, loops, toDial, cleaned, conns, blocks>>

(* ... and then every connection in the table, which it empties.           *)
StopPeers ==
    /\ stop = "locked" /\ PeerMutexFree
    /\ stop' = "returned"
    /\ conns' = [c \in Conns |-> [conns[c] EXCEPT !.open = @ /\ c \notin Range(peers)]]
    /\ peers' = <<>>
    /\ UNCHANGED <<info, loops, toDial, cleaned, blocks>>

Next ==
    \/ \E c \in Conns : ConnectionStep(c)
    \/ AcceptSelect
    \/ \E a \in Remotes : Accept(a)
    \/ AcceptFails
    \/ AcceptIsRunning
    \/ \E a \in SeedNodes : ConnectToSeed(a)
    \/ Discover
    \/ EndDiscover
    \/ CleanupInactivePeers
    \/ EndMaintain
    \/ GetNetworkInfo
    \/ NetworkInfoReturn
    \/ Stop
    \/ StopPeers

Spec == Init /\ [][Next]_vars

(* The scheduler runs every goroutine that can go on, and a blocked Lock of*)
(* peerMutex excludes new readers; DialTimeout and ReadTimeout end calls   *)
(* that wait for others, a closed listener those of Accept, and a closed   *)
(* connection has finitely many lines left to read.  A closed stopChan is  *)
(* ready whenever discoverPeers and maintainPeers look, a tick only every  *)
(* 30 or 60 s.  Nothing obliges a peer to connect, to write or to close, or*)
(* anybody to call Stop.                                                   *)
FairSpec ==
    /\ Spec
    /\ \A c \in 1..MaxConns :
          /\ WF_vars(c \in Conns /\ ConnectionStep(c))
          /\ SF_vars(/\ c \in Conns
                     /\ AddPeer(c) \/ RemovePeer(c) \/ (~conns[c].open /\ ReadFails(c)))
    /\ \A a \in SeedNodes : WF_vars(ConnectToSeed(a))
    /\ WF_vars(AcceptSelect \/ AcceptIsRunning \/ (stop # "no" /\ AcceptFails))
    /\ SF_vars(EndDiscover)
    /\ SF_vars(EndMaintain)
    /\ WF_vars(NetworkInfoReturn)
    /\ SF_vars(StopPeers)

-----------------------------------------------------------------------------
(* Properties.                                                             *)

(* Variables have their types; a peer stands in the table under its own ID,*)
(* and the channel holds no more than it can.                              *)
TypeOK ==
    /\ stop \in {"no", "locked", "returned"}
    /\ info \in {"no", "holds"}
    /\ accept \in {"select", "accept", "failed", "ended"}
    /\ discover \in {"running", "ended"}
    /\ maintain \in {"running", "ended"}
    /\ cleaned \subseteq Addresses
    /\ toDial \subseteq SeedNodes
    /\ conns \in Seq(Connection) /\ Len(conns) <= MaxConns
    /\ DOMAIN peers \subseteq Addresses
    /\ \A id \in DOMAIN peers : peers[id] \in Conns /\ conns[peers[id]].id = id
    /\ blocks \in 0..BlockChanSize

Served(c) == conns[c].step \in {"select", "read", "forward"}

(* cleanupInactivePeers took the ID from a connection whose goroutine may  *)
(* find out late: it then removes from the table whoever has the ID now.   *)
IDWasCleaned(c) == conns[c].id \in cleaned

(* GetPeers returns no peers that have gone: each has a goroutine that     *)
(* serves it, or is about to remove it, also when its ID was used before.  *)
ListedIsServed ==
    \A id \in DOMAIN peers : Served(peers[id]) \/ conns[peers[id]].step = "remove"

(* And it returns all that are served, so that Stop and BroadcastBlock     *)
(* reach them, although a goroutine removes by ID whoever has it by then.  *)
OpenIsListed ==
    stop # "returned" =>
        \A c \in Conns : Served(c) /\ conns[c].open =>
            \/ conns[c].id \in DOMAIN peers /\ peers[conns[c].id] = c
            \/ IDWasCleaned(c)

(* An address has one connection at a time: a seed node is dialled again,  *)
(* and an ID used again, only after the last goroutine that had it ended.  *)
OneConnectionPerID ==
    stop # "returned" =>
        \A c, d \in Conns :
            c # d /\ conns[c].id = conns[d].id =>
                \/ conns[c].step = "ended" \/ conns[d].step = "ended"
                \/ IDWasCleaned(c)

(* Stop leaves no goroutine waiting for what a peer writes: when it has    *)
(* returned, also those that were just being accepted or dialled do not    *)
(* begin to read, and all others find their connection closed.             *)
StopClosesReaders ==
    stop = "returned" =>
        \A c \in Conns : conns[c].step \in {"read", "forward"} /\ conns[c].open => IDWasCleaned(c)

(* GetNetworkInfo has peerMutex and waits for mu, Stop has mu and waits for*)
(* peerMutex.                                                              *)
Deadlocked == info = "holds" /\ stop = "locked"

(* After Stop every goroutine of the package ends, the table is empty, and *)
(* connections are closed, except those to seed nodes, which nobody closes *)
(* unless Stop finds them; but Stop and GetNetworkInfo may block for ever. *)
NetworkEnds ==
    stop = "locked" ~>
        \/ /\ accept = "ended" /\ discover = "ended" /\ maintain = "ended"
           /\ peers = <<>>
           /\ \A c \in Conns : /\ conns[c].step = "ended"
                               /\ conns[c].open => conns[c].id \in SeedNodes
        \/ Deadlocked

(* Stop stops the network: it returns.  It need not, because of the above. *)
StopReturns == stop = "locked" ~> stop = "returned"

(* The goroutine of a connection that was closed at this end, by Stop or as*)
(* inactive, ends although nothing takes blocks out of blockChan.          *)
ClosedEnds ==
    \A c \in 1..MaxConns :
        c \in Conns /\ ~conns[c].open ~>
            (c \in Conns /\ conns[c].step = "ended") \/ Deadlocked
=============================================================================
