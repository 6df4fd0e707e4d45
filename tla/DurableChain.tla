---------------------------- MODULE DurableChain ----------------------------
(***************************************************************************)
(* What a node promises about its chain, with no locks, goroutines, keys   *)
(* or files: there is one chain that starts at the genesis block, blocks   *)
(* are only added to its end and only when they follow its last block, and *)
(* a restart may forget blocks at the end but never one whose submitter    *)
(* was told that it was added.                                             *)
(***************************************************************************)
EXTENDS Integers, Sequences

CONSTANTS
    Block,      \* the blocks there can be
    Genesis     \* the first block of every chain

VARIABLES
    chain,      \* the chain, genesis first
    confirmed   \* the blocks that a submitter was told are in the chain

vars == <<chain, confirmed>>

Follows(p, b) ==
    /\ b.parent = p.hash
    /\ b.number = p.number + 1
    /\ b.timestamp >= p.timestamp

Init ==
    /\ chain = <<Genesis>>
    /\ confirmed = {}

(* A block that follows the last one is added.                             *)
Extend(b) ==
    /\ Follows(chain[Len(chain)], b)
    /\ chain' = Append(chain, b)
    /\ UNCHANGED confirmed

(* The submitter of a block of the chain learns that it was added.         *)
Confirm(i) ==
    /\ confirmed' = confirmed \cup {chain[i]}
    /\ UNCHANGED chain

(* A restart keeps a prefix with every confirmed block.                    *)
Recover(n) ==
    /\ \A b \in confirmed : \E i \in 1..n : chain[i] = b
    /\ chain' = SubSeq(chain, 1, n)
    /\ UNCHANGED confirmed

Next ==
    \/ \E b \in Block : Extend(b)
    \/ \E i \in 1..Len(chain) : Confirm(i) \/ Recover(i)

Spec == Init /\ [][Next]_vars
=============================================================================
