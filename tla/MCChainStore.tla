---------------------------- MODULE MCChainStore ----------------------------
(* Instances of ChainStore for TLC.                                        *)
EXTENDS ChainStore, TLC

(* Handlers run the same code.  Sound for the runs of invariants only.     *)
HandlerSymmetry == Permutations(Handlers)
=============================================================================
