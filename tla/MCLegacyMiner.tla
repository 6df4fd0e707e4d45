--------------------------- MODULE MCLegacyMiner ---------------------------
EXTENDS LegacyMiner

(* Arguments of SetThreads: as many as can be started, none, and less.     *)
SomeThreadCounts == {-1, 0, 2}
=============================================================================
