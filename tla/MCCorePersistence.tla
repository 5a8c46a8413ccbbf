------------------------- MODULE MCCorePersistence -------------------------
(* The core, the writer and the store with a few handlers, for TLC.        *)
EXTENDS CorePersistence, TLC

(* The versions a board may have.                                          *)
Versions == [run : 0 .. MaxCrashes, seq : 0 .. MaxSeq]

CoreSymmetry == Permutations(Threads)

=============================================================================
