---------------------------- MODULE MCFileSync ----------------------------
(* FileSync with few files and handles, for TLC. *)
EXTENDS FileSync, TLC

CONSTANTS h1, h2, f1, f2

MCHandles == {h1, h2}
HandleSymmetry == Permutations(MCHandles)
=============================================================================
