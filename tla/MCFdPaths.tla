----------------------------- MODULE MCFdPaths ------------------------------
(***************************************************************************)
(* FdPaths for TLC.  Its threads are alike, and so are its directories:    *)
(* no definition tells one from another.                                   *)
(***************************************************************************)
EXTENDS FdPaths, TLC

Symmetry == Permutations(Threads) \cup Permutations(Dirs)
=============================================================================
