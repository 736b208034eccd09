--------------------------- MODULE MCWalletThreads ---------------------------
(***************************************************************************)
(* Instances of WalletThreads for TLC.  The workers are interchangeable;   *)
(* the runs that check liveness do not use the symmetry.                   *)
(***************************************************************************)
EXTENDS WalletThreads, TLC

CONSTANTS w1, w2

TwoWorkers == {w1, w2}

WorkersAreAlike == Permutations(TwoWorkers)
=============================================================================
