----------------------------- MODULE MCSession -----------------------------
(* Instances of Session for TLC.                                           *)
EXTENDS Session, TLC

CONSTANTS t1, t2, b1, b2, b3, b4, r1, r2

Symmetry == Permutations(Threads) \union Permutations(Buffers)
            \union Permutations(Records)
=============================================================================
