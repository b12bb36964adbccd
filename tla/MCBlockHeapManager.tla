------------------------- MODULE MCBlockHeapManager -------------------------
(* Instances of BlockHeapManager for TLC.                                  *)
EXTENDS BlockHeapManager, TLC

CONSTANTS t1, t2, b1, b2, h1, h2

(* One block of each of two heaps that may be destroyed.                   *)
MCHeapOf == (b1 :> h2) @@ (b2 :> h1)
MCShardOf == (b1 :> 0) @@ (b2 :> 1)
MCSizeOf == (b1 :> 1) @@ (b2 :> 1)

=============================================================================
