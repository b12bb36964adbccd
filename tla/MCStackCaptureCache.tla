------------------------ MODULE MCStackCaptureCache ------------------------
(* Instances of StackCaptureCache for TLC.                                 *)
EXTENDS StackCaptureCache, TLC

CONSTANTS t1, t2, i1, i2, i3

(* Two short stack traces and one above max_num_frames_, in two shards.    *)
(* What is left of a page after a short one, two frames, is a capture for  *)
(* the next short one.                                                     *)
MCFrames == (i1 :> 1) @@ (i2 :> 1) @@ (i3 :> 3)
MCShardOf == (i1 :> 0) @@ (i2 :> 1) @@ (i3 :> 0)

(* More references to the first of them than can be counted.               *)
MCMaxHeld == (i1 :> 4) @@ (i2 :> 1) @@ (i3 :> 1)

Symmetry == Permutations(Threads)

=============================================================================
