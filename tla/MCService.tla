----------------------------- MODULE MCService -----------------------------
(* Instances of Service for TLC.                                           *)
EXTENDS Service, TLC

CONSTANTS c1, c2, p1, p2, s1, s2, s3

(* c1 and c2 are two agents in the same process.                           *)
SharedProcess == (c1 :> p1) @@ (c2 :> p1)

=============================================================================
