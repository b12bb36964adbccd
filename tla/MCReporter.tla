----------------------------- MODULE MCReporter -----------------------------
(* Instances of Reporter for TLC.                                          *)
EXTENDS Reporter, TLC

=============================================================================
