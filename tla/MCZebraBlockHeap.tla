-------------------------- MODULE MCZebraBlockHeap --------------------------
(* An instance of ZebraBlockHeap for TLC.                                  *)
EXTENDS ZebraBlockHeap

=============================================================================
