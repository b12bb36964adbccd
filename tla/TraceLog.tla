------------------------------ MODULE TraceLog ------------------------------
(***************************************************************************)
(* What a session promises its client: a segment it has accepted is        *)
(* appended to the trace file, once, and nothing else is.                  *)
(***************************************************************************)
EXTENDS Sequences, Functions

CONSTANT Segments

VARIABLES
  accepted,   \* segments accepted and not yet in the file
  log         \* the segments of the trace file

logVars == <<accepted, log>>

Init == accepted = {} /\ log = <<>>

(* Returning a buffer accepts one segment; closing accepts all that are    *)
(* outstanding at once.                                                    *)
Accept(S) ==
  /\ S \intersect (accepted \union Range(log)) = {}
  /\ accepted' = accepted \union S
  /\ UNCHANGED log

Write(s) ==
  /\ s \in accepted
  /\ accepted' = accepted \ {s}
  /\ log' = Append(log, s)

Next ==
  \/ \E S \in SUBSET Segments : Accept(S)
  \/ \E s \in Segments : Write(s)

Spec == Init /\ [][Next]_logVars

FairSpec == Spec /\ WF_logVars(\E s \in Segments : Write(s))
=============================================================================
