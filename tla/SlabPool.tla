------------------------------ MODULE SlabPool ------------------------------
(***************************************************************************)
(* What the zebra heap promises: every slab is free, allocated or          *)
(* quarantined.  Slabs are allocated in the order they were freed and      *)
(* leave the quarantine in the order they entered it.                      *)
(***************************************************************************)
EXTENDS Sequences

VARIABLES
  free,         \* the free slabs
  allocated,    \* the slabs somebody holds
  quarantined   \* the quarantined slabs

poolVars == <<free, allocated, quarantined>>

AllocateSlab ==
  /\ free # << >>
  /\ allocated' = allocated \union {Head(free)}
  /\ free' = Tail(free)
  /\ UNCHANGED quarantined

FreeSlab ==
  /\ \E s \in allocated :
       free' = Append(free, s) /\ allocated' = allocated \ {s}
  /\ UNCHANGED quarantined

QuarantineSlab ==
  /\ \E s \in allocated :
       quarantined' = Append(quarantined, s) /\ allocated' = allocated \ {s}
  /\ UNCHANGED free

(* The oldest slab, or all of them.                                        *)
ReleaseSlabs ==
  /\ quarantined # << >>
  /\ \/ /\ allocated' = allocated \union {Head(quarantined)}
        /\ quarantined' = Tail(quarantined)
     \/ /\ allocated' = allocated \union {quarantined[i] : i \in DOMAIN quarantined}
        /\ quarantined' = << >>
  /\ UNCHANGED free

PoolInit(slabs) == free = slabs /\ allocated = {} /\ quarantined = << >>

PoolNext == AllocateSlab \/ FreeSlab \/ QuarantineSlab \/ ReleaseSlabs

=============================================================================
