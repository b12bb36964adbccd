--------------------------- MODULE ZebraBlockHeap ---------------------------
(***************************************************************************)
(* The zebra heap of the Asan runtime: slabs of two pages, a queue of the  *)
(* free ones and, since the heap is its own quarantine, a queue of the     *)
(* quarantined ones.  Every operation runs under the heap's lock.  A slab  *)
(* stands for its address and its block's description.                     *)
(***************************************************************************)
EXTENDS CircularQueue, Integers

CONSTANTS
  SlabCount,              \* the number of slabs
  RatioNum, RatioDen      \* quarantine_ratio_, a fraction between 0 and 1

ASSUME ZebraAssumption ==
  /\ SlabCount \in Nat \ {0}
  /\ RatioNum \in Nat /\ RatioDen \in Nat \ {0} /\ RatioNum <= RatioDen

VARIABLES
  slab_info,    \* the state of each slab
  free_slabs,   \* the queue of free slabs
  quarantine    \* the queue of quarantined slabs

zebraVars == <<slab_info, free_slabs, quarantine>>

Slabs == 0..(SlabCount - 1)
SlabStates == {"kFreeSlab", "kAllocatedSlab", "kQuarantinedSlab"}

SetState(s, state) == slab_info' = [slab_info EXCEPT ![s] = state]

(* The constructor pushes every slab into the queue of free slabs.         *)
ZebraInit ==
  /\ slab_info = [s \in Slabs |-> "kFreeSlab"]
  /\ free_slabs = [buffer |-> [i \in Slabs |-> i], head |-> 0, tail |-> 0,
                   size |-> SlabCount]
  /\ quarantine = NewQueue(SlabCount)

-----------------------------------------------------------------------------
(* Mutant: the slab freed last is handed out first.                        *)
ZebraAllocateNewest(s) ==
  LET last == (free_slabs.tail + SlabCount - 1) % SlabCount IN
  /\ ~QueueEmpty(free_slabs) /\ s = free_slabs.buffer[last]
  /\ free_slabs' = [free_slabs EXCEPT !.tail = last, !.size = @ - 1]
  /\ SetState(s, "kAllocatedSlab")
  /\ UNCHANGED quarantine

(* AllocateImpl.  It fails, without a step, if no slab is free.            *)
ZebraAllocate(s) ==
  /\ ~QueueEmpty(free_slabs) /\ s = QueueFront(free_slabs)
  /\ free_slabs' = QueuePop(free_slabs, SlabCount)
  /\ SetState(s, "kAllocatedSlab")
  /\ UNCHANGED quarantine

(* Free fails on a slab that is free.  That it is not in the quarantine is *)
(* only a debug check.                                                     *)
ZebraFree(s) ==
  /\ IF slab_info[s] = "kFreeSlab" THEN UNCHANGED <<slab_info, free_slabs>>
     ELSE /\ SetState(s, "kFreeSlab")
          /\ free_slabs' = QueuePush(free_slabs, s, SlabCount)
  /\ UNCHANGED quarantine

(* Push fails, without a step, on a slab that is not allocated.  Clients   *)
(* keep headers intact, so the block is the one the slab was given out as. *)
CanPush(s) == slab_info[s] = "kAllocatedSlab"

ZebraPush(s) ==
  /\ CanPush(s)
  /\ quarantine' = QueuePush(quarantine, s, SlabCount)
  /\ SetState(s, "kQuarantinedSlab")
  /\ UNCHANGED free_slabs

QuarantineInvariantIsSatisfied ==
  QueueEmpty(quarantine) \/ quarantine.size * RatioDen <= RatioNum * SlabCount

(* Mutant: a slab that leaves the quarantine becomes free at once.         *)
ZebraPopFrees(s) ==
  /\ ~QuarantineInvariantIsSatisfied
  /\ s = QueueFront(quarantine)
  /\ quarantine' = QueuePop(quarantine, SlabCount)
  /\ SetState(s, "kFreeSlab")
  /\ UNCHANGED free_slabs

ZebraPop(s) ==
  /\ ~QuarantineInvariantIsSatisfied
  /\ s = QueueFront(quarantine)
  /\ quarantine' = QueuePop(quarantine, SlabCount)
  /\ SetState(s, "kAllocatedSlab")
  /\ UNCHANGED free_slabs

(* Empty pops slab after slab under one lock.                              *)
ZebraEmpty(S) ==
  /\ S = Elements(quarantine, SlabCount)
  /\ slab_info' = [s \in Slabs |-> IF s \in S THEN "kAllocatedSlab" ELSE slab_info[s]]
  /\ quarantine' = [buffer |-> quarantine.buffer, head |-> quarantine.tail,
                     tail |-> quarantine.tail, size |-> 0]
  /\ UNCHANGED free_slabs

(* The heap on its own: calls in any order, of which Free is never for a   *)
(* quarantined slab.                                                       *)
ZebraNext ==
  \/ \E s \in Slabs :
       \/ ZebraAllocate(s) \/ ZebraPush(s) \/ ZebraPop(s)
       \/ slab_info[s] # "kQuarantinedSlab" /\ ZebraFree(s)
  \/ \E S \in SUBSET Slabs : ZebraEmpty(S)

ZebraSpec == ZebraInit /\ [][ZebraNext]_zebraVars

-----------------------------------------------------------------------------
(* Properties.                                                             *)

(* The type of the queues and of the slabs' states.                        *)
ZebraTypeOK ==
  /\ slab_info \in [Slabs -> SlabStates]
  /\ \A q \in {free_slabs, quarantine} :
       /\ q.buffer \in [Slabs -> Slabs]
       /\ q.head \in Slabs /\ q.tail \in Slabs
       /\ q.size \in 0..SlabCount

NoDuplicates(q) ==
  \A i, j \in Occupied(q, SlabCount) : q.buffer[i] = q.buffer[j] => i = j

(* The two queues and the states of the slabs agree: a slab is queued      *)
(* exactly once, in the queue its state names, and an allocated slab in    *)
(* neither.  So a push never finds the queue full, and no slab is handed   *)
(* out twice or forgotten.                                                 *)
SlabQueuesAgree ==
  /\ NoDuplicates(free_slabs) /\ NoDuplicates(quarantine)
  /\ Elements(free_slabs, SlabCount) = {s \in Slabs : slab_info[s] = "kFreeSlab"}
  /\ Elements(quarantine, SlabCount) = {s \in Slabs : slab_info[s] = "kQuarantinedSlab"}

(* The abstract pool: the elements of the two queues in order.             *)
Place(q, i) ==
  IF q.head + i - 1 < SlabCount THEN q.head + i - 1 ELSE q.head + i - 1 - SlabCount
QueueContents(q) == [i \in 1..q.size |-> q.buffer[Place(q, i)]]

Pool == INSTANCE SlabPool WITH
  free <- QueueContents(free_slabs),
  allocated <- {s \in Slabs : slab_info[s] = "kAllocatedSlab"},
  quarantined <- QueueContents(quarantine)

(* The zebra heap is a first-in first-out pool: the circular queues never  *)
(* lose, repeat or reorder a slab, wherever their indexes wrap around.     *)
ImplementsSlabPool ==
  /\ Pool!PoolInit([i \in 1..SlabCount |-> i - 1])
  /\ [][Pool!PoolNext]_(Pool!poolVars)

=============================================================================
