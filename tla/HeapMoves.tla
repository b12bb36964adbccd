----------------------------- MODULE HeapMoves ------------------------------
(***************************************************************************)
(* The heap manager with its quarantines, for any number of threads, heaps, *)
(* blocks and shards: first the zebra heap, then the inductive invariant   *)
(* of the manager, and the steps that move blocks among the quarantines    *)
(* and the hands of the threads.                                           *)
(***************************************************************************)
EXTENDS BlockHeapManager, Sequences, FiniteSets, TLAPS

-----------------------------------------------------------------------------
(***************************************************************************)
(* The zebra heap for any number of slabs and any quarantine ratio: its    *)
(* inductive invariant, which its steps keep as long as its two circular   *)
(* queues have room, and the step of a first-in first-out pool of slabs    *)
(* that each of them implements.  The manager's steps use the same lemmas. *)
(* That the queues have room, which is a matter of counting, and the       *)
(* theorems are in module HeapProofs.                                      *)
(***************************************************************************)

N == SlabCount

(* A circular queue: the tail is where the elements that start at the head *)
(* end, before or after the wrap.                                          *)
Queues == [buffer : [Slabs -> Slabs], head : Slabs, tail : Slabs, size : 0..N]
TailFits(q) == q.tail = q.head + q.size \/ q.tail = q.head + q.size - N
IsQueue(q) == q \in Queues /\ TailFits(q)

(* The states of the slabs.                                                *)
InState(state) == {s \in Slabs : slab_info[s] = state}

(* A queue holds exactly the slabs of one state, each once.                *)
Holds(q, S) == IsQueue(q) /\ NoDuplicates(q) /\ Elements(q, N) = S

(* The inductive invariant.                                                *)
ZebraInv ==
  /\ slab_info \in [Slabs -> SlabStates]
  /\ Holds(free_slabs, InState("kFreeSlab"))
  /\ Holds(quarantine, InState("kQuarantinedSlab"))

-----------------------------------------------------------------------------
(* circular_queue_impl.h: a push onto a queue that is not full puts the    *)
(* element into a place that was not occupied.                             *)
LEMMA PushShape ==
  ASSUME NEW q, IsQueue(q), q.size < N, NEW s \in Slabs
  PROVE  /\ IsQueue(QueuePush(q, s, N))
         /\ q.tail \in Slabs \ Occupied(q, N)
         /\ Occupied(QueuePush(q, s, N), N) = Occupied(q, N) \union {q.tail}
         /\ QueuePush(q, s, N).buffer = [q.buffer EXCEPT ![q.tail] = s]
<1> DEFINE r == QueuePush(q, s, N)
<1>1. /\ r.buffer = [q.buffer EXCEPT ![q.tail] = s]
      /\ r.head = q.head
      /\ r.tail = Following(q.tail, N)
      /\ r.size = q.size + 1
      /\ r = [buffer |-> r.buffer, head |-> r.head, tail |-> r.tail, size |-> r.size]
  BY ZebraAssumption DEF QueuePush, IsQueue, Queues, N
<1>2. /\ q.head \in 0..(N - 1) /\ q.tail \in 0..(N - 1) /\ q.size \in 0..N
      /\ N \in Nat \ {0} /\ q.buffer \in [Slabs -> Slabs]
  BY ZebraAssumption, Zenon DEF IsQueue, Queues, Slabs, N
<1>3. Following(q.tail, N) \in 0..(N - 1)
  BY <1>2 DEF Following
<1>a. r.buffer \in [Slabs -> Slabs]
  BY <1>1, <1>2, Zenon DEF Slabs, N
<1> HIDE DEF r
<1>b. r.head \in Slabs /\ r.tail \in Slabs /\ r.size \in 0..N
  BY <1>1, <1>2, <1>3 DEF Slabs, N
<1>4. r \in Queues
  BY <1>1, <1>a, <1>b, Zenon DEF Queues
<1>5. TailFits(r)
  BY <1>1, <1>2 DEF IsQueue, TailFits, Following
<1>c. q.tail \notin Occupied(q, N)
  BY <1>2 DEF IsQueue, TailFits, Occupied
<1>6. q.tail \in Slabs \ Occupied(q, N)
  BY <1>2, <1>c, Zenon DEF Slabs, N
<1>7. Occupied(r, N) = Occupied(q, N) \union {q.tail}
  BY <1>1, <1>2 DEF IsQueue, TailFits, Occupied
<1> QED
  BY <1>1, <1>4, <1>5, <1>6, <1>7, Zenon DEF IsQueue, r

(* A pop from a queue that is not empty frees the place of the head.       *)
LEMMA PopShape ==
  ASSUME NEW q, IsQueue(q), q.size # 0
  PROVE  /\ IsQueue(QueuePop(q, N))
         /\ q.head \in Occupied(q, N)
         /\ Occupied(QueuePop(q, N), N) = Occupied(q, N) \ {q.head}
         /\ QueuePop(q, N).buffer = q.buffer
<1> DEFINE r == QueuePop(q, N)
<1>1. /\ r.buffer = q.buffer
      /\ r.head = Following(q.head, N)
      /\ r.tail = q.tail
      /\ r.size = q.size - 1
      /\ r = [buffer |-> r.buffer, head |-> r.head, tail |-> r.tail, size |-> r.size]
  BY Zenon DEF QueuePop
<1>2. /\ q.head \in 0..(N - 1) /\ q.tail \in 0..(N - 1) /\ q.size \in 0..N
      /\ N \in Nat \ {0} /\ q.buffer \in [Slabs -> Slabs]
  BY ZebraAssumption, Zenon DEF IsQueue, Queues, Slabs, N
<1>3. Following(q.head, N) \in 0..(N - 1)
  BY <1>2 DEF Following
<1>4. r \in Queues
  BY <1>1, <1>2, <1>3 DEF Queues, Slabs, N
<1>5. TailFits(r)
  BY <1>1, <1>2 DEF IsQueue, TailFits, Following
<1>6. q.head \in Occupied(q, N)
  BY <1>2 DEF IsQueue, TailFits, Occupied
<1>7. Occupied(r, N) = Occupied(q, N) \ {q.head}
  BY <1>1, <1>2 DEF IsQueue, TailFits, Occupied, Following
<1> QED
  BY <1>1, <1>4, <1>5, <1>6, <1>7, Zenon DEF IsQueue

(* A queue that lacks some slab is not full, so a push does not fail.      *)
(* NotFull proves it at the end of the module, where the facts on finite   *)
(* sets are at hand.                                                       *)
QueuesHaveRoom ==
  \A q : IsQueue(q) /\ NoDuplicates(q) =>
    \A s \in Slabs : s \notin Elements(q, N) => q.size < N

(* A push adds the slab to the elements and repeats none.                  *)
LEMMA PushHolds ==
  ASSUME QueuesHaveRoom, NEW q, NEW S, Holds(q, S), NEW s \in Slabs \ S
  PROVE  Holds(QueuePush(q, s, N), S \union {s})
<1> DEFINE r == QueuePush(q, s, N)
<1>1. q.size < N
  BY Zenon DEF QueuesHaveRoom, Holds
<1>2. /\ IsQueue(r)
      /\ q.tail \in Slabs \ Occupied(q, N)
      /\ Occupied(r, N) = Occupied(q, N) \union {q.tail}
      /\ r.buffer = [q.buffer EXCEPT ![q.tail] = s]
  BY <1>1, PushShape, Zenon DEF Holds
<1>3. q.buffer \in [Slabs -> Slabs] /\ Occupied(q, N) \subseteq Slabs
  BY Zenon DEF Holds, IsQueue, Queues, Occupied, Slabs, N
<1> HIDE DEF r
<1>4. /\ r.buffer[q.tail] = s
      /\ \A i \in Occupied(q, N) : r.buffer[i] = q.buffer[i]
  BY <1>2, <1>3, Zenon
<1>5. Elements(r, N) = S \union {s}
  BY <1>2, <1>4 DEF Elements, Holds
<1>6. \A i \in Occupied(q, N) : q.buffer[i] # s
  BY Zenon DEF Holds, Elements
<1>7. NoDuplicates(r)
  BY <1>2, <1>4, <1>6, Zenon DEF NoDuplicates, Holds, N
<1> QED
  BY <1>2, <1>5, <1>7, Zenon DEF Holds, r

(* A pop removes the front and nothing else.                               *)
LEMMA PopHolds ==
  ASSUME NEW q, NEW S, Holds(q, S), q.size # 0
  PROVE  /\ QueueFront(q) \in S
         /\ Holds(QueuePop(q, N), S \ {QueueFront(q)})
<1> DEFINE r == QueuePop(q, N)
<1>1. /\ IsQueue(r)
      /\ q.head \in Occupied(q, N)
      /\ Occupied(r, N) = Occupied(q, N) \ {q.head}
      /\ r.buffer = q.buffer
  BY PopShape, Zenon DEF Holds
<1> HIDE DEF r
<1>2. NoDuplicates(r)
  BY <1>1, Zenon DEF NoDuplicates, Holds, N
<1>3. \A i \in Occupied(r, N) : q.buffer[i] # q.buffer[q.head]
  BY <1>1, Zenon DEF NoDuplicates, Holds, N
<1>4. Elements(r, N) = Elements(q, N) \ {q.buffer[q.head]}
  BY <1>1, <1>3, Zenon DEF Elements
<1> QED
  BY <1>1, <1>2, <1>4, Zenon DEF Holds, QueueFront, Elements, r

-----------------------------------------------------------------------------
(* A change of one slab's state moves it between the sets of slabs.        *)
LEMMA StateMoves ==
  ASSUME slab_info \in [Slabs -> SlabStates], NEW s \in Slabs,
         NEW state \in SlabStates, SetState(s, state)
  PROVE  /\ slab_info' \in [Slabs -> SlabStates]
         /\ \A x \in SlabStates :
              InState(x)' = IF x = state THEN InState(x) \union {s} ELSE InState(x) \ {s}
<1>1. slab_info' = [slab_info EXCEPT ![s] = state]
  BY Zenon DEF SetState
<1> QED
  BY <1>1, Zenon DEF InState

(* The constructor: all slabs are in the queue of free slabs.              *)
LEMMA ZebraInitInv == ZebraInit => ZebraInv
<1> SUFFICES ASSUME ZebraInit PROVE ZebraInv
  BY Zenon
<1>1. N \in Nat \ {0} /\ Slabs = 0..(N - 1)
  BY ZebraAssumption, Zenon DEF N, Slabs
<1>2. slab_info \in [Slabs -> SlabStates]
  BY Zenon DEF ZebraInit, SlabStates
<1>3. InState("kFreeSlab") = Slabs /\ InState("kQuarantinedSlab") = {}
  BY Zenon DEF ZebraInit, InState
<1>4. Holds(free_slabs, Slabs)
  <2> DEFINE q == [buffer |-> [i \in Slabs |-> i], head |-> 0, tail |-> 0, size |-> N]
  <2>1. IsQueue(q)
    BY <1>1 DEF IsQueue, Queues, TailFits
  <2>2. Occupied(q, N) = Slabs
    BY <1>1 DEF Occupied
  <2>3. NoDuplicates(q) /\ Elements(q, N) = Slabs
    BY <2>2, Zenon DEF NoDuplicates, Elements, N
  <2> QED
    BY <2>1, <2>3, Zenon DEF Holds, ZebraInit, N
<1>5. Holds(quarantine, {})
  <2> DEFINE q == [buffer |-> [i \in Slabs |-> 0], head |-> 0, tail |-> 0, size |-> 0]
  <2>1. IsQueue(q)
    BY <1>1 DEF IsQueue, Queues, TailFits
  <2>2. Occupied(q, N) = {}
    BY <1>1 DEF Occupied
  <2>3. NoDuplicates(q) /\ Elements(q, N) = {}
    BY <2>2, Zenon DEF NoDuplicates, Elements, N
  <2>4. quarantine = q
    BY <1>1, Zenon DEF ZebraInit, NewQueue, N
  <2> QED
    BY <2>1, <2>3, <2>4, Zenon DEF Holds
<1> QED
  BY <1>2, <1>3, <1>4, <1>5, Zenon DEF ZebraInv

(* AllocateImpl takes the slab at the front of the free ones.              *)
LEMMA AllocateKeeps ==
  ASSUME ZebraInv, NEW s \in Slabs, ZebraAllocate(s) PROVE ZebraInv'
<1>1. Holds(QueuePop(free_slabs, N), InState("kFreeSlab") \ {s})
  BY PopHolds, Zenon DEF ZebraInv, ZebraAllocate, QueueEmpty
<1>2. s \in InState("kFreeSlab")
  BY PopHolds, Zenon DEF ZebraInv, ZebraAllocate, QueueEmpty
<1>3. /\ slab_info' \in [Slabs -> SlabStates]
      /\ InState("kFreeSlab")' = InState("kFreeSlab") \ {s}
      /\ InState("kQuarantinedSlab")' = InState("kQuarantinedSlab") \ {s}
  BY StateMoves, Zenon DEF ZebraInv, ZebraAllocate, SlabStates
<1>4. InState("kQuarantinedSlab") \ {s} = InState("kQuarantinedSlab")
  BY <1>2, Zenon DEF InState
<1> QED
  BY <1>1, <1>3, <1>4, Zenon DEF ZebraInv, ZebraAllocate, N

(* Free returns an allocated slab.                                         *)
LEMMA FreeKeeps ==
  ASSUME QueuesHaveRoom, ZebraInv, NEW s \in Slabs, slab_info[s] = "kAllocatedSlab", ZebraFree(s)
  PROVE  ZebraInv'
<1>1. s \notin InState("kFreeSlab") /\ s \notin InState("kQuarantinedSlab")
  BY Zenon DEF InState
<1>2. SetState(s, "kFreeSlab") /\ free_slabs' = QueuePush(free_slabs, s, N) /\ UNCHANGED quarantine
  BY Zenon DEF ZebraFree, N
<1>3. Holds(QueuePush(free_slabs, s, N), InState("kFreeSlab") \union {s})
  BY <1>1, PushHolds, Zenon DEF ZebraInv
<1>4. /\ slab_info' \in [Slabs -> SlabStates]
      /\ InState("kFreeSlab")' = InState("kFreeSlab") \union {s}
      /\ InState("kQuarantinedSlab")' = InState("kQuarantinedSlab") \ {s}
  BY <1>2, StateMoves, Zenon DEF ZebraInv, SlabStates
<1> QED
  BY <1>1, <1>2, <1>3, <1>4, Zenon DEF ZebraInv

(* Push quarantines an allocated slab.                                     *)
LEMMA PushKeeps ==
  ASSUME QueuesHaveRoom, ZebraInv, NEW s \in Slabs, ZebraPush(s) PROVE ZebraInv'
<1>1. s \notin InState("kFreeSlab") /\ s \notin InState("kQuarantinedSlab")
  BY Zenon DEF InState, ZebraPush, CanPush
<1>3. Holds(QueuePush(quarantine, s, N), InState("kQuarantinedSlab") \union {s})
  BY <1>1, PushHolds, Zenon DEF ZebraInv
<1>4. /\ slab_info' \in [Slabs -> SlabStates]
      /\ InState("kQuarantinedSlab")' = InState("kQuarantinedSlab") \union {s}
      /\ InState("kFreeSlab")' = InState("kFreeSlab") \ {s}
  BY StateMoves, Zenon DEF ZebraInv, SlabStates, ZebraPush
<1> QED
  BY <1>1, <1>3, <1>4, Zenon DEF ZebraInv, ZebraPush, N

(* Pop gives the oldest quarantined slab back to the caller.               *)
LEMMA PopKeeps ==
  ASSUME ZebraInv, NEW s \in Slabs, ZebraPop(s) PROVE ZebraInv'
<1>1. Holds(QueuePop(quarantine, N), InState("kQuarantinedSlab") \ {s})
  BY PopHolds, Zenon DEF ZebraInv, ZebraPop, QuarantineInvariantIsSatisfied, QueueEmpty
<1>2. s \in InState("kQuarantinedSlab")
  BY PopHolds, Zenon DEF ZebraInv, ZebraPop, QuarantineInvariantIsSatisfied, QueueEmpty
<1>3. /\ slab_info' \in [Slabs -> SlabStates]
      /\ InState("kQuarantinedSlab")' = InState("kQuarantinedSlab") \ {s}
      /\ InState("kFreeSlab")' = InState("kFreeSlab") \ {s}
  BY StateMoves, Zenon DEF ZebraInv, ZebraPop, SlabStates
<1>4. InState("kFreeSlab") \ {s} = InState("kFreeSlab")
  BY <1>2, Zenon DEF InState
<1> QED
  BY <1>1, <1>3, <1>4, Zenon DEF ZebraInv, ZebraPop, N

(* Empty gives all of them back.                                           *)
LEMMA EmptyKeeps ==
  ASSUME ZebraInv, NEW S \in SUBSET Slabs, ZebraEmpty(S) PROVE ZebraInv'
<1> DEFINE q == [buffer |-> quarantine.buffer, head |-> quarantine.tail,
                 tail |-> quarantine.tail, size |-> 0]
<1>1. S = InState("kQuarantinedSlab")
  BY Zenon DEF ZebraInv, ZebraEmpty, Holds, N
<1>2. slab_info' = [s \in Slabs |-> IF s \in S THEN "kAllocatedSlab" ELSE slab_info[s]]
  BY Zenon DEF ZebraEmpty
<1>3. /\ slab_info' \in [Slabs -> SlabStates]
      /\ InState("kQuarantinedSlab")' = {}
      /\ InState("kFreeSlab")' = InState("kFreeSlab")
  BY <1>1, <1>2, Zenon DEF ZebraInv, InState, SlabStates
<1>4. quarantine \in Queues /\ N \in Nat \ {0} /\ 0 \in 0..N
  BY ZebraAssumption DEF ZebraInv, Holds, IsQueue, N
<1>5. quarantine.buffer \in [Slabs -> Slabs] /\ quarantine.tail \in Slabs
  BY <1>4, Zenon DEF Queues
<1>a. q \in Queues
  BY <1>4, <1>5, Zenon DEF Queues
<1>b. q.head = quarantine.tail /\ q.tail = quarantine.tail /\ q.size = 0
  BY Zenon
<1> HIDE DEF q
<1>c. quarantine.tail \in 0..(N - 1)
  BY <1>5, Zenon DEF Slabs, N
<1>6. Occupied(q, N) = {} /\ TailFits(q)
  BY <1>4, <1>b, <1>c DEF Occupied, TailFits
<1>7. Holds(q, {})
  BY <1>a, <1>6, Zenon DEF Holds, IsQueue, NoDuplicates, Elements, N
<1>8. quarantine' = q /\ UNCHANGED free_slabs
  BY Zenon DEF q, ZebraEmpty
<1> QED
  BY <1>3, <1>7, <1>8, Zenon DEF ZebraInv

(* Every call keeps the inductive invariant.                               *)
LEMMA ZebraNextInv ==
  ASSUME QueuesHaveRoom, ZebraInv, [ZebraNext]_zebraVars PROVE ZebraInv'
<1>1. ASSUME NEW s \in Slabs, ZebraAllocate(s) PROVE ZebraInv'
  BY <1>1, AllocateKeeps, Zenon
<1>2. ASSUME NEW s \in Slabs, ZebraPush(s) PROVE ZebraInv'
  BY <1>2, PushKeeps, Zenon
<1>3. ASSUME NEW s \in Slabs, ZebraPop(s) PROVE ZebraInv'
  BY <1>3, PopKeeps, Zenon
<1>4. ASSUME NEW s \in Slabs, slab_info[s] # "kQuarantinedSlab", ZebraFree(s)
      PROVE  ZebraInv'
  <2>1. CASE slab_info[s] = "kFreeSlab"
    BY <1>4, <2>1, Zenon DEF ZebraFree, ZebraInv, InState
  <2>2. CASE slab_info[s] = "kAllocatedSlab"
    BY <1>4, <2>2, FreeKeeps, Zenon
  <2> QED
    BY <1>4, <2>1, <2>2, Zenon DEF ZebraInv, SlabStates
<1>5. ASSUME NEW S \in SUBSET Slabs, ZebraEmpty(S) PROVE ZebraInv'
  BY <1>5, EmptyKeeps, Zenon
<1>6. CASE UNCHANGED zebraVars
  BY <1>6, Zenon DEF zebraVars, ZebraInv, InState
<1> QED
  BY <1>1, <1>2, <1>3, <1>4, <1>5, <1>6, Zenon DEF ZebraNext

-----------------------------------------------------------------------------
(* The refinement.  The contents of a queue are the elements at the places *)
(* from the head on.                                                       *)
LEMMA ContentsShape ==
  ASSUME NEW q, IsQueue(q)
  PROVE  /\ QueueContents(q) \in Seq(Slabs)
         /\ Len(QueueContents(q)) = q.size
         /\ \A i \in 1..q.size : QueueContents(q)[i] = q.buffer[Place(q, i)]
         /\ Occupied(q, N) = {Place(q, i) : i \in 1..q.size}
         /\ \A i \in 1..q.size : Place(q, i) \in Slabs
<1>1. /\ q.head \in 0..(N - 1) /\ q.size \in 0..N
      /\ N \in Nat \ {0} /\ q.buffer \in [Slabs -> Slabs]
  BY ZebraAssumption, Zenon DEF IsQueue, Queues, Slabs, N
<1>2. ASSUME NEW i \in 1..q.size PROVE Place(q, i) \in Slabs
  <2>1. Place(q, i) \in 0..(N - 1)
    BY <1>1 DEF Place, N
  <2> QED
    BY <2>1, Zenon DEF Slabs, N
<1>3. QueueContents(q) \in [1..q.size -> Slabs]
  BY <1>1, <1>2, Zenon DEF QueueContents
<1>4. QueueContents(q) \in Seq(Slabs) /\ Len(QueueContents(q)) = q.size
  BY <1>1, <1>3
<1>5. Occupied(q, N) = {Place(q, i) : i \in 1..q.size}
  <2>1. ASSUME NEW i \in 1..q.size PROVE Place(q, i) \in Occupied(q, N)
    BY <1>1 DEF Place, Occupied, N
  <2>2. ASSUME NEW j \in Occupied(q, N)
        PROVE  \E i \in 1..q.size : j = Place(q, i)
    <3>1. j \in 0..(N - 1)
      BY Zenon DEF Occupied
    <3>2. CASE q.head <= j /\ j < q.head + q.size
      <4>1. j - q.head + 1 \in 1..q.size /\ j = Place(q, j - q.head + 1)
        BY <1>1, <3>1, <3>2 DEF Place, N
      <4> QED
        BY <4>1, Zenon
    <3>3. CASE j + N < q.head + q.size
      <4>1. j + N - q.head + 1 \in 1..q.size /\ j = Place(q, j + N - q.head + 1)
        BY <1>1, <3>1, <3>3 DEF Place, N
      <4> QED
        BY <4>1, Zenon
    <3> QED
      BY <3>2, <3>3, Zenon DEF Occupied
  <2> QED
    BY <2>1, <2>2, Zenon
<1> QED
  BY <1>2, <1>4, <1>5, Zenon DEF QueueContents

(* Sequences with the same elements in the same places are the same.       *)
LEMMA SeqSame ==
  ASSUME NEW S, NEW s \in Seq(S), NEW r \in Seq(S), Len(s) = Len(r),
         \A i \in 1..Len(s) : s[i] = r[i]
  PROVE  s = r
OBVIOUS

(* A push appends to the contents.                                         *)
LEMMA PushAppends ==
  ASSUME NEW q, IsQueue(q), q.size < N, NEW s \in Slabs
  PROVE  QueueContents(QueuePush(q, s, N)) = Append(QueueContents(q), s)
<1> DEFINE r == QueuePush(q, s, N)
<1>1. /\ IsQueue(r)
      /\ q.tail \in Slabs \ Occupied(q, N)
      /\ r.buffer = [q.buffer EXCEPT ![q.tail] = s]
  BY PushShape, Zenon
<1>2. r.head = q.head /\ r.size = q.size + 1
  BY ZebraAssumption DEF QueuePush, N
<1>3. /\ q.head \in 0..(N - 1) /\ q.tail \in 0..(N - 1) /\ q.size \in 0..N
      /\ N \in Nat \ {0} /\ q.buffer \in [Slabs -> Slabs]
  BY ZebraAssumption, Zenon DEF IsQueue, Queues, Slabs, N
<1> HIDE DEF r
<1>4. \A i \in 1..(q.size + 1) : Place(r, i) = Place(q, i)
  BY <1>2, Zenon DEF Place
<1>5. Place(q, q.size + 1) = q.tail
  BY <1>3 DEF IsQueue, TailFits, Place, N
<1>6. \A i \in 1..q.size : Place(q, i) \in Slabs /\ Place(q, i) # q.tail
  BY <1>1, ContentsShape
<1>7. \A i \in 1..q.size : r.buffer[Place(r, i)] = q.buffer[Place(q, i)]
  BY <1>1, <1>3, <1>4, <1>6
<1>8. r.buffer[Place(r, q.size + 1)] = s
  BY <1>1, <1>3, <1>4, <1>5
<1> DEFINE c == QueueContents(q)
           d == QueueContents(r)
<1>9. c \in Seq(Slabs) /\ Len(c) = q.size /\ \A i \in 1..q.size : c[i] = q.buffer[Place(q, i)]
  BY ContentsShape, Zenon
<1>10. /\ d \in Seq(Slabs) /\ Len(d) = q.size + 1
       /\ \A i \in 1..(q.size + 1) : d[i] = r.buffer[Place(r, i)]
  BY <1>1, <1>2, ContentsShape, Zenon
<1> HIDE DEF c, d
<1>a. \A i \in 1..q.size : d[i] = c[i]
  BY <1>3, <1>7, <1>9, <1>10
<1>b. d[Len(c) + 1] = s
  <2>1. q.size + 1 \in 1..(q.size + 1)
    BY <1>3
  <2> QED
    BY <1>8, <1>9, <1>10, <2>1, Zenon
<1>c. Append(c, s) \in Seq(Slabs) /\ Len(Append(c, s)) = Len(d)
  BY <1>9, <1>10
<1>d. \A i \in 1..Len(d) : Append(c, s)[i] = d[i]
  BY <1>3, <1>9, <1>10, <1>a, <1>b
<1>11. d = Append(c, s)
  BY <1>10, <1>c, <1>d, SeqSame, Zenon
<1> QED
  BY <1>11, Zenon DEF c, d, r

(* A pop removes the first of the contents.                                *)
LEMMA PopTakesHead ==
  ASSUME NEW q, IsQueue(q), q.size # 0
  PROVE  /\ QueueContents(q) # << >>
         /\ Head(QueueContents(q)) = QueueFront(q)
         /\ QueueContents(QueuePop(q, N)) = Tail(QueueContents(q))
<1> DEFINE r == QueuePop(q, N)
<1>1. IsQueue(r) /\ r.buffer = q.buffer
  BY PopShape, Zenon
<1>2. r.head = Following(q.head, N) /\ r.size = q.size - 1
  BY Zenon DEF QueuePop
<1>a. /\ q.head \in 0..(N - 1) /\ q.size \in 0..N /\ N \in Nat \ {0}
      /\ q.buffer \in [Slabs -> Slabs]
  BY ZebraAssumption, Zenon DEF IsQueue, Queues, Slabs, N
<1>3. /\ q.head \in 0..(N - 1) /\ q.size \in 1..N /\ N \in Nat \ {0}
      /\ q.buffer \in [Slabs -> Slabs]
  BY <1>a
<1> HIDE DEF r
<1>4. \A i \in 1..(q.size - 1) : Place(r, i) = Place(q, i + 1)
  BY <1>2, <1>3 DEF Place, Following, N
<1>5. Place(q, 1) = q.head
  BY <1>3 DEF Place, N
<1> DEFINE c == QueueContents(q)
           d == QueueContents(r)
<1>6. c \in Seq(Slabs) /\ Len(c) = q.size /\ \A i \in 1..q.size : c[i] = q.buffer[Place(q, i)]
  BY ContentsShape, Zenon
<1>7. /\ d \in Seq(Slabs) /\ Len(d) = q.size - 1
      /\ \A i \in 1..(q.size - 1) : d[i] = q.buffer[Place(r, i)]
  BY <1>1, <1>2, ContentsShape, Zenon
<1> HIDE DEF c, d
<1>8. c # << >> /\ Head(c) = q.buffer[q.head]
  BY <1>3, <1>5, <1>6
<1>9. ASSUME NEW i \in 1..(q.size - 1) PROVE d[i] = c[i + 1]
  <2>1. i + 1 \in 1..q.size
    BY <1>3
  <2> QED
    BY <2>1, <1>4, <1>6, <1>7, Zenon
<1>b. /\ Tail(c) \in Seq(Slabs) /\ Len(Tail(c)) = Len(d)
      /\ \A i \in 1..Len(d) : Tail(c)[i] = c[i + 1]
  BY <1>6, <1>7, <1>8
<1>10. d = Tail(c)
  BY <1>7, <1>9, <1>b, SeqSame, Zenon
<1> QED
  BY <1>8, <1>10, Zenon DEF c, d, r, QueueFront

(* The names of the abstract pool's state.                                 *)
FreeSlabs == QueueContents(free_slabs)
AllocatedSlabs == InState("kAllocatedSlab")
QuarantinedSlabs == QueueContents(quarantine)

(* The constructor maps to the pool's initial state.                       *)
LEMMA ZebraInitRefines == ZebraInit => Pool!PoolInit([i \in 1..SlabCount |-> i - 1])
<1> SUFFICES ASSUME ZebraInit PROVE Pool!PoolInit([i \in 1..SlabCount |-> i - 1])
  BY Zenon
<1>1. N \in Nat \ {0}
  BY ZebraAssumption, Zenon DEF N
<1>2. AllocatedSlabs = {}
  BY Zenon DEF ZebraInit, AllocatedSlabs, InState
<1>3. FreeSlabs = [i \in 1..N |-> i - 1]
  <2> DEFINE q == free_slabs
  <2>1. q.head = 0 /\ q.size = N /\ q.buffer = [i \in Slabs |-> i]
    BY Zenon DEF ZebraInit, N
  <2>2. \A i \in 1..N : Place(q, i) = i - 1 /\ i - 1 \in Slabs
    BY <1>1, <2>1 DEF Place, Slabs, N
  <2> HIDE DEF q
  <2>3. \A i \in 1..N : q.buffer[Place(q, i)] = i - 1
    BY <2>1, <2>2, Zenon
  <2>4. QueueContents(q) = [i \in 1..N |-> i - 1]
    BY <2>1, <2>3, Zenon DEF QueueContents
  <2> QED
    BY <2>4, Zenon DEF q, FreeSlabs
<1>4. QuarantinedSlabs = << >>
  <2>1. quarantine.size = 0
    BY Zenon DEF ZebraInit, NewQueue
  <2>2. IsQueue(quarantine)
    BY ZebraInitInv, Zenon DEF ZebraInv, Holds
  <2> QED
    BY <2>1, <2>2, ContentsShape DEF QuarantinedSlabs
<1> QED
  BY <1>2, <1>3, <1>4, Zenon
     DEF Pool!PoolInit, FreeSlabs, AllocatedSlabs, QuarantinedSlabs, InState, N

(* AllocateImpl implements AllocateSlab.                                   *)
LEMMA AllocateRefines ==
  ASSUME ZebraInv, NEW s \in Slabs, ZebraAllocate(s) PROVE Pool!AllocateSlab
<1>1. FreeSlabs # << >> /\ s = Head(FreeSlabs) /\ FreeSlabs' = Tail(FreeSlabs)
  BY PopTakesHead, Zenon DEF ZebraInv, Holds, ZebraAllocate, QueueEmpty, FreeSlabs, N
<1>2. AllocatedSlabs' = AllocatedSlabs \union {s}
  BY StateMoves, Zenon DEF ZebraInv, ZebraAllocate, SlabStates, AllocatedSlabs
<1>3. QuarantinedSlabs' = QuarantinedSlabs
  BY Zenon DEF ZebraAllocate, QuarantinedSlabs
<1> QED
  BY <1>1, <1>2, <1>3, Zenon
     DEF Pool!AllocateSlab, FreeSlabs, AllocatedSlabs, QuarantinedSlabs, InState

(* Free implements FreeSlab.                                               *)
LEMMA FreeRefines ==
  ASSUME QueuesHaveRoom, ZebraInv, NEW s \in Slabs, slab_info[s] = "kAllocatedSlab", ZebraFree(s)
  PROVE  Pool!FreeSlab
<1>1. SetState(s, "kFreeSlab") /\ free_slabs' = QueuePush(free_slabs, s, N) /\ UNCHANGED quarantine
  BY Zenon DEF ZebraFree, N
<1>2. s \notin InState("kFreeSlab") /\ s \in AllocatedSlabs
  BY Zenon DEF InState, AllocatedSlabs
<1>3. IsQueue(free_slabs) /\ free_slabs.size < N
  BY <1>2, Zenon DEF QueuesHaveRoom, ZebraInv, Holds
<1>4. FreeSlabs' = Append(FreeSlabs, s)
  BY <1>1, <1>3, PushAppends, Zenon DEF FreeSlabs
<1>5. AllocatedSlabs' = AllocatedSlabs \ {s}
  BY <1>1, StateMoves, Zenon DEF ZebraInv, SlabStates, AllocatedSlabs
<1>6. QuarantinedSlabs' = QuarantinedSlabs
  BY <1>1, Zenon DEF QuarantinedSlabs
<1> QED
  BY <1>2, <1>4, <1>5, <1>6, Zenon
     DEF Pool!FreeSlab, FreeSlabs, AllocatedSlabs, QuarantinedSlabs, InState

(* Push implements QuarantineSlab.                                         *)
LEMMA PushRefines ==
  ASSUME QueuesHaveRoom, ZebraInv, NEW s \in Slabs, ZebraPush(s) PROVE Pool!QuarantineSlab
<1>2. s \notin InState("kQuarantinedSlab") /\ s \in AllocatedSlabs
  BY Zenon DEF InState, AllocatedSlabs, ZebraPush, CanPush
<1>3. IsQueue(quarantine) /\ quarantine.size < N
  BY <1>2, Zenon DEF QueuesHaveRoom, ZebraInv, Holds
<1>4. QuarantinedSlabs' = Append(QuarantinedSlabs, s)
  BY <1>3, PushAppends, Zenon DEF QuarantinedSlabs, ZebraPush, N
<1>5. AllocatedSlabs' = AllocatedSlabs \ {s}
  BY StateMoves, Zenon DEF ZebraInv, SlabStates, AllocatedSlabs, ZebraPush
<1>6. FreeSlabs' = FreeSlabs
  BY Zenon DEF FreeSlabs, ZebraPush
<1> QED
  BY <1>2, <1>4, <1>5, <1>6, Zenon
     DEF Pool!QuarantineSlab, FreeSlabs, AllocatedSlabs, QuarantinedSlabs, InState

(* Pop implements ReleaseSlabs for the oldest slab.                        *)
LEMMA PopRefines ==
  ASSUME ZebraInv, NEW s \in Slabs, ZebraPop(s) PROVE Pool!ReleaseSlabs
<1>1. /\ QuarantinedSlabs # << >> /\ s = Head(QuarantinedSlabs)
      /\ QuarantinedSlabs' = Tail(QuarantinedSlabs)
  BY PopTakesHead, Zenon DEF ZebraInv, Holds, ZebraPop, QuarantineInvariantIsSatisfied,
                      QueueEmpty, QuarantinedSlabs, N
<1>2. AllocatedSlabs' = AllocatedSlabs \union {s}
  BY StateMoves, Zenon DEF ZebraInv, ZebraPop, SlabStates, AllocatedSlabs
<1>3. FreeSlabs' = FreeSlabs
  BY Zenon DEF ZebraPop, FreeSlabs
<1> QED
  BY <1>1, <1>2, <1>3, Zenon
     DEF Pool!ReleaseSlabs, FreeSlabs, AllocatedSlabs, QuarantinedSlabs, InState

(* Empty implements ReleaseSlabs for all of them, or nothing.              *)
LEMMA EmptyRefines ==
  ASSUME ZebraInv, NEW S \in SUBSET Slabs, ZebraEmpty(S)
  PROVE  Pool!ReleaseSlabs \/ UNCHANGED Pool!poolVars
<1>1. IsQueue(quarantine) /\ S = InState("kQuarantinedSlab")
  BY Zenon DEF ZebraInv, Holds, ZebraEmpty, N
<1>2. AllocatedSlabs' = AllocatedSlabs \union S
  BY <1>1, Zenon DEF ZebraInv, ZebraEmpty, AllocatedSlabs, InState
<1>3. FreeSlabs' = FreeSlabs
  BY Zenon DEF ZebraEmpty, FreeSlabs
<1>4. QuarantinedSlabs' = << >>
  <2>1. quarantine'.size = 0
    BY Zenon DEF ZebraEmpty
  <2>2. IsQueue(quarantine')
    BY EmptyKeeps, Zenon DEF ZebraInv, Holds
  <2> QED
    BY <2>1, <2>2, ContentsShape DEF QuarantinedSlabs
<1>5. S = {QuarantinedSlabs[i] : i \in DOMAIN QuarantinedSlabs}
  <2>1. S = {quarantine.buffer[j] : j \in Occupied(quarantine, N)}
    BY Zenon DEF ZebraEmpty, Elements, N
  <2>2. DOMAIN QuarantinedSlabs = 1..quarantine.size
    BY Zenon DEF QuarantinedSlabs, QueueContents
  <2> QED
    BY <1>1, <2>1, <2>2, ContentsShape DEF QuarantinedSlabs
<1>6. CASE QuarantinedSlabs = << >>
  <2>1. S = {}
    BY <1>5, <1>6
  <2> QED
    BY <1>2, <1>3, <1>4, <1>6, <2>1, Zenon
      DEF Pool!poolVars, FreeSlabs, AllocatedSlabs, QuarantinedSlabs, InState
<1>7. CASE QuarantinedSlabs # << >>
  BY <1>2, <1>3, <1>4, <1>5, <1>7, Zenon
    DEF Pool!ReleaseSlabs, FreeSlabs, AllocatedSlabs, QuarantinedSlabs, InState
<1> QED
  BY <1>6, <1>7, Zenon

(* Every call of the zebra heap is a step of the pool or changes nothing.  *)
LEMMA ZebraNextRefines ==
  ASSUME QueuesHaveRoom, ZebraInv, [ZebraNext]_zebraVars
  PROVE  [Pool!PoolNext]_(Pool!poolVars)
<1> USE DEF Pool!PoolNext
<1>1. ASSUME NEW s \in Slabs, ZebraAllocate(s) PROVE Pool!PoolNext
  BY <1>1, AllocateRefines, Zenon
<1>2. ASSUME NEW s \in Slabs, ZebraPush(s) PROVE Pool!PoolNext
  BY <1>2, PushRefines, Zenon
<1>3. ASSUME NEW s \in Slabs, ZebraPop(s) PROVE Pool!PoolNext
  BY <1>3, PopRefines, Zenon
<1>4. ASSUME NEW s \in Slabs, slab_info[s] # "kQuarantinedSlab", ZebraFree(s)
      PROVE  [Pool!PoolNext]_(Pool!poolVars)
  <2>1. CASE slab_info[s] = "kFreeSlab"
    BY <1>4, <2>1, Zenon DEF ZebraFree, Pool!poolVars
  <2>2. CASE slab_info[s] = "kAllocatedSlab"
    BY <1>4, <2>2, FreeRefines, Zenon
  <2> QED
    BY <1>4, <2>1, <2>2, Zenon DEF ZebraInv, SlabStates
<1>5. ASSUME NEW S \in SUBSET Slabs, ZebraEmpty(S)
      PROVE  [Pool!PoolNext]_(Pool!poolVars)
  BY <1>5, EmptyRefines, Zenon
<1>6. CASE UNCHANGED zebraVars
  BY <1>6, Zenon DEF zebraVars, Pool!poolVars
<1> QED
  BY <1>1, <1>2, <1>3, <1>4, <1>5, <1>6, Zenon DEF ZebraNext

-----------------------------------------------------------------------------
(* The inductive invariant, in parts.                                      *)

(* A list that has x, and one that has nothing twice.                      *)
Has(s, x) == \E k \in 1..Len(s) : s[k] = x
Distinct(s) == \A k, l \in 1..Len(s) : s[k] = s[l] => k = l

(* The types of the variables other than the zebra heap's.                 *)
Types ==
  /\ QuarantineTypeOK /\ maxSize \in QuarantineSizes
  /\ header \in [AllBlocks -> {"FREED_BLOCK", "ALLOCATED_BLOCK", "QUARANTINED_BLOCK"}]
  /\ inUse \subseteq Blocks /\ protected \subseteq AllBlocks
  /\ heaps \in [AllHeaps -> {"none", "live", "dying", "dead"}] /\ clashed \in BOOLEAN
  /\ thread \in [Threads -> WorkSet]

(* A thread that is at w and c is pushing x, or has popped it and has yet  *)
(* to collect it.                                                          *)
Pushes(w, x) == w.pc \in {"push", "pushing"} /\ w.block = x
Pops(c, x) == c.op \in {"load", "subtract"} /\ c.block = x

(* The blocks in the hands of a thread.                                    *)
Holding(w, c, x) ==
  Pushes(w, x) \/ Pops(c, x) \/ Has(c.taken, x) \/ Has(w.todo, x) \/ x \in w.vec

(* Block x is in the hands of thread t, in a shard, or in any quarantine.  *)
Hand(t, x) == Holding(thread[t], call[t], x)
InShard(x) == \E i \in Shards : Has(shards[i], x)
InSlab(x) == x \in Slabs /\ slab_info[x] = "kQuarantinedSlab"
Held(x) == InShard(x) \/ InSlab(x) \/ \E t \in Threads : Hand(t, x)

(* Where the operation on the quarantine is that a thread is in.           *)
OpOK(w, c) ==
  /\ w.pc = "pushing" => c.op = "add"
  /\ w.pc = "pop" =>
       c.op = "none" \/ (w.q = "shared" /\ c.op \in {"scan", "load", "subtract"})
  /\ w.pc = "empty" => c.op \in {"none", "empty", "reset"}
  /\ w.pc \notin {"pushing", "pop", "empty"} => c.op = "none"
  /\ c.op \notin {"empty", "reset"} => c.taken = << >>
  /\ c.op \in {"load", "subtract"} => c.block \in Blocks

(* What a thread has at hand at each of its steps.                         *)
WorkOK(w) ==
  /\ w.pc \in {"mark", "push", "pushing", "protect"} =>
       w.block \in AllBlocks /\ w.q = IF w.block \in Slabs THEN "zebra" ELSE "shared"
  /\ w.pc = "pushing" => w.q = "shared"
  /\ w.pc = "protect" => w.q = "zebra"
  /\ w.heap # None =>
       w.pc \in {"empty", "reinsert", "push", "pushing", "free", "erase"} /\ w.q = "shared"
  /\ w.pc \in {"reinsert", "erase"} => w.heap # None
  /\ w.todo # << >> => w.heap # None /\ w.pc \in {"reinsert", "push", "pushing"}
  /\ w.vec # {} => \/ w.pc \in {"pop", "free", "reinsert"}
                   \/ w.heap # None /\ w.pc \in {"push", "pushing"}

(* A thread has no block twice.                                            *)
ApartOK(w, c) ==
  /\ Distinct(c.taken) /\ Distinct(w.todo)
  /\ \A x : Pushes(w, x) => ~Has(w.todo, x) /\ x \notin w.vec
  /\ \A x : Pops(c, x) => x \notin w.vec
  /\ \A x : Has(w.todo, x) => x \notin w.vec

PlaceOK(w, c) == OpOK(w, c) /\ WorkOK(w) /\ ApartOK(w, c)

LocalOK == \A t \in Threads : PlaceOK(thread[t], call[t])

(* A heap is destroyed by one thread, and is live while a client frees a   *)
(* block of it.                                                            *)
HeapsAt(t) ==
  /\ thread[t].heap # None =>
       /\ heaps[thread[t].heap] = "dying"
       /\ \A u \in Threads : thread[u].heap = thread[t].heap => u = t
  /\ thread[t].heap = None /\ thread[t].block # None =>
       heaps[GetHeap(thread[t].block)] = "live"

HeapsOK == heaps[ZebraHeap] = "live" /\ \A t \in Threads : HeapsAt(t)

(* A block that is about to be marked as quarantined is allocated, and no  *)
(* other thread is about to mark it.                                       *)
MarkAt(t) ==
  thread[t].pc = "mark" =>
    /\ header[thread[t].block] = "ALLOCATED_BLOCK"
    /\ \A u \in Threads : thread[u].pc = "mark" /\ thread[u].block = thread[t].block => u = t

MarksOK == \A t \in Threads : MarkAt(t)

(* A block is in the list of its shard, once.                              *)
ShardsOK ==
  \A i \in Shards : Distinct(shards[i]) /\ \A x : Has(shards[i], x) => ShardOf[x] = i

(* A block in the hands of a thread is nowhere else.                       *)
OwnersAt(t) ==
  \A x : Hand(t, x) =>
    /\ ~InShard(x) /\ (x \in Slabs => slab_info[x] = "kAllocatedSlab")
    /\ \A u \in Threads : Hand(u, x) => u = t

OwnersOK == \A t \in Threads : OwnersAt(t)

(* The header of a block agrees with its heap and with where the block is. *)
HeaderAt(x) ==
  IF Alive(x)
  THEN /\ header[x] = "FREED_BLOCK" <=>
            IF x \in Slabs THEN slab_info[x] = "kFreeSlab" ELSE x \notin inUse
       /\ header[x] = "QUARANTINED_BLOCK" <=> Held(x)
  ELSE header[x] = "FREED_BLOCK"

HeadersOK == \A x \in AllBlocks : HeaderAt(x)

(* The shards that a thread which destroys a heap has emptied.             *)
Emptied(w, c, i) == w.pc # "empty" \/ c.op = "reset" \/ (c.op = "empty" /\ i < c.at)

(* As long as one heap at a time is destroyed, the blocks of the heap are  *)
(* not in the shards that have been emptied, and those put back are alive. *)
Returns(w, c, x) == Pushes(w, x) \/ Has(c.taken, x) \/ Has(w.todo, x)

ClashAt(t) ==
  thread[t].heap # None =>
    /\ \A u \in Threads : thread[u].heap # None => u = t
    /\ \A x : Pushes(thread[t], x) => GetHeap(x) # thread[t].heap
    /\ \A x : Returns(thread[t], call[t], x) => Alive(x)
    /\ \A i \in Shards : Emptied(thread[t], call[t], i) =>
         \A x : Has(shards[i], x) => GetHeap(x) # thread[t].heap

ClashOK ==
  ~clashed => /\ \A x : InShard(x) => Alive(x)
              /\ \A t \in Threads : ClashAt(t)

(* The inductive invariant.                                                *)
ManagerInv ==
  /\ Types /\ LocalOK /\ HeapsOK /\ MarksOK /\ ShardsOK /\ OwnersOK
  /\ HeadersOK /\ ClashOK /\ SharedProtectedIsQuarantined

HeapInv == ManagerInv /\ ZebraInv

-----------------------------------------------------------------------------
(* Lists.                                                                  *)

(* An empty list.                                                          *)
LEMMA ListEmpty ==
  << >> \in Seq(Blocks) /\ Distinct(<< >>) /\ \A x : ~Has(<< >>, x)
BY DEF Has, Distinct

(* What is in a list of blocks is a block.                                 *)
LEMMA ListHas ==
  ASSUME NEW s \in Seq(Blocks)
  PROVE  /\ \A x : Has(s, x) => x \in Blocks
         /\ \A x : x \in Range(s) <=> Has(s, x)
BY DEF Has, Range

(* Taking the head of a list.                                              *)
LEMMA ListTail ==
  ASSUME NEW s \in Seq(Blocks), s # << >>, Distinct(s), NEW c, c = Head(s), NEW r, r = Tail(s)
  PROVE  /\ c \in Blocks /\ r \in Seq(Blocks) /\ Distinct(r) /\ Has(s, c)
         /\ \A d : Has(r, d) <=> Has(s, d) /\ d # c
<1>1. /\ Len(s) \in Nat /\ 1 \in 1..Len(s) /\ c = s[1] /\ c \in Blocks
      /\ r \in Seq(Blocks) /\ Len(r) = Len(s) - 1 /\ \A k \in 1..Len(r) : r[k] = s[k + 1]
  OBVIOUS
<1>2. ASSUME NEW k \in 1..Len(r) PROVE k + 1 \in 1..Len(s) /\ k + 1 # 1 /\ r[k] = s[k + 1]
  BY <1>1
<1>3. ASSUME NEW k \in 1..Len(s), k # 1 PROVE k - 1 \in 1..Len(r) /\ r[k - 1] = s[k]
  <2>1. k - 1 \in 1..Len(r) /\ (k - 1) + 1 = k  BY <1>1, <1>3
  <2> QED  BY <1>2, <2>1, Zenon
<1>4. Distinct(r)
  <2>1. ASSUME NEW k \in 1..Len(r), NEW l \in 1..Len(r), r[k] = r[l] PROVE k = l
    <3>1. k + 1 \in 1..Len(s) /\ l + 1 \in 1..Len(s) /\ s[k + 1] = s[l + 1]
      BY <1>2, <2>1, Zenon
    <3>2. k + 1 = l + 1  BY <3>1, Zenon DEF Distinct
    <3> QED  BY <3>2
  <2> QED  BY <2>1, Zenon DEF Distinct
<1>5. \A k \in 1..Len(s) : s[k] = c => k = 1  BY <1>1, Zenon DEF Distinct
<1>6. ASSUME NEW d, Has(r, d) PROVE Has(s, d) /\ d # c
  BY <1>2, <1>5, <1>6, Zenon DEF Has
<1>7. ASSUME NEW d, Has(s, d), d # c PROVE Has(r, d)
  <2>1. PICK k \in 1..Len(s) : s[k] = d /\ k # 1  BY <1>1, <1>7, Zenon DEF Has
  <2> QED  BY <1>3, <2>1, Zenon DEF Has
<1>8. Has(s, c)  BY <1>1, Zenon DEF Has
<1> QED  BY <1>1, <1>4, <1>6, <1>7, <1>8, Zenon

(* Joining two sequences.                                                  *)
LEMMA SeqJoin ==
  ASSUME NEW S, NEW s \in Seq(S), NEW m \in Seq(S)
  PROVE  /\ s \o m \in Seq(S) /\ Len(s \o m) = Len(s) + Len(m)
         /\ \A j \in 1..Len(s) : (s \o m)[j] = s[j]
         /\ \A j \in 1..Len(m) : (s \o m)[Len(s) + j] = m[j]
<1>1. s \o m \in Seq(S) /\ Len(s \o m) = Len(s) + Len(m)  OBVIOUS
<1>2. ASSUME NEW j \in 1..Len(s) PROVE (s \o m)[j] = s[j]
  BY <1>1
<1>3. ASSUME NEW j \in 1..Len(m) PROVE (s \o m)[Len(s) + j] = m[j]
  <2>1. Len(s) \in Nat /\ Len(m) \in Nat  OBVIOUS
  <2>2. Len(s) + j \in 1..(Len(s) + Len(m)) /\ Len(s) + j > Len(s) /\ (Len(s) + j) - Len(s) = j
    BY <2>1
  <2> QED  BY <2>1, <2>2
<1> QED  BY <1>1, <1>2, <1>3, Zenon

(* Joining two lists that have nothing in common.                          *)
LEMMA ListJoin ==
  ASSUME NEW s \in Seq(Blocks), NEW m \in Seq(Blocks), Distinct(s), Distinct(m),
         \A x : ~(Has(s, x) /\ Has(m, x)), NEW r, r = s \o m
  PROVE  /\ r \in Seq(Blocks) /\ Distinct(r)
         /\ \A x : Has(r, x) <=> Has(s, x) \/ Has(m, x)
<1>1. /\ r \in Seq(Blocks) /\ Len(r) = Len(s) + Len(m)
      /\ \A j \in 1..Len(s) : r[j] = s[j]
      /\ \A j \in 1..Len(m) : r[Len(s) + j] = m[j]
  BY SeqJoin
<1>2. Len(s) \in Nat /\ Len(m) \in Nat  OBVIOUS
<1>3. ASSUME NEW k \in 1..Len(r)
      PROVE  \/ k \in 1..Len(s) /\ r[k] = s[k]
             \/ \E j \in 1..Len(m) : k = Len(s) + j /\ r[k] = m[j]
  <2>1. CASE k <= Len(s)
    <3>1. k \in 1..Len(s)  BY <1>1, <1>2, <2>1
    <3> QED  BY <1>1, <3>1, Zenon
  <2>2. CASE k > Len(s)
    <3>1. PICK j \in 1..Len(m) : k = Len(s) + j
      <4>1. k - Len(s) \in 1..Len(m) /\ k = Len(s) + (k - Len(s))  BY <1>1, <1>2, <2>2
      <4> QED  BY <4>1, Zenon
    <3> QED  BY <1>1, <3>1, Zenon
  <2> QED  BY <1>2, <2>1, <2>2
<1>4. Distinct(r)
  <2>1. ASSUME NEW k \in 1..Len(r), NEW l \in 1..Len(r), r[k] = r[l] PROVE k = l
    <3>1. CASE k \in 1..Len(s) /\ r[k] = s[k] /\ l \in 1..Len(s) /\ r[l] = s[l]
      BY <2>1, <3>1, Zenon DEF Distinct
    <3>2. CASE k \in 1..Len(s) /\ r[k] = s[k] /\ \E j \in 1..Len(m) : r[l] = m[j]
      BY <2>1, <3>2, Zenon DEF Has
    <3>3. CASE l \in 1..Len(s) /\ r[l] = s[l] /\ \E j \in 1..Len(m) : r[k] = m[j]
      BY <2>1, <3>3, Zenon DEF Has
    <3>4. CASE /\ \E j \in 1..Len(m) : k = Len(s) + j /\ r[k] = m[j]
               /\ \E j \in 1..Len(m) : l = Len(s) + j /\ r[l] = m[j]
      BY <2>1, <3>4, Zenon DEF Distinct
    <3> QED  BY <1>3, <3>1, <3>2, <3>3, <3>4, Zenon
  <2> QED  BY <2>1, Zenon DEF Distinct
<1>5. ASSUME NEW x, Has(r, x) PROVE Has(s, x) \/ Has(m, x)
  <2>1. PICK k \in 1..Len(r) : r[k] = x  BY <1>5, Zenon DEF Has
  <2> QED  BY <1>3, <2>1, Zenon DEF Has
<1>6. ASSUME NEW x, Has(s, x) PROVE Has(r, x)
  <2>1. PICK k \in 1..Len(s) : s[k] = x  BY <1>6, Zenon DEF Has
  <2>2. k \in 1..Len(r)  BY <1>1, <1>2
  <2> QED  BY <1>1, <2>1, <2>2, Zenon DEF Has
<1>7. ASSUME NEW x, Has(m, x) PROVE Has(r, x)
  <2>1. PICK k \in 1..Len(m) : m[k] = x  BY <1>7, Zenon DEF Has
  <2>2. Len(s) + k \in 1..Len(r)  BY <1>1, <1>2
  <2> QED  BY <1>1, <2>1, <2>2, Zenon DEF Has
<1> QED  BY <1>1, <1>4, <1>5, <1>6, <1>7, Zenon

(* Putting a block at the end of a list that does not have it.             *)
LEMMA ListAppend ==
  ASSUME NEW s \in Seq(Blocks), Distinct(s), NEW c \in Blocks, ~Has(s, c),
         NEW r, r = Append(s, c)
  PROVE  /\ r \in Seq(Blocks) /\ Distinct(r)
         /\ \A x : Has(r, x) <=> Has(s, x) \/ x = c
<1>1. PICK m : m = <<c>>  BY Zenon
<1>2. m \in Seq(Blocks) /\ Len(m) = 1 /\ m[1] = c  BY <1>1
<1>3. Distinct(m) /\ \A x : Has(m, x) <=> x = c  BY <1>2 DEF Distinct, Has
<1>4. r = s \o m  BY <1>1
<1> QED  BY <1>2, <1>3, <1>4, ListJoin, Zenon

-----------------------------------------------------------------------------
(* What a step of thread t leaves alone.                                   *)

(* The other threads.                                                      *)
Others(t) == \A u \in Threads \ {t} : thread'[u] = thread[u] /\ call'[u] = call[u]

(* Thread t is at w and c after the step.                                  *)
StepsTo(t, w, c) ==
  thread' \in [Threads -> WorkSet] /\ call' \in [Threads -> CallSet]
  /\ Others(t) /\ thread'[t] = w /\ call'[t] = c

(* Unfolds the invariant.                                                  *)
LEMMA Parts ==
  ASSUME HeapInv
  PROVE  /\ Types /\ ZebraInv /\ LocalOK /\ HeapsOK /\ MarksOK /\ ShardsOK /\ OwnersOK
         /\ HeadersOK /\ ClashOK /\ SharedProtectedIsQuarantined
BY Zenon DEF HeapInv, ManagerInv

(* The invariant for one thread.                                           *)
LEMMA ThreadParts ==
  ASSUME HeapInv, NEW t \in Threads
  PROVE  /\ OpOK(thread[t], call[t]) /\ WorkOK(thread[t]) /\ ApartOK(thread[t], call[t])
         /\ HeapsAt(t) /\ MarkAt(t) /\ OwnersAt(t)
BY Zenon DEF HeapInv, ManagerInv, LocalOK, PlaceOK, HeapsOK, MarksOK, OwnersOK

(* The fields of a thread's records.                                       *)
LEMMA WorkFields ==
  ASSUME Types, NEW t \in Threads
  PROVE  /\ thread[t] \in WorkSet /\ thread[t].pc \in Steps
         /\ thread[t].heap \in CreatedHeaps \union {None}
         /\ thread[t].block \in AllBlocks \union {None}
         /\ thread[t].todo \in Seq(Blocks) /\ thread[t].vec \in SUBSET AllBlocks
         /\ thread[t].q \in {"shared", "zebra"} /\ thread[t].more \in BOOLEAN
<1>1. thread[t] \in WorkSet  BY Zenon DEF Types
<1> QED  BY <1>1, Zenon DEF WorkSet

(* The fields of a call's record.                                          *)
LEMMA CallFields ==
  ASSUME Types, NEW t \in Threads
  PROVE  /\ call[t] \in CallSet
         /\ call[t].op \in {"none", "add", "scan", "load", "subtract", "empty", "reset"}
         /\ call[t].block \in Blocks \union {None} /\ call[t].read \in 0..(Modulus - 1)
         /\ call[t].at \in Shards /\ call[t].from \in Shards /\ call[t].taken \in Seq(Blocks)
<1>1. call[t] \in CallSet  BY Zenon DEF Types, QuarantineTypeOK
<1> QED  BY <1>1, Zenon DEF CallSet

(* A thread makes a step.                                                  *)
LEMMA WorkUpdate ==
  ASSUME Types, NEW t \in Threads, NEW w \in WorkSet, Set(t, w)
  PROVE  /\ thread' \in [Threads -> WorkSet] /\ thread'[t] = w
         /\ \A u \in Threads \ {t} : thread'[u] = thread[u]
BY Zenon DEF Types, Set

(* The operation of a thread makes a step.                                 *)
LEMMA CallUpdate ==
  ASSUME Types, NEW t \in Threads, NEW c \in CallSet, call' = [call EXCEPT ![t] = c]
  PROVE  /\ call' \in [Threads -> CallSet] /\ call'[t] = c
         /\ \A u \in Threads \ {t} : call'[u] = call[u]
BY Zenon DEF Types, QuarantineTypeOK

(* A block is of the zebra heap or of one that uses the shared quarantine. *)
LEMMA BlockKinds ==
  /\ None \notin AllBlocks /\ Blocks \subseteq AllBlocks /\ Slabs \subseteq AllBlocks
  /\ \A x \in Blocks : x \notin Slabs /\ GetHeap(x) = HeapOf[x] /\ GetHeap(x) # ZebraHeap
                       /\ GetHeap(x) \in AllHeaps
  /\ \A x \in Slabs : GetHeap(x) = ZebraHeap /\ x \notin Blocks
  /\ \A x \in AllBlocks : x \in Blocks \/ x \in Slabs
<1>1. Blocks \intersect Slabs = {} /\ None \notin AllBlocks
  BY HeapAssumption, Zenon
<1>2. ASSUME NEW x \in Blocks PROVE x \notin Slabs  BY <1>1
<1>3. ASSUME NEW x \in Blocks
      PROVE  GetHeap(x) = HeapOf[x] /\ GetHeap(x) # ZebraHeap /\ GetHeap(x) \in AllHeaps
  <2>1. HeapOf[x] \in {ProcessHeap} \union CreatedHeaps  BY HeapAssumption, Zenon
  <2>2. GetHeap(x) = HeapOf[x]  BY <1>2, <1>3, Zenon DEF GetHeap
  <2> QED  BY <2>1, <2>2, HeapAssumption, Zenon DEF AllHeaps
<1>4. ASSUME NEW x \in Slabs PROVE GetHeap(x) = ZebraHeap /\ x \notin Blocks
  BY <1>2, <1>4, Zenon DEF GetHeap
<1> QED  BY <1>1, <1>2, <1>3, <1>4, Zenon DEF AllBlocks

(* What a thread holds is a block.                                         *)
LEMMA HandIsBlock ==
  ASSUME HeapInv, NEW t \in Threads, NEW x, Hand(t, x)
  PROVE  x \in AllBlocks
<1>0. Types /\ OpOK(thread[t], call[t]) /\ WorkOK(thread[t])  BY Parts, ThreadParts, Zenon
<1>1. CASE Pushes(thread[t], x)  BY <1>0, <1>1, Zenon DEF Pushes, WorkOK
<1>2. CASE Pops(call[t], x)  BY <1>0, <1>2, BlockKinds, Zenon DEF Pops, OpOK
<1>3. CASE Has(call[t].taken, x)  BY <1>0, <1>3, CallFields, ListHas, BlockKinds, Zenon
<1>4. CASE Has(thread[t].todo, x)  BY <1>0, <1>4, WorkFields, ListHas, BlockKinds, Zenon
<1>5. CASE x \in thread[t].vec  BY <1>0, <1>5, WorkFields, Zenon
<1> QED  BY <1>1, <1>2, <1>3, <1>4, <1>5, Zenon DEF Hand, Holding

(* The other threads go on holding what they held.                         *)
LEMMA OthersHold ==
  ASSUME NEW t \in Threads, Others(t), NEW u \in Threads \ {t}
  PROVE  /\ thread'[u] = thread[u] /\ call'[u] = call[u]
         /\ \A x : Hand(u, x)' <=> Hand(u, x)
BY Zenon DEF Others, Hand

(* What thread t holds after the step.                                     *)
LEMMA HandNext ==
  ASSUME NEW t \in Threads, NEW w, NEW c, StepsTo(t, w, c)
  PROVE  \A x : Hand(t, x)' <=> Holding(w, c, x)
BY Zenon DEF StepsTo, Hand

(* A step keeps the places of the threads in their calls.                  *)
LEMMA LocalKept ==
  ASSUME HeapInv, NEW t \in Threads, NEW w, NEW c, StepsTo(t, w, c), PlaceOK(w, c)
  PROVE  LocalOK'
<1>1. ASSUME NEW u \in Threads PROVE PlaceOK(thread'[u], call'[u])
  BY Parts, Zenon DEF LocalOK, StepsTo, Others
<1> QED  BY <1>1, Zenon DEF LocalOK

(* Thread t ends its call or goes on with it; if it frees a block for a    *)
(* client then the heap of the block is live.                              *)
Continues(t, w) ==
  /\ w.heap # None => w.heap = thread[t].heap
  /\ w.heap = None /\ w.block # None => heaps[GetHeap(w.block)] = "live"

(* A step of t that changes no heap.                                       *)
LEMMA HeapsKept ==
  ASSUME HeapInv, NEW t \in Threads, NEW w, NEW c, StepsTo(t, w, c), UNCHANGED heaps,
         Continues(t, w)
  PROVE  HeapsOK'
<1>0. ASSUME NEW u \in Threads \ {t} PROVE thread'[u] = thread[u]
  BY <1>0, Zenon DEF StepsTo, Others
<1>1. ASSUME NEW v \in Threads, thread'[v].heap # None PROVE thread[v].heap = thread'[v].heap
  BY <1>0, <1>1, Zenon DEF StepsTo, Continues
<1>2. ASSUME NEW u \in Threads, thread'[u].heap # None, NEW v \in Threads,
             thread'[v].heap = thread'[u].heap
      PROVE  v = u
  <2>1. thread[v].heap = thread[u].heap /\ thread[u].heap # None  BY <1>1, <1>2, Zenon
  <2>2. HeapsAt(u)  BY ThreadParts, Zenon
  <2> QED  BY <2>1, <2>2, Zenon DEF HeapsAt
<1>3. ASSUME NEW u \in Threads, thread'[u].heap # None PROVE heaps'[thread'[u].heap] = "dying"
  <2>1. thread[u].heap = thread'[u].heap  BY <1>1, <1>3, Zenon
  <2>2. HeapsAt(u)  BY ThreadParts, Zenon
  <2> QED  BY <1>3, <2>1, <2>2, Zenon DEF HeapsAt
<1>4. ASSUME NEW u \in Threads, thread'[u].heap = None, thread'[u].block # None
      PROVE  heaps'[GetHeap(thread'[u].block)] = "live"
  <2>1. CASE u = t  BY <1>4, <2>1, Zenon DEF StepsTo, Continues
  <2>2. CASE u # t
    <3>1. HeapsAt(u) /\ thread'[u] = thread[u]  BY <1>0, <2>2, ThreadParts, Zenon
    <3> QED  BY <1>4, <3>1, Zenon DEF HeapsAt
  <2> QED  BY <2>1, <2>2, Zenon
<1>5. \A u \in Threads : HeapsAt(u)'  BY <1>2, <1>3, <1>4, Zenon DEF HeapsAt
<1>6. heaps'[ZebraHeap] = "live"  BY Parts, Zenon DEF HeapsOK
<1> QED  BY <1>5, <1>6, Zenon DEF HeapsOK

(* Thread t is not about to mark a block, and spares those that others are *)
(* about to mark.                                                          *)
LEMMA MarksKept ==
  ASSUME HeapInv, NEW t \in Threads, NEW w, NEW c, StepsTo(t, w, c), w.pc # "mark",
         \A u \in Threads \ {t} : thread[u].pc = "mark" =>
           header'[thread[u].block] = header[thread[u].block]
  PROVE  MarksOK'
<1>0. ASSUME NEW u \in Threads, thread'[u].pc = "mark" PROVE u # t /\ thread'[u] = thread[u]
  BY <1>0, Zenon DEF StepsTo, Others
<1>1. ASSUME NEW u \in Threads, thread'[u].pc = "mark"
      PROVE  /\ header'[thread'[u].block] = "ALLOCATED_BLOCK"
             /\ \A v \in Threads : thread'[v].pc = "mark" /\ thread'[v].block = thread'[u].block
                                     => v = u
  <2>1. MarkAt(u) /\ u # t /\ thread'[u] = thread[u]  BY <1>0, <1>1, ThreadParts, Zenon
  <2>2. header'[thread'[u].block] = "ALLOCATED_BLOCK"  BY <1>1, <2>1, Zenon DEF MarkAt
  <2>3. ASSUME NEW v \in Threads, thread'[v].pc = "mark", thread'[v].block = thread'[u].block
        PROVE  v = u
    BY <1>0, <1>1, <2>1, <2>3, Zenon DEF MarkAt
  <2> QED  BY <2>2, <2>3, Zenon
<1> QED  BY <1>1, Zenon DEF MarksOK, MarkAt

(* The blocks that t holds after a step come from where no other thread    *)
(* could hold them, and t gives nothing to where another thread holds it.  *)
LEMMA OwnersKept ==
  ASSUME HeapInv, NEW t \in Threads, NEW w, NEW c, StepsTo(t, w, c),
         \A x : Holding(w, c, x) =>
           /\ ~InShard(x)' /\ (x \in Slabs => slab_info'[x] = "kAllocatedSlab")
           /\ Hand(t, x) \/ InShard(x) \/ InSlab(x) \/ (\A u \in Threads : ~Hand(u, x)),
         \A u \in Threads \ {t}, x \in AllBlocks : Hand(u, x) =>
           ~InShard(x)' /\ (x \in Slabs => slab_info'[x] = slab_info[x])
  PROVE  OwnersOK'
<1>1. ASSUME NEW u \in Threads \ {t}, NEW x, Hand(u, x)
      PROVE  ~Holding(w, c, x) /\ x \in AllBlocks
  <2>1. OwnersAt(u) /\ x \in AllBlocks  BY <1>1, ThreadParts, HandIsBlock, Zenon
  <2>2. ~InShard(x) /\ ~InSlab(x) /\ ~Hand(t, x)
    BY <1>1, <2>1, Zenon DEF OwnersAt, InSlab
  <2> QED  BY <1>1, <2>1, <2>2, Zenon
<1>2. \A u \in Threads \ {t} : \A x : Hand(u, x)' <=> Hand(u, x)
  BY OthersHold, Zenon DEF StepsTo
<1>3. \A x : Hand(t, x)' <=> Holding(w, c, x)  BY HandNext, Zenon
<1>4. ASSUME NEW u \in Threads \ {t} PROVE OwnersAt(u)'
  <2>1. ASSUME NEW x, Hand(u, x)'
        PROVE  /\ ~InShard(x)' /\ (x \in Slabs => slab_info'[x] = "kAllocatedSlab")
               /\ \A v \in Threads : Hand(v, x)' => v = u
    <3>1. Hand(u, x) /\ ~Holding(w, c, x) /\ x \in AllBlocks  BY <1>1, <1>2, <2>1, Zenon
    <3>2. /\ x \in Slabs => slab_info[x] = "kAllocatedSlab"
          /\ \A v \in Threads : Hand(v, x) => v = u
      BY <3>1, ThreadParts, Zenon DEF OwnersAt
    <3>3. ~InShard(x)' /\ (x \in Slabs => slab_info'[x] = slab_info[x])
      BY <3>1, Zenon
    <3>4. ASSUME NEW v \in Threads, Hand(v, x)' PROVE v = u
      BY <1>2, <1>3, <3>1, <3>2, <3>4, Zenon
    <3> QED  BY <3>2, <3>3, <3>4, Zenon
  <2> QED  BY <2>1, Zenon DEF OwnersAt
<1>5. OwnersAt(t)'
  <2>1. ASSUME NEW x, Hand(t, x)'
        PROVE  /\ ~InShard(x)' /\ (x \in Slabs => slab_info'[x] = "kAllocatedSlab")
               /\ \A v \in Threads : Hand(v, x)' => v = t
    <3>1. Holding(w, c, x)  BY <1>3, <2>1, Zenon
    <3>2. ASSUME NEW v \in Threads, Hand(v, x)' PROVE v = t
      BY <1>1, <1>2, <3>1, <3>2, Zenon
    <3> QED  BY <3>1, <3>2, Zenon
  <2> QED  BY <2>1, Zenon DEF OwnersAt
<1> QED  BY <1>4, <1>5, Zenon DEF OwnersOK

(* No thread puts a block of its heap back, and the blocks that it puts    *)
(* back are alive.                                                         *)
NoClash(w, c) ==
  ~clashed /\ w.heap # None =>
    /\ \A x : Pushes(w, x) => GetHeap(x) # w.heap
    /\ \A x : Returns(w, c, x) => Alive(x)
    /\ \A i \in Shards : Emptied(w, c, i) =>
         \A x : Has(shards'[i], x) => GetHeap(x) # w.heap

(* A block that t pushes is of a heap that is not gone, and not of the     *)
(* heap that another thread destroys, unless two heaps are destroyed at    *)
(* once.                                                                   *)
LEMMA PushedIsAlive ==
  ASSUME HeapInv, NEW t \in Threads, NEW x, Pushes(thread[t], x), ~clashed
  PROVE  /\ Alive(x)
         /\ \A u \in Threads \ {t} : thread[u].heap # None => GetHeap(x) # thread[u].heap
<1>0. /\ HeapsAt(t) /\ WorkOK(thread[t]) /\ ClashAt(t)
  BY Parts, ThreadParts, Zenon DEF ClashOK
<1>1. CASE thread[t].heap # None
  BY <1>0, <1>1, Zenon DEF ClashAt, Returns
<1>2. CASE thread[t].heap = None
  <2>1. x = thread[t].block /\ x # None
    BY <1>0, BlockKinds, Zenon DEF Pushes, WorkOK
  <2>2. heaps[GetHeap(x)] = "live"  BY <1>0, <1>2, <2>1, Zenon DEF HeapsAt
  <2>3. ASSUME NEW u \in Threads, thread[u].heap # None PROVE heaps[thread[u].heap] = "dying"
    BY <2>3, ThreadParts, Zenon DEF HeapsAt
  <2> QED  BY <2>2, <2>3, Zenon DEF Alive
<1> QED  BY <1>1, <1>2, Zenon

(* A step of t that changes no heap and puts only the block that t pushes  *)
(* into a shard.                                                           *)
LEMMA ClashKept ==
  ASSUME HeapInv, NEW t \in Threads, NEW w, NEW c, StepsTo(t, w, c),
         UNCHANGED <<heaps, clashed>>, Continues(t, w), NoClash(w, c),
         \A i \in Shards : \A x : Has(shards'[i], x) => Has(shards[i], x) \/ Pushes(thread[t], x)
  PROVE  ClashOK'
<1> SUFFICES ASSUME ~clashed PROVE ClashOK'  BY Zenon DEF ClashOK
<1>a. ClashOK /\ (\A u \in Threads : ClashAt(u))  BY Parts, Zenon DEF ClashOK
<1>b. \A x : Alive(x)' <=> Alive(x)  BY Zenon DEF Alive
<1>c. ASSUME NEW u \in Threads \ {t} PROVE thread'[u] = thread[u] /\ call'[u] = call[u]
  BY Zenon DEF StepsTo, Others
<1>d. thread'[t] = w /\ call'[t] = c  BY Zenon DEF StepsTo
<1>1. ASSUME NEW v \in Threads, thread'[v].heap # None PROVE thread[v].heap = thread'[v].heap
  BY <1>1, <1>c, <1>d, Zenon DEF Continues
<1>2. ASSUME NEW u \in Threads, thread'[u].heap # None, NEW v \in Threads, thread'[v].heap # None
      PROVE  v = u
  <2>1. thread[u].heap # None /\ thread[v].heap # None  BY <1>1, <1>2, Zenon
  <2> QED  BY <1>a, <2>1, Zenon DEF ClashAt
<1>3. ASSUME NEW x, InShard(x)' PROVE Alive(x)'
  <2>1. InShard(x) \/ Pushes(thread[t], x)  BY <1>3, Zenon DEF InShard
  <2> QED  BY <1>a, <1>b, <2>1, PushedIsAlive, Zenon DEF ClashOK
<1>4. ASSUME NEW u \in Threads \ {t}, thread'[u].heap # None PROVE ClashAt(u)'
  <2>0. thread'[u] = thread[u] /\ call'[u] = call[u] /\ ClashAt(u)  BY <1>a, <1>c, Zenon
  <2>1. /\ \A x : Pushes(thread'[u], x) => GetHeap(x) # thread'[u].heap
        /\ \A x : Returns(thread'[u], call'[u], x) => Alive(x)'
    BY <1>4, <1>b, <2>0, Zenon DEF ClashAt
  <2>2. ASSUME NEW i \in Shards, Emptied(thread'[u], call'[u], i), NEW x, Has(shards'[i], x)
        PROVE  GetHeap(x) # thread'[u].heap
    <3>1. CASE Has(shards[i], x)  BY <1>4, <2>0, <2>2, <3>1, Zenon DEF ClashAt
    <3>2. CASE Pushes(thread[t], x)  BY <1>4, <2>0, <3>2, PushedIsAlive, Zenon
    <3> QED  BY <2>2, <3>1, <3>2, Zenon
  <2>3. \A v \in Threads : thread'[v].heap # None => v = u  BY <1>2, <1>4, Zenon
  <2> QED  BY <2>1, <2>2, <2>3, Zenon DEF ClashAt
<1>5. ASSUME thread'[t].heap # None PROVE ClashAt(t)'
  <2>1. /\ \A x : Pushes(w, x) => GetHeap(x) # w.heap
        /\ \A x : Returns(w, c, x) => Alive(x)'
        /\ \A i \in Shards : Emptied(w, c, i) =>
             \A x : Has(shards'[i], x) => GetHeap(x) # w.heap
    BY <1>5, <1>b, <1>d, Zenon DEF NoClash
  <2>2. \A v \in Threads : thread'[v].heap # None => v = t  BY <1>2, <1>5, Zenon
  <2> QED  BY <1>d, <2>1, <2>2, Zenon DEF ClashAt
<1>6. ASSUME NEW u \in Threads PROVE ClashAt(u)'
  <2>1. CASE thread'[u].heap = None  BY <2>1, Zenon DEF ClashAt
  <2> QED  BY <1>4, <1>5, <2>1, Zenon
<1> QED  BY <1>3, <1>6, Zenon DEF ClashOK

(* A block whose header, heap and place in a quarantine stay the same.     *)
LEMMA HeaderKept ==
  ASSUME HeapInv, NEW t \in Threads, NEW w, NEW c, StepsTo(t, w, c), NEW x \in AllBlocks,
         header'[x] = header[x], Alive(x)' <=> Alive(x), x \in inUse' <=> x \in inUse,
         x \in Slabs => (slab_info'[x] = "kFreeSlab" <=> slab_info[x] = "kFreeSlab"),
         Holding(w, c, x) \/ InShard(x)' \/ InSlab(x)' <=> Hand(t, x) \/ InShard(x) \/ InSlab(x)
  PROVE  HeaderAt(x)'
<1>1. Hand(t, x)' <=> Holding(w, c, x)  BY HandNext, Zenon
<1>2. \A u \in Threads \ {t} : Hand(u, x)' <=> Hand(u, x)  BY OthersHold, Zenon DEF StepsTo
<1>3. Held(x)' <=> Held(x)
  <2>1. ASSUME Held(x) PROVE Held(x)'
    <3>1. CASE InShard(x) \/ InSlab(x) \/ Hand(t, x)  BY <1>1, <3>1, Zenon DEF Held
    <3>2. CASE \E u \in Threads \ {t} : Hand(u, x)  BY <1>2, <3>2, Zenon DEF Held
    <3> QED  BY <2>1, <3>1, <3>2, Zenon DEF Held
  <2>2. ASSUME Held(x)' PROVE Held(x)
    <3>1. CASE InShard(x)' \/ InSlab(x)' \/ Hand(t, x)'  BY <1>1, <3>1, Zenon DEF Held
    <3>2. CASE \E u \in Threads \ {t} : Hand(u, x)'  BY <1>2, <3>2, Zenon DEF Held
    <3> QED  BY <2>2, <3>1, <3>2, Zenon DEF Held
  <2> QED  BY <2>1, <2>2, Zenon
<1>4. HeaderAt(x)  BY Parts, Zenon DEF HeadersOK
<1>5. CASE Alive(x)
  <2>1. Alive(x)'  BY <1>5, Zenon
  <2>2. header'[x] = "FREED_BLOCK" <=>
          IF x \in Slabs THEN slab_info'[x] = "kFreeSlab" ELSE x \notin inUse'
    BY <1>4, <1>5, Zenon DEF HeaderAt
  <2>3. header'[x] = "QUARANTINED_BLOCK" <=> Held(x)'  BY <1>3, <1>4, <1>5, Zenon DEF HeaderAt
  <2> QED  BY <2>1, <2>2, <2>3, Zenon DEF HeaderAt
<1>6. CASE ~Alive(x)
  <2>1. ~Alive(x)' /\ header'[x] = "FREED_BLOCK"  BY <1>4, <1>6, Zenon DEF HeaderAt
  <2> QED  BY <2>1, Zenon DEF HeaderAt
<1> QED  BY <1>5, <1>6, Zenon

-----------------------------------------------------------------------------
(* Steps of thread t that move blocks among the quarantines and its hands. *)

(* The variables that no part of the invariant but the types speaks of.    *)
RestTyped ==
  /\ locks \in [Shards -> Threads \union {None}] /\ size \in 0..(Modulus - 1)
  /\ raced \in BOOLEAN /\ maxSize \in QuarantineSizes /\ protected \subseteq AllBlocks

(* Thread t may be about to mark its block after the step.                 *)
MayMark(t, w) ==
  w.pc = "mark" =>
    /\ header[w.block] = "ALLOCATED_BLOCK"
    /\ \A u \in Threads \ {t} : ~(thread[u].pc = "mark" /\ thread[u].block = w.block)

(* What t holds after the step it held before or took from a quarantine,   *)
(* and what it has put into a quarantine it held: no block gets lost.      *)
Moves(t, w, c) ==
  \A x :
    /\ Holding(w, c, x) =>
         /\ ~InShard(x)' /\ (x \in Slabs => slab_info'[x] = "kAllocatedSlab")
         /\ Hand(t, x) \/ InShard(x) \/ InSlab(x)
    /\ InSlab(x)' => InSlab(x) \/ Hand(t, x)
    /\ InShard(x) \/ InSlab(x) \/ Hand(t, x) => InShard(x)' \/ InSlab(x)' \/ Holding(w, c, x)

(* The slabs that the step does not move stay as they are.                 *)
SlabsMove(t) ==
  \A x \in Slabs :
    /\ slab_info'[x] = slab_info[x] \/ InSlab(x) \/ Hand(t, x)
    /\ slab_info'[x] = "kFreeSlab" <=> slab_info[x] = "kFreeSlab"

(* Thread t may be about to mark a block.                                  *)
LEMMA MarkKept ==
  ASSUME HeapInv, NEW t \in Threads, NEW w, NEW c, StepsTo(t, w, c), MayMark(t, w),
         UNCHANGED header
  PROVE  MarksOK'
<1>1. CASE w.pc # "mark"  BY <1>1, MarksKept, Zenon
<1>2. CASE w.pc = "mark"
  <2>0. /\ thread'[t] = w /\ header[w.block] = "ALLOCATED_BLOCK"
        /\ \A u \in Threads \ {t} : ~(thread[u].pc = "mark" /\ thread[u].block = w.block)
    BY <1>2, Zenon DEF StepsTo, MayMark
  <2>a. \A u \in Threads \ {t} : thread'[u] = thread[u]  BY Zenon DEF StepsTo, Others
  <2>1. ASSUME NEW u \in Threads, thread'[u].pc = "mark"
        PROVE  /\ header'[thread'[u].block] = "ALLOCATED_BLOCK"
               /\ \A v \in Threads : thread'[v].pc = "mark" /\ thread'[v].block = thread'[u].block
                                       => v = u
    <3>1. CASE u = t
      <4>1. ASSUME NEW v \in Threads, thread'[v].pc = "mark", thread'[v].block = thread'[u].block,
                   v # u
            PROVE  FALSE
        BY <2>0, <2>a, <3>1, <4>1, Zenon
      <4> QED  BY <2>0, <3>1, <4>1, Zenon
    <3>2. CASE u # t
      <4>0. thread'[u] = thread[u] /\ MarkAt(u)  BY <2>a, <3>2, ThreadParts, Zenon
      <4>1. header'[thread'[u].block] = "ALLOCATED_BLOCK"  BY <2>1, <4>0, Zenon DEF MarkAt
      <4>2. ASSUME NEW v \in Threads, thread'[v].pc = "mark", thread'[v].block = thread'[u].block
            PROVE  v = u
        <5>1. CASE v = t  BY <2>0, <2>1, <3>2, <4>0, <4>2, <5>1, Zenon
        <5>2. CASE v # t  BY <2>1, <2>a, <4>0, <4>2, <5>2, Zenon DEF MarkAt
        <5> QED  BY <5>1, <5>2, Zenon
      <4> QED  BY <4>1, <4>2, Zenon
    <3> QED  BY <3>1, <3>2, Zenon
  <2> QED  BY <2>1, Zenon DEF MarksOK, MarkAt
<1> QED  BY <1>1, <1>2, Zenon

(* Such a step keeps the invariant if it leaves the headers and the heaps  *)
(* alone and protects no block but the one it pushes.                      *)
LEMMA MoveKeeps ==
  ASSUME HeapInv, NEW t \in Threads, NEW w, NEW c, StepsTo(t, w, c),
         UNCHANGED <<header, inUse, heaps, clashed>>, RestTyped',
         shards' \in [Shards -> Seq(Blocks)], ShardsOK',
         PlaceOK(w, c), Continues(t, w), MayMark(t, w), NoClash(w, c), Moves(t, w, c), SlabsMove(t),
         \A i \in Shards : \A x : Has(shards'[i], x) => Has(shards[i], x) \/ Pushes(thread[t], x),
         \A x \in Blocks : x \in protected' => x \in protected \/ Pushes(thread[t], x)
  PROVE  ManagerInv'
<1>0. Types /\ HeadersOK /\ SharedProtectedIsQuarantined /\ OwnersOK  BY Parts, Zenon
<1>a. \A x : Alive(x)' <=> Alive(x)  BY Zenon DEF Alive
<1>1. Types'
  <2>1. QuarantineTypeOK'  BY Zenon DEF RestTyped, StepsTo, QuarantineTypeOK
  <2> QED  BY <1>0, <2>1, Zenon DEF RestTyped, StepsTo, Types
<1>2. LocalOK'  BY LocalKept, Zenon
<1>3. HeapsOK'  BY HeapsKept, Zenon
<1>4. MarksOK'  BY MarkKept, Zenon
<1>5. OwnersOK'
  <2>1. \A x : Holding(w, c, x) =>
          /\ ~InShard(x)' /\ (x \in Slabs => slab_info'[x] = "kAllocatedSlab")
          /\ Hand(t, x) \/ InShard(x) \/ InSlab(x) \/ (\A u \in Threads : ~Hand(u, x))
    BY Zenon DEF Moves
  <2>2. ASSUME NEW u \in Threads \ {t}, NEW x \in AllBlocks, Hand(u, x)
        PROVE  ~InShard(x)' /\ (x \in Slabs => slab_info'[x] = slab_info[x])
    <3>1. OwnersAt(u)  BY ThreadParts, Zenon
    <3>2. ~InShard(x) /\ ~InSlab(x) /\ ~Hand(t, x)  BY <2>2, <3>1, Zenon DEF OwnersAt, InSlab
    <3>3. ~Pushes(thread[t], x)  BY <3>2, Zenon DEF Hand, Holding
    <3>4. ~InShard(x)'  BY <3>2, <3>3, Zenon DEF InShard
    <3> QED  BY <3>2, <3>4, Zenon DEF SlabsMove
  <2> QED  BY <2>1, <2>2, OwnersKept, Zenon
<1>6. HeadersOK'
  <2>1. ASSUME NEW x \in AllBlocks PROVE HeaderAt(x)'
    <3>1. InShard(x)' => InShard(x) \/ Hand(t, x)  BY Zenon DEF InShard, Hand, Holding
    <3>2. Holding(w, c, x) \/ InShard(x)' \/ InSlab(x)' <=> Hand(t, x) \/ InShard(x) \/ InSlab(x)
      BY <3>1, Zenon DEF Moves
    <3>3. x \in Slabs => (slab_info'[x] = "kFreeSlab" <=> slab_info[x] = "kFreeSlab")
      BY Zenon DEF SlabsMove
    <3>4. header'[x] = header[x] /\ (x \in inUse' <=> x \in inUse) /\ (Alive(x)' <=> Alive(x))
      BY <1>a, Zenon
    <3> QED  BY <3>2, <3>3, <3>4, HeaderKept, Zenon
  <2> QED  BY <2>1, Zenon DEF HeadersOK
<1>7. ClashOK'  BY ClashKept, Zenon
<1>8. SharedProtectedIsQuarantined'
  <2>1. ASSUME NEW x \in Blocks, x \in protected', Alive(x) \/ ~clashed
        PROVE  header[x] = "QUARANTINED_BLOCK"
    <3>1. CASE x \in protected  BY <1>0, <2>1, <3>1, Zenon DEF SharedProtectedIsQuarantined
    <3>2. CASE Pushes(thread[t], x)
      <4>1. Alive(x)  BY <2>1, <3>2, PushedIsAlive, Zenon
      <4>2. Held(x)  BY <3>2, Zenon DEF Held, Hand, Holding
      <4>3. x \in AllBlocks  BY BlockKinds, Zenon
      <4> QED  BY <1>0, <4>1, <4>2, <4>3, Zenon DEF HeadersOK, HeaderAt
    <3> QED  BY <2>1, <3>1, <3>2, Zenon
  <2> QED  BY <1>a, <2>1, Zenon DEF SharedProtectedIsQuarantined
<1> QED  BY <1>1, <1>2, <1>3, <1>4, <1>5, <1>6, <1>7, <1>8, Zenon DEF ManagerInv

(* A step that moves no block from where it is.                            *)
LEMMA QuietKeeps ==
  ASSUME HeapInv, NEW t \in Threads, NEW w, NEW c, StepsTo(t, w, c),
         UNCHANGED <<shards, zebraVars, header, inUse, heaps, clashed>>, RestTyped',
         PlaceOK(w, c), Continues(t, w), MayMark(t, w), NoClash(w, c),
         \A x : Holding(w, c, x) <=> Hand(t, x),
         \A x \in Blocks : x \in protected' => x \in protected
  PROVE  ManagerInv'
<1>0. Types /\ ShardsOK /\ OwnersAt(t)  BY Parts, ThreadParts, Zenon
<1>a. shards' = shards /\ slab_info' = slab_info  BY Zenon DEF zebraVars
<1>b. \A x : (InShard(x)' <=> InShard(x)) /\ (InSlab(x)' <=> InSlab(x))
  BY <1>a, Zenon DEF InShard, InSlab
<1>1. shards' \in [Shards -> Seq(Blocks)]  BY <1>0, <1>a, Zenon DEF Types, QuarantineTypeOK
<1>2. ShardsOK'  BY <1>0, <1>a, Zenon DEF ShardsOK
<1>3. Moves(t, w, c)
  <2>1. ASSUME NEW x, Hand(t, x)
        PROVE  ~InShard(x) /\ (x \in Slabs => slab_info[x] = "kAllocatedSlab")
    BY <1>0, <2>1, Zenon DEF OwnersAt
  <2> QED  BY <1>a, <1>b, <2>1, Zenon DEF Moves
<1>4. SlabsMove(t)  BY <1>a, Zenon DEF SlabsMove
<1>5. \A i \in Shards : \A x : Has(shards'[i], x) => Has(shards[i], x) \/ Pushes(thread[t], x)
  BY <1>a, Zenon
<1> QED  BY <1>1, <1>2, <1>3, <1>4, <1>5, MoveKeeps, Zenon

-----------------------------------------------------------------------------
(* The records after a step.                                               *)

(* The step of a call changes.                                             *)
LEMMA GotoFields ==
  ASSUME NEW v \in WorkSet, NEW p \in Steps, NEW w, w = [v EXCEPT !.pc = p]
  PROVE  /\ w \in WorkSet /\ w.pc = p /\ w.heap = v.heap /\ w.block = v.block
         /\ w.todo = v.todo /\ w.vec = v.vec /\ w.q = v.q /\ w.more = v.more
BY DEF WorkSet

(* A thread that is in no call.                                            *)
LEMMA NoWorkFields ==
  /\ NoWork \in WorkSet /\ NoWork.pc = "idle" /\ NoWork.heap = None /\ NoWork.block = None
  /\ NoWork.todo = << >> /\ NoWork.vec = {} /\ NoWork.q = "shared" /\ NoWork.more = FALSE
BY ListEmpty DEF NoWork, WorkSet, Steps

(* A thread that is in no operation of the quarantine.                     *)
LEMMA NoCallFields ==
  /\ NoCall \in CallSet /\ NoCall.op = "none" /\ NoCall.block = None /\ NoCall.read = 0
  /\ NoCall.at = 0 /\ NoCall.from = 0 /\ NoCall.taken = << >>
<1>1. 0 \in Shards /\ 0 \in 0..(Modulus - 1)  BY QuarantineAssumption DEF Shards
<1> QED  BY <1>1, ListEmpty DEF NoCall, CallSet

(* Thread t changes what it does and stays in its operation, if any.       *)
LEMMA StepsInWork ==
  ASSUME HeapInv, NEW t \in Threads, NEW w \in WorkSet, Set(t, w), UNCHANGED call
  PROVE  StepsTo(t, w, call[t])
<1>1. Types  BY Parts, Zenon
<1>2. /\ thread' \in [Threads -> WorkSet] /\ thread'[t] = w
      /\ \A u \in Threads \ {t} : thread'[u] = thread[u]
  BY <1>1, WorkUpdate, Zenon
<1>3. call \in [Threads -> CallSet]  BY <1>1, Zenon DEF Types, QuarantineTypeOK
<1> QED  BY <1>2, <1>3, Zenon DEF StepsTo, Others

(* Thread t makes a step of its operation.                                 *)
LEMMA StepsInCall ==
  ASSUME HeapInv, NEW t \in Threads, NEW c \in CallSet, call' = [call EXCEPT ![t] = c],
         UNCHANGED thread
  PROVE  StepsTo(t, thread[t], c)
<1>1. Types  BY Parts, Zenon
<1>2. /\ call' \in [Threads -> CallSet] /\ call'[t] = c
      /\ \A u \in Threads \ {t} : call'[u] = call[u]
  BY <1>1, CallUpdate, Zenon
<1>3. thread \in [Threads -> WorkSet]  BY <1>1, Zenon DEF Types
<1> QED  BY <1>2, <1>3, Zenon DEF StepsTo, Others

(* Thread t does both.                                                     *)
LEMMA StepsInBoth ==
  ASSUME HeapInv, NEW t \in Threads, NEW w \in WorkSet, Set(t, w),
         NEW c \in CallSet, call' = [call EXCEPT ![t] = c]
  PROVE  StepsTo(t, w, c)
<1>1. Types  BY Parts, Zenon
<1>2. /\ thread' \in [Threads -> WorkSet] /\ thread'[t] = w
      /\ \A u \in Threads \ {t} : thread'[u] = thread[u]
  BY <1>1, WorkUpdate, Zenon
<1>3. /\ call' \in [Threads -> CallSet] /\ call'[t] = c
      /\ \A u \in Threads \ {t} : call'[u] = call[u]
  BY <1>1, CallUpdate, Zenon
<1> QED  BY <1>2, <1>3, Zenon DEF StepsTo, Others

(* The other variables keep their types.                                   *)
LEMMA RestKept ==
  ASSUME HeapInv, UNCHANGED <<locks, size, raced, maxSize>>, protected' \subseteq AllBlocks
  PROVE  RestTyped'
<1>1. Types  BY Parts, Zenon
<1> QED  BY <1>1, Zenon DEF Types, QuarantineTypeOK, RestTyped

(* A thread whose call has nothing of a list at hand has no block twice.   *)
LEMMA ApartPlain ==
  ASSUME NEW w, NEW c, w.todo = << >>, c.taken = << >>, w.pc \notin {"push", "pushing"},
         \A x : Pops(c, x) => x \notin w.vec
  PROVE  ApartOK(w, c)
BY ListEmpty, Zenon DEF ApartOK, Pushes

(* What a thread has at hand, outside a destruction.                       *)
LEMMA PlainThread ==
  ASSUME HeapInv, NEW t \in Threads,
         thread[t].pc \in {"idle", "mark", "protect", "trim", "pop"}
  PROVE  thread[t].heap = None /\ thread[t].todo = << >> /\ call[t].taken = << >>
<1>1. OpOK(thread[t], call[t]) /\ WorkOK(thread[t])  BY ThreadParts, Zenon
<1> QED  BY <1>1, Zenon DEF OpOK, WorkOK

(* A step of a thread that destroys no heap and moves no block.            *)
LEMMA PlainKeeps ==
  ASSUME HeapInv, NEW t \in Threads, NEW w, NEW c, StepsTo(t, w, c),
         UNCHANGED <<shards, zebraVars, header, inUse, heaps, clashed>>, RestTyped',
         OpOK(w, c), WorkOK(w), ApartOK(w, c), w.heap = None, w.pc # "mark",
         w.block = None \/ (w.block = thread[t].block /\ thread[t].heap = None),
         \A x : Holding(w, c, x) <=> Hand(t, x),
         \A x \in Blocks : x \in protected' => x \in protected
  PROVE  ManagerInv'
<1>1. PlaceOK(w, c)  BY Zenon DEF PlaceOK
<1>2. Continues(t, w)  BY ThreadParts, Zenon DEF Continues, HeapsAt
<1>3. MayMark(t, w) /\ NoClash(w, c)  BY Zenon DEF MayMark, NoClash
<1> QED  BY <1>1, <1>2, <1>3, QuietKeeps, Zenon

(* A thread that goes to another step and holds what it held.              *)
LEMMA PlainGoto ==
  ASSUME HeapInv, NEW t \in Threads, NEW p \in {"trim", "pop", "empty", "free"}, Goto(t, p),
         UNCHANGED <<quarantineVars, zebraVars, header, inUse, heaps, clashed>>,
         thread[t].pc \in {"protect", "trim", "pop"}, call[t].op = "none",
         p = "empty" => thread[t].vec = {}, p = "trim" => thread[t].vec = {},
         protected' \subseteq AllBlocks, \A x \in Blocks : x \in protected' => x \in protected
  PROVE  ManagerInv'
<1>0. /\ Types /\ OpOK(thread[t], call[t]) /\ WorkOK(thread[t]) /\ ApartOK(thread[t], call[t])
  BY Parts, ThreadParts, Zenon
<1>a. thread[t].heap = None /\ thread[t].todo = << >> /\ call[t].taken = << >>
  BY PlainThread, Zenon
<1>b. PICK w : w = [thread[t] EXCEPT !.pc = p]  BY Zenon
<1>c. /\ w \in WorkSet /\ w.pc = p /\ w.heap = thread[t].heap /\ w.block = thread[t].block
      /\ w.todo = thread[t].todo /\ w.vec = thread[t].vec /\ w.q = thread[t].q
  <2>1. p \in Steps  BY Zenon DEF Steps
  <2>2. thread[t] \in WorkSet  BY <1>0, WorkFields, Zenon
  <2> QED  BY <1>b, <2>1, <2>2, GotoFields
<1>1. StepsTo(t, w, call[t])
  BY <1>b, <1>c, StepsInWork, Zenon DEF Goto, quarantineVars
<1>2. OpOK(w, call[t])  BY <1>c, <1>a, Zenon DEF OpOK
<1>3. WorkOK(w)  BY <1>c, <1>a, <1>0, Zenon DEF WorkOK
<1>4. \A x : ~Pops(call[t], x)  BY Zenon DEF Pops
<1>5. ApartOK(w, call[t])  BY <1>c, <1>a, <1>4, ApartPlain, Zenon
<1>6. \A x : Holding(w, call[t], x) <=> Hand(t, x)
  BY <1>c, Zenon DEF Hand, Holding, Pushes
<1>7. RestTyped'  BY RestKept, Zenon DEF quarantineVars
<1>8. w.heap = None /\ w.pc # "mark" /\ w.block = thread[t].block  BY <1>c, <1>a, Zenon
<1> QED
  BY <1>1, <1>2, <1>3, <1>5, <1>6, <1>7, <1>8, <1>a, PlainKeeps, Zenon DEF quarantineVars

(* The zebra heap's push ends.                                             *)
LEMMA ProtectZebraKeeps ==
  ASSUME HeapInv, NEW t \in Threads, ProtectZebra(t)
  PROVE  ManagerInv' /\ UNCHANGED zebraVars
<1>0. OpOK(thread[t], call[t]) /\ WorkOK(thread[t]) /\ thread[t].pc = "protect" /\ Types
  BY Parts, ThreadParts, Zenon DEF ProtectZebra, At
<1>1. thread[t].block \in Slabs /\ thread[t].vec = {} /\ call[t].op = "none"
  BY <1>0, Zenon DEF OpOK, WorkOK
<1>2. Goto(t, "trim")
  BY <1>0, PlainThread, Zenon DEF ProtectZebra, Pushed, Destroying
<1>3. protected' \subseteq AllBlocks /\ \A x \in Blocks : x \in protected' => x \in protected
  BY <1>0, <1>1, BlockKinds, Zenon DEF ProtectZebra, BlockProtectAll, Types
<1> QED  BY <1>0, <1>1, <1>2, <1>3, PlainGoto, Zenon DEF ProtectZebra, heapVars

(* A trimming thread goes on to the next of its loops.                     *)
LEMMA TrimGoes ==
  ASSUME HeapInv, NEW t \in Threads, thread[t].pc \in {"pop", "trim"},
         NEW p \in {"pop", "empty", "free"}, Goto(t, p),
         UNCHANGED <<quarantineVars, zebraVars, header, inUse, protected, heapVars>>,
         call[t].op = "none", p = "empty" => thread[t].pc = "trim"
  PROVE  ManagerInv'
<1>0. OpOK(thread[t], call[t]) /\ WorkOK(thread[t]) /\ Types
  BY Parts, ThreadParts, Zenon
<1>1. p = "empty" => thread[t].vec = {}  BY <1>0, Zenon DEF WorkOK
<1>2. protected' \subseteq AllBlocks /\ \A x \in Blocks : x \in protected' => x \in protected
  BY <1>0, Zenon DEF Types
<1> QED  BY <1>1, <1>2, PlainGoto, Zenon DEF heapVars

-----------------------------------------------------------------------------
(* The steps of the shared quarantine that move no block.                  *)

(* Sizes wrap around, and so do the indexes of the shards.                 *)
LEMMA WrapsAround ==
  /\ \A n \in Int : n % Modulus \in 0..(Modulus - 1)
  /\ \A i \in Shards : ShardAfter(i) \in Shards
  /\ 0 \in 0..(Modulus - 1)
<1>1. ASSUME NEW m \in Nat \ {0}, NEW n \in Int PROVE n % m \in 0..(m - 1)
  BY <1>1
<1>2. ASSUME NEW i \in Shards PROVE ShardAfter(i) \in Shards
  <2>1. i + 1 \in Int  BY <1>2 DEF Shards
  <2> QED  BY <1>1, <2>1, QuarantineAssumption, Zenon DEF Shards, ShardAfter
<1>3. 0 \in 0..(Modulus - 1)  BY QuarantineAssumption
<1> QED  BY <1>1, <1>2, <1>3, QuarantineAssumption, Zenon

(* A thread that pops from the shared quarantine.                          *)
LEMMA PopThread ==
  ASSUME HeapInv, NEW t \in Threads, At(t, "pop"), On(t, "shared")
  PROVE  /\ thread[t] \in WorkSet /\ thread[t].pc = "pop" /\ thread[t].q = "shared"
         /\ thread[t].heap = None /\ thread[t].todo = << >> /\ WorkOK(thread[t])
         /\ call[t] \in CallSet /\ call[t].taken = << >>
         /\ call[t].op \in {"none", "scan", "load", "subtract"}
         /\ \A x : Hand(t, x) <=> Pops(call[t], x) \/ x \in thread[t].vec
         /\ \A x : Pops(call[t], x) => x \notin thread[t].vec /\ x \in Blocks
<1>1. /\ OpOK(thread[t], call[t]) /\ WorkOK(thread[t]) /\ ApartOK(thread[t], call[t]) /\ Types
  BY Parts, ThreadParts, Zenon
<1>2. thread[t].pc = "pop" /\ thread[t].q = "shared"  BY Zenon DEF At, On
<1>3. thread[t].heap = None /\ thread[t].todo = << >> /\ call[t].taken = << >>
  BY <1>2, PlainThread, Zenon
<1>4. thread[t] \in WorkSet /\ call[t] \in CallSet  BY <1>1, WorkFields, CallFields, Zenon
<1>5. call[t].op \in {"none", "scan", "load", "subtract"}  BY <1>1, <1>2, Zenon DEF OpOK
<1>6. ASSUME NEW x PROVE Hand(t, x) <=> Pops(call[t], x) \/ x \in thread[t].vec
  BY <1>2, <1>3, ListEmpty, Zenon DEF Hand, Holding, Pushes
<1>7. ASSUME NEW x, Pops(call[t], x) PROVE x \notin thread[t].vec /\ x \in Blocks
  BY <1>1, <1>7, Zenon DEF ApartOK, OpOK, Pops
<1> QED  BY <1>1, <1>2, <1>3, <1>4, <1>5, <1>6, <1>7, Zenon

(* Pop goes on and takes no block in the step.                             *)
LEMMA PopGoesOn ==
  ASSUME HeapInv, NEW t \in Threads, At(t, "pop"), On(t, "shared"), NEW c \in CallSet,
         call' = [call EXCEPT ![t] = c], c.op \in {"scan", "load", "subtract"}, c.taken = << >>,
         \A x : Pops(c, x) <=> Pops(call[t], x),
         c.op \in {"load", "subtract"} => c.block \in Blocks,
         UNCHANGED <<thread, shards, locks, size, maxSize, raced>>,
         UNCHANGED <<zebraVars, header, inUse, protected, heapVars>>
  PROVE  ManagerInv'
<1>0. /\ thread[t].pc = "pop" /\ thread[t].q = "shared" /\ thread[t].heap = None
      /\ thread[t].todo = << >> /\ WorkOK(thread[t])
      /\ \A x : Hand(t, x) <=> Pops(call[t], x) \/ x \in thread[t].vec
      /\ \A x : Pops(call[t], x) => x \notin thread[t].vec
  BY PopThread, Zenon
<1>1. StepsTo(t, thread[t], c)  BY StepsInCall, Zenon
<1>2. OpOK(thread[t], c)  BY <1>0, Zenon DEF OpOK
<1>3. ApartOK(thread[t], c)  BY <1>0, ApartPlain, Zenon
<1>4. \A x : Holding(thread[t], c, x) <=> Hand(t, x)
  BY <1>0, ListEmpty, Zenon DEF Holding, Pushes
<1>5. RestTyped' /\ \A x \in Blocks : x \in protected' => x \in protected
  BY Parts, RestKept, Zenon DEF Types
<1> QED  BY <1>0, <1>1, <1>2, <1>3, <1>4, <1>5, PlainKeeps, Zenon DEF heapVars

(* Pop begins, looks at the next shard or has read the size.               *)
LEMMA PopSteps ==
  ASSUME HeapInv, NEW t \in Threads, At(t, "pop"), On(t, "shared"), UNCHANGED thread,
         UNCHANGED <<zebraVars, header, inUse, protected, heapVars>>,
         PopBegins(t) \/ PopScans(t) \/ PopLoads(t)
  PROVE  ManagerInv'
<1>0. /\ call[t] \in CallSet /\ call[t].taken = << >> /\ Types
      /\ \A x : Pops(call[t], x) => x \in Blocks
  BY PopThread, Parts, Zenon
<1>1. CASE PopBegins(t)
  <2>1. PICK i \in Shards :
          call' = [call EXCEPT ![t] = [NoCall EXCEPT !.op = "scan", !.at = i, !.from = i]]
    BY <1>1, Zenon DEF PopBegins
  <2>2. PICK c : c = [NoCall EXCEPT !.op = "scan", !.at = i, !.from = i]  BY Zenon
  <2>3. c \in CallSet /\ c.op = "scan" /\ c.taken = << >>
    BY <2>2, NoCallFields, Zenon DEF CallSet
  <2>4. \A x : Pops(c, x) <=> Pops(call[t], x)
    BY <1>1, <2>3, Zenon DEF PopBegins, Pops
  <2>5. call' = [call EXCEPT ![t] = c]  BY <2>1, <2>2, Zenon
  <2> QED  BY <1>1, <2>3, <2>4, <2>5, PopGoesOn, Zenon DEF PopBegins
<1>2. CASE PopScans(t)
  <2>1. PICK d : d = call[t]  BY Zenon
  <2>2. PICK c : c = [d EXCEPT !.at = ShardAfter(d.at)]  BY Zenon
  <2>3. d.at \in Shards  BY <1>0, <2>1, CallFields, Zenon
  <2>4. ShardAfter(d.at) \in Shards  BY <2>3, WrapsAround, Zenon
  <2>5. d \in CallSet  BY <1>0, <2>1, Zenon
  <2>6. c \in CallSet /\ c.op = d.op /\ c.taken = d.taken /\ c.block = d.block
    BY <2>2, <2>4, <2>5 DEF CallSet
  <2>7. d.op = "scan" /\ d.taken = << >>  BY <1>0, <1>2, <2>1, Zenon DEF PopScans
  <2>8. \A x : Pops(c, x) <=> Pops(call[t], x)  BY <2>1, <2>6, Zenon DEF Pops
  <2>9. call' = [call EXCEPT ![t] = c]
    BY <1>0, <1>2, <2>1, <2>2 DEF PopScans, Types, QuarantineTypeOK
  <2>a. UNCHANGED <<shards, locks, size, maxSize, raced>>  BY <1>2, Zenon DEF PopScans
  <2>b. c.op = "scan" /\ c.taken = << >>  BY <2>6, <2>7, Zenon
  <2> QED  BY <2>6, <2>8, <2>9, <2>a, <2>b, PopGoesOn, Zenon
<1>3. CASE PopLoads(t)
  <2>1. PICK d : d = call[t]  BY Zenon
  <2>2. PICK c : c = [d EXCEPT !.op = "subtract", !.read = size]  BY Zenon
  <2>3. d \in CallSet /\ size \in 0..(Modulus - 1)
    BY <1>0, <2>1, Zenon DEF Types, QuarantineTypeOK
  <2>4. c \in CallSet /\ c.op = "subtract" /\ c.taken = d.taken /\ c.block = d.block
    BY <2>2, <2>3, Zenon DEF CallSet
  <2>5. d.op = "load" /\ d.taken = << >>  BY <1>0, <1>3, <2>1, Zenon DEF PopLoads
  <2>6. \A x : Pops(c, x) <=> Pops(call[t], x)  BY <2>1, <2>4, <2>5, Zenon DEF Pops
  <2>7. c.block \in Blocks  BY <1>0, <2>1, <2>4, <2>5, Zenon DEF Pops
  <2>8. call' = [call EXCEPT ![t] = c]
    BY <1>0, <1>3, <2>1, <2>2, Zenon DEF PopLoads, Types, QuarantineTypeOK
  <2>9. UNCHANGED <<shards, locks, size, maxSize, raced>>  BY <1>3, Zenon DEF PopLoads
  <2>a. c.op = "subtract" /\ c.taken = << >>  BY <2>4, <2>5, Zenon
  <2> QED  BY <2>4, <2>6, <2>7, <2>8, <2>9, <2>a, PopGoesOn, Zenon
<1> QED  BY <1>1, <1>2, <1>3, Zenon

(* Pop returns false, or with a block that joins the ones to free.         *)
LEMMA PopReturns ==
  ASSUME HeapInv, NEW t \in Threads, At(t, "pop"), On(t, "shared"), NEW w \in WorkSet, Set(t, w),
         call' = [call EXCEPT ![t] = NoCall], UNCHANGED <<shards, locks, maxSize, raced>>,
         size' \in 0..(Modulus - 1), UNCHANGED <<zebraVars, header, inUse, protected, heapVars>>,
         w.pc \in {"pop", "free"}, w.heap = thread[t].heap, w.block = thread[t].block,
         w.todo = thread[t].todo, w.q = thread[t].q,
         \A x : x \in w.vec <=> Pops(call[t], x) \/ x \in thread[t].vec
  PROVE  ManagerInv'
<1>0. /\ thread[t].pc = "pop" /\ thread[t].q = "shared" /\ thread[t].heap = None
      /\ thread[t].todo = << >> /\ WorkOK(thread[t])
      /\ \A x : Hand(t, x) <=> Pops(call[t], x) \/ x \in thread[t].vec
  BY PopThread, Zenon
<1>a. Types  BY Parts, Zenon
<1>1. StepsTo(t, w, NoCall)  BY NoCallFields, StepsInBoth, Zenon
<1>2. OpOK(w, NoCall) /\ WorkOK(w)  BY <1>0, NoCallFields, Zenon DEF OpOK, WorkOK
<1>3. \A x : ~Pops(NoCall, x) /\ ~Pushes(w, x)  BY NoCallFields, Zenon DEF Pops, Pushes
<1>4. ApartOK(w, NoCall)  BY <1>0, <1>3, NoCallFields, ApartPlain, Zenon
<1>5. \A x : Holding(w, NoCall, x) <=> Hand(t, x)
  BY <1>0, <1>3, NoCallFields, ListEmpty, Zenon DEF Holding
<1>6. RestTyped' /\ \A x \in Blocks : x \in protected' => x \in protected
  BY <1>a, Zenon DEF Types, QuarantineTypeOK, RestTyped
<1> QED  BY <1>0, <1>1, <1>2, <1>4, <1>5, <1>6, PlainKeeps, Zenon DEF heapVars

(* Pop finds every shard empty.                                            *)
LEMMA PopFindsNothingKeeps ==
  ASSUME HeapInv, NEW t \in Threads, At(t, "pop"), On(t, "shared"), PopFindsNothing(t),
         Goto(t, "free"), UNCHANGED <<zebraVars, header, inUse, protected, heapVars>>
  PROVE  ManagerInv'
<1>0. thread[t] \in WorkSet /\ Types  BY PopThread, Parts, Zenon
<1>1. /\ call[t].op = "scan" /\ call' = [call EXCEPT ![t] = NoCall]
      /\ UNCHANGED <<shards, locks, size, maxSize, raced>>
  BY Zenon DEF PopFindsNothing
<1>2. PICK w : w = [thread[t] EXCEPT !.pc = "free"]  BY Zenon
<1>3. /\ w \in WorkSet /\ w.pc = "free" /\ w.heap = thread[t].heap /\ w.block = thread[t].block
      /\ w.todo = thread[t].todo /\ w.vec = thread[t].vec /\ w.q = thread[t].q
  BY <1>0, <1>2, GotoFields DEF Steps
<1>4. \A x : x \in w.vec <=> Pops(call[t], x) \/ x \in thread[t].vec
  BY <1>1, <1>3, Zenon DEF Pops
<1>5. Set(t, w) /\ size' \in 0..(Modulus - 1)
  BY <1>0, <1>1, <1>2, Zenon DEF Goto, Types, QuarantineTypeOK
<1> QED  BY <1>1, <1>3, <1>4, <1>5, PopReturns, Zenon

(* Pop returns a block.                                                    *)
LEMMA PopEndsKeeps ==
  ASSUME HeapInv, NEW t \in Threads, At(t, "pop"), On(t, "shared"), NEW b \in Blocks,
         PopEnds(t, b), Collect(t, {b}, "pop"),
         UNCHANGED <<zebraVars, header, inUse, protected, heapVars>>
  PROVE  ManagerInv'
<1>0. thread[t] \in WorkSet /\ Types /\ call[t].read \in 0..(Modulus - 1)
  BY PopThread, Parts, CallFields, Zenon
<1>1. /\ call[t].op = "subtract" /\ call[t].block = b /\ call' = [call EXCEPT ![t] = NoCall]
      /\ size' = (call[t].read - SizeOf[b]) % Modulus /\ UNCHANGED <<shards, locks, maxSize, raced>>
  BY Zenon DEF PopEnds
<1>2. PICK w : w = [thread[t] EXCEPT !.pc = "pop", !.vec = thread[t].vec \union {b}]  BY Zenon
<1>a. thread[t].vec \union {b} \in SUBSET AllBlocks
  BY <1>0, WorkFields, BlockKinds, Zenon
<1>3. /\ w \in WorkSet /\ w.pc = "pop" /\ w.heap = thread[t].heap /\ w.block = thread[t].block
      /\ w.todo = thread[t].todo /\ w.vec = thread[t].vec \union {b} /\ w.q = thread[t].q
  BY <1>0, <1>2, <1>a, Zenon DEF WorkSet, Steps
<1>4. \A x : x \in w.vec <=> Pops(call[t], x) \/ x \in thread[t].vec
  BY <1>1, <1>3, Zenon DEF Pops
<1>5. Set(t, w)  BY <1>2, Zenon DEF Collect
<1>6. size' \in 0..(Modulus - 1)
  <2>1. call[t].read \in Int  BY <1>0
  <2>2. SizeOf[b] \in Int  BY QuarantineAssumption
  <2>3. call[t].read - SizeOf[b] \in Int  BY <2>1, <2>2
  <2> QED  BY <1>1, <2>3, WrapsAround, Zenon
<1>7. w.pc \in {"pop", "free"}  BY <1>3, Zenon
<1> QED  BY <1>1, <1>3, <1>4, <1>5, <1>6, <1>7, PopReturns, Zenon

(* A step of DestroyHeap that moves no block.                              *)
LEMMA DestroyerKeeps ==
  ASSUME HeapInv, NEW t \in Threads, NEW w, NEW c, StepsTo(t, w, c),
         UNCHANGED <<shards, zebraVars, header, inUse, heaps, clashed>>, RestTyped',
         OpOK(w, c), WorkOK(w), ApartOK(w, c), w.heap = thread[t].heap, w.heap # None,
         \A x : Holding(w, c, x) <=> Hand(t, x),
         \A x \in Blocks : x \in protected' => x \in protected,
         \A x : Pushes(w, x) => GetHeap(x) # w.heap,
         \A x : Returns(w, c, x) => Returns(thread[t], call[t], x),
         \A i \in Shards : Emptied(w, c, i) => Emptied(thread[t], call[t], i)
  PROVE  ManagerInv'
<1>1. PlaceOK(w, c)  BY Zenon DEF PlaceOK
<1>2. Continues(t, w)  BY Zenon DEF Continues
<1>3. MayMark(t, w)  BY Zenon DEF MayMark, WorkOK
<1>4. NoClash(w, c)
  <2>1. ~clashed => ClashAt(t)  BY Parts, Zenon DEF ClashOK
  <2> QED  BY <2>1, Zenon DEF NoClash, ClashAt
<1> QED  BY <1>1, <1>2, <1>3, <1>4, QuietKeeps, Zenon

(* A thread that empties the shared quarantine.                            *)
LEMMA EmptyThread ==
  ASSUME HeapInv, NEW t \in Threads, At(t, "empty")
  PROVE  /\ thread[t] \in WorkSet /\ thread[t].pc = "empty" /\ thread[t].todo = << >>
         /\ thread[t].vec = {} /\ WorkOK(thread[t]) /\ call[t] \in CallSet
         /\ call[t].taken \in Seq(Blocks) /\ Distinct(call[t].taken)
         /\ \A x : Hand(t, x) <=> Has(call[t].taken, x)
         /\ call[t].op = "none" => call[t].taken = << >>
<1>1. /\ OpOK(thread[t], call[t]) /\ WorkOK(thread[t]) /\ ApartOK(thread[t], call[t]) /\ Types
  BY Parts, ThreadParts, Zenon
<1>2. thread[t].pc = "empty"  BY Zenon DEF At
<1>3. thread[t].todo = << >> /\ thread[t].vec = {}  BY <1>1, <1>2, Zenon DEF WorkOK
<1>4. thread[t] \in WorkSet /\ call[t] \in CallSet /\ call[t].taken \in Seq(Blocks)
  BY <1>1, WorkFields, CallFields, Zenon
<1>5. call[t].op \in {"none", "empty", "reset"}  BY <1>1, <1>2, Zenon DEF OpOK
<1>6. ASSUME NEW x PROVE Hand(t, x) <=> Has(call[t].taken, x)
  BY <1>2, <1>3, <1>5, ListEmpty, Zenon DEF Hand, Holding, Pushes, Pops
<1>7. Distinct(call[t].taken) /\ (call[t].op = "none" => call[t].taken = << >>)
  BY <1>1, Zenon DEF ApartOK, OpOK
<1> QED  BY <1>1, <1>2, <1>3, <1>4, <1>6, <1>7, Zenon

(* Empty begins.                                                           *)
LEMMA EmptyBeginsKeeps ==
  ASSUME HeapInv, NEW t \in Threads, At(t, "empty"), EmptyBegins(t),
         UNCHANGED <<thread, protected, zebraVars, header, inUse, heapVars>>
  PROVE  ManagerInv'
<1>0. /\ thread[t].pc = "empty" /\ thread[t].todo = << >> /\ thread[t].vec = {}
      /\ WorkOK(thread[t]) /\ \A x : ~Hand(t, x)
  BY EmptyThread, ListEmpty, Zenon DEF EmptyBegins
<1>a. Types  BY Parts, Zenon
<1>1. PICK c : c = [NoCall EXCEPT !.op = "empty"]  BY Zenon
<1>2. c \in CallSet /\ c.op = "empty" /\ c.taken = << >> /\ c.at = 0
  BY <1>1, NoCallFields, Zenon DEF CallSet
<1>3. StepsTo(t, thread[t], c)  BY <1>1, <1>2, StepsInCall, Zenon DEF EmptyBegins
<1>4. OpOK(thread[t], c)  BY <1>0, <1>2, Zenon DEF OpOK
<1>5. \A x : ~Pops(c, x) /\ ~Pushes(thread[t], x) /\ ~Has(c.taken, x) /\ ~Has(thread[t].todo, x)
  BY <1>0, <1>2, ListEmpty, Zenon DEF Pops, Pushes
<1>6. ApartOK(thread[t], c)  BY <1>0, <1>2, <1>5, ApartPlain, Zenon
<1>7. \A x : Holding(thread[t], c, x) <=> Hand(t, x)  BY <1>0, <1>5, Zenon DEF Holding
<1>8. RestTyped' /\ \A x \in Blocks : x \in protected' => x \in protected
  <2>1. raced' \in BOOLEAN  BY Zenon DEF EmptyBegins, Overlaps
  <2> QED  BY <1>a, <2>1, Zenon DEF EmptyBegins, RestTyped, Types, QuarantineTypeOK
<1>9. ASSUME NEW i \in Shards PROVE ~Emptied(thread[t], c, i)
  <2>1. ~(i < c.at)  BY <1>2, QuarantineAssumption DEF Shards
  <2> QED  BY <1>0, <1>2, <2>1, Zenon DEF Emptied
<1>b. UNCHANGED <<shards, zebraVars, header, inUse, heaps, clashed>>
  BY Zenon DEF EmptyBegins, heapVars
<1>10. CASE thread[t].heap = None
  BY <1>0, <1>3, <1>4, <1>6, <1>7, <1>8, <1>b, <1>10, PlainKeeps, Zenon
<1>11. CASE thread[t].heap # None
  <2>1. \A x : ~Returns(thread[t], c, x)  BY <1>5, Zenon DEF Returns
  <2> QED
    BY <1>0, <1>3, <1>4, <1>5, <1>6, <1>7, <1>8, <1>9, <1>b, <1>11, <2>1, DestroyerKeeps, Zenon
<1> QED  BY <1>10, <1>11, Zenon

(* Empty ends with all the blocks of the quarantine in the hands of t: to  *)
(* be freed, or to be gone through by DestroyHeap.                         *)
LEMMA EmptyEndsKeeps ==
  ASSUME HeapInv, NEW t \in Threads, At(t, "empty"), EmptyEnds(t), NEW w \in WorkSet, Set(t, w),
         UNCHANGED <<zebraVars, header, inUse, heapVars>>, protected' \subseteq protected,
         w.heap = thread[t].heap, w.block = thread[t].block, w.q = thread[t].q,
         IF Destroying(t)
         THEN w.pc = "reinsert" /\ w.todo = call[t].taken /\ w.vec = thread[t].vec
         ELSE w.pc = "free" /\ w.todo = thread[t].todo /\ w.vec = Range(call[t].taken)
  PROVE  ManagerInv'
<1>0. /\ thread[t].pc = "empty" /\ thread[t].todo = << >> /\ thread[t].vec = {}
      /\ WorkOK(thread[t]) /\ call[t].taken \in Seq(Blocks) /\ Distinct(call[t].taken)
      /\ \A x : Hand(t, x) <=> Has(call[t].taken, x)
  BY EmptyThread, Zenon
<1>a. Types  BY Parts, Zenon
<1>1. StepsTo(t, w, NoCall)  BY NoCallFields, StepsInBoth, Zenon DEF EmptyEnds
<1>2. OpOK(w, NoCall)  BY NoCallFields, Zenon DEF OpOK
<1>3. WorkOK(w)  BY <1>0, Zenon DEF WorkOK, Destroying
<1>4. \A x : ~Pops(NoCall, x) /\ ~Pushes(w, x) /\ ~Has(NoCall.taken, x)
  BY NoCallFields, ListEmpty, Zenon DEF Pops, Pushes
<1>5. \A x : Holding(w, NoCall, x) <=> Hand(t, x)
  <2>1. \A x : x \in Range(call[t].taken) <=> Has(call[t].taken, x)  BY <1>0, ListHas, Zenon
  <2> QED  BY <1>0, <1>4, <2>1, ListEmpty, Zenon DEF Holding
<1>6. ApartOK(w, NoCall)
  BY <1>0, <1>4, NoCallFields, ListEmpty, Zenon DEF ApartOK
<1>7. RestTyped' /\ \A x \in Blocks : x \in protected' => x \in protected
  <2>1. size' \in 0..(Modulus - 1)  BY WrapsAround, Zenon DEF EmptyEnds
  <2> QED  BY <1>a, <2>1, Zenon DEF EmptyEnds, RestTyped, Types, QuarantineTypeOK
<1>b. UNCHANGED <<shards, zebraVars, header, inUse, heaps, clashed>>
  BY Zenon DEF EmptyEnds, heapVars
<1>8. CASE thread[t].heap = None
  <2>1. w.pc # "mark"  BY Zenon
  <2> QED  BY <1>1, <1>2, <1>3, <1>5, <1>6, <1>7, <1>b, <1>8, <2>1, PlainKeeps, Zenon
<1>9. CASE thread[t].heap # None
  <2>1. \A i \in Shards : Emptied(w, NoCall, i) => Emptied(thread[t], call[t], i)
    BY Zenon DEF Emptied, EmptyEnds
  <2>2. \A x : Returns(w, NoCall, x) => Returns(thread[t], call[t], x)
    BY <1>4, <1>9, Zenon DEF Returns, Destroying
  <2> QED
    BY <1>1, <1>2, <1>3, <1>4, <1>5, <1>6, <1>7, <1>9, <1>b, <2>1, <2>2, DestroyerKeeps, Zenon
<1> QED  BY <1>8, <1>9, Zenon

(* Empty returns to TrimQuarantine or to DestroyHeapContents.              *)
LEMMA EmptyReturns ==
  ASSUME HeapInv, NEW t \in Threads, At(t, "empty"), EmptyEnds(t),
         UNCHANGED <<zebraVars, header, inUse, heapVars>>,
         IF Destroying(t)
         THEN /\ Set(t, [thread[t] EXCEPT !.pc = "reinsert", !.todo = call[t].taken])
              /\ BlockProtectNone(Range(call[t].taken))
         ELSE Collect(t, Range(call[t].taken), "free") /\ UNCHANGED protected
  PROVE  ManagerInv'
<1>0. /\ thread[t] \in WorkSet /\ thread[t].vec = {} /\ call[t].taken \in Seq(Blocks)
  BY EmptyThread, Zenon
<1>1. CASE Destroying(t)
  <2>1. PICK w : w = [thread[t] EXCEPT !.pc = "reinsert", !.todo = call[t].taken]  BY Zenon
  <2>2. /\ w \in WorkSet /\ w.pc = "reinsert" /\ w.todo = call[t].taken /\ w.heap = thread[t].heap
        /\ w.block = thread[t].block /\ w.q = thread[t].q /\ w.vec = thread[t].vec
    BY <1>0, <2>1, Zenon DEF WorkSet, Steps
  <2>3. Set(t, w) /\ protected' \subseteq protected
    BY <1>1, <2>1, Zenon DEF BlockProtectNone
  <2> QED  BY <1>1, <2>2, <2>3, EmptyEndsKeeps, Zenon
<1>2. CASE ~Destroying(t)
  <2>1. PICK V : V = thread[t].vec \union Range(call[t].taken)  BY Zenon
  <2>2. PICK w : w = [thread[t] EXCEPT !.pc = "free", !.vec = V]  BY Zenon
  <2>3. V = Range(call[t].taken) /\ V \in SUBSET AllBlocks
    BY <1>0, <2>1, ListHas, BlockKinds, Zenon
  <2>4. /\ w \in WorkSet /\ w.pc = "free" /\ w.todo = thread[t].todo /\ w.heap = thread[t].heap
        /\ w.block = thread[t].block /\ w.q = thread[t].q /\ w.vec = V
    BY <1>0, <2>2, <2>3, Zenon DEF WorkSet, Steps
  <2>5. Set(t, w)  BY <1>2, <2>1, <2>2, Zenon DEF Collect
  <2>6. protected' \subseteq protected  BY <1>2, Zenon
  <2> QED  BY <1>2, <2>3, <2>4, <2>5, <2>6, EmptyEndsKeeps, Zenon
<1> QED  BY <1>1, <1>2, Zenon

-----------------------------------------------------------------------------
(* The steps of the manager that move no block.                            *)

(* A thread that goes through the blocks of the quarantine.                *)
LEMMA ReinsertThread ==
  ASSUME HeapInv, NEW t \in Threads, At(t, "reinsert")
  PROVE  /\ thread[t] \in WorkSet /\ thread[t].pc = "reinsert" /\ thread[t].heap # None
         /\ thread[t].q = "shared" /\ call[t].op = "none" /\ call[t].taken = << >>
         /\ thread[t].todo \in Seq(Blocks) /\ thread[t].vec \in SUBSET AllBlocks
         /\ Distinct(thread[t].todo) /\ (\A x : Has(thread[t].todo, x) => x \notin thread[t].vec)
         /\ \A x : Hand(t, x) <=> Has(thread[t].todo, x) \/ x \in thread[t].vec
<1>1. /\ OpOK(thread[t], call[t]) /\ WorkOK(thread[t]) /\ ApartOK(thread[t], call[t]) /\ Types
  BY Parts, ThreadParts, Zenon
<1>2. thread[t].pc = "reinsert"  BY Zenon DEF At
<1>3. /\ thread[t].heap # None /\ thread[t].q = "shared" /\ call[t].op = "none"
      /\ call[t].taken = << >>
  BY <1>1, <1>2, Zenon DEF OpOK, WorkOK
<1>4. /\ thread[t] \in WorkSet /\ thread[t].todo \in Seq(Blocks)
      /\ thread[t].vec \in SUBSET AllBlocks
  BY <1>1, WorkFields, Zenon
<1>5. Distinct(thread[t].todo) /\ (\A x : Has(thread[t].todo, x) => x \notin thread[t].vec)
  BY <1>1, Zenon DEF ApartOK
<1>6. ASSUME NEW x PROVE Hand(t, x) <=> Has(thread[t].todo, x) \/ x \in thread[t].vec
  BY <1>2, <1>3, ListEmpty, Zenon DEF Hand, Holding, Pushes, Pops
<1> QED  BY <1>2, <1>3, <1>4, <1>5, <1>6, Zenon

(* A step of DestroyHeap after it has emptied the quarantine, in no        *)
(* operation of the quarantine.                                            *)
LEMMA DestroyerGoesOn ==
  ASSUME HeapInv, NEW t \in Threads, NEW w \in WorkSet, Set(t, w),
         UNCHANGED <<quarantineVars, zebraVars, header, inUse, protected, heapVars>>,
         thread[t].pc # "empty", call[t].op = "none", WorkOK(w),
         w.pc \notin {"pushing", "empty"}, w.heap = thread[t].heap, w.heap # None,
         Distinct(w.todo), \A x : Has(w.todo, x) => x \notin w.vec,
         \A x : Pushes(w, x) => GetHeap(x) # w.heap /\ ~Has(w.todo, x) /\ x \notin w.vec,
         \A x : Pushes(w, x) \/ Has(w.todo, x) \/ x \in w.vec <=> Hand(t, x),
         \A x : Pushes(w, x) \/ Has(w.todo, x) =>
           Pushes(thread[t], x) \/ Has(thread[t].todo, x)
  PROVE  ManagerInv'
<1>0. call[t].taken = << >> /\ Types  BY Parts, ThreadParts, Zenon DEF OpOK
<1>1. StepsTo(t, w, call[t])  BY StepsInWork, Zenon DEF quarantineVars
<1>2. OpOK(w, call[t])  BY <1>0, Zenon DEF OpOK, WorkOK
<1>3. \A x : ~Pops(call[t], x) /\ ~Has(call[t].taken, x)  BY <1>0, ListEmpty, Zenon DEF Pops
<1>4. ApartOK(w, call[t])  BY <1>0, <1>3, ListEmpty, Zenon DEF ApartOK
<1>5. \A x : Holding(w, call[t], x) <=> Hand(t, x)  BY <1>3, Zenon DEF Holding
<1>6. RestTyped' /\ \A x \in Blocks : x \in protected' => x \in protected
  BY <1>0, RestKept, Zenon DEF Types, quarantineVars
<1>7. \A x : Returns(w, call[t], x) => Returns(thread[t], call[t], x)
  BY <1>3, Zenon DEF Returns
<1>8. \A i \in Shards : Emptied(thread[t], call[t], i)  BY Zenon DEF Emptied
<1>9. UNCHANGED <<shards, zebraVars, header, inUse, heaps, clashed>>
  BY Zenon DEF quarantineVars, heapVars
<1>a. \A x : Pushes(w, x) => GetHeap(x) # w.heap  BY Zenon
<1> QED
  BY <1>1, <1>2, <1>4, <1>5, <1>6, <1>7, <1>8, <1>9, <1>a, DestroyerKeeps, Zenon

(* DestroyHeapContents takes the next block, if any.                       *)
LEMMA ReinsertKeeps ==
  ASSUME HeapInv, NEW t \in Threads, Reinsert(t)
  PROVE  ManagerInv' /\ UNCHANGED zebraVars
<1>0. /\ thread[t] \in WorkSet /\ thread[t].pc = "reinsert" /\ thread[t].heap # None
      /\ thread[t].q = "shared" /\ call[t].op = "none" /\ thread[t].todo \in Seq(Blocks)
      /\ thread[t].vec \in SUBSET AllBlocks /\ Distinct(thread[t].todo)
      /\ \A x : Has(thread[t].todo, x) => x \notin thread[t].vec
      /\ \A x : Hand(t, x) <=> Has(thread[t].todo, x) \/ x \in thread[t].vec
  BY ReinsertThread, Zenon DEF Reinsert
<1>a. UNCHANGED <<quarantineVars, zebraVars, header, inUse, protected, heapVars>>
  BY Zenon DEF Reinsert
<1>1. CASE thread[t].todo = << >>
  <2>1. PICK w : w = [thread[t] EXCEPT !.pc = "free", !.block = None]  BY Zenon
  <2>2. /\ w \in WorkSet /\ w.pc = "free" /\ w.heap = thread[t].heap /\ w.q = thread[t].q
        /\ w.todo = thread[t].todo /\ w.vec = thread[t].vec
    BY <1>0, <2>1, Zenon DEF WorkSet, Steps
  <2>3. Set(t, w)  BY <1>1, <2>1, Zenon DEF Reinsert
  <2>4. WorkOK(w)  BY <1>0, <1>1, <2>2, Zenon DEF WorkOK
  <2>5. \A x : ~Pushes(w, x)  BY <2>2, Zenon DEF Pushes
  <2> QED  BY <1>0, <1>a, <2>2, <2>3, <2>4, <2>5, DestroyerGoesOn, Zenon
<1>2. CASE thread[t].todo # << >>
  <2>s. PICK s : s = thread[t].todo  BY Zenon
  <2>0. PICK b, r : b = Head(s) /\ r = Tail(s)  BY Zenon
  <2>a. s \in Seq(Blocks) /\ s # << >> /\ Distinct(s)  BY <1>0, <1>2, <2>s, Zenon
  <2>b. /\ b \in Blocks /\ r \in Seq(Blocks) /\ Distinct(r) /\ Has(s, b)
        /\ \A x : Has(r, x) <=> Has(s, x) /\ x # b
    BY <2>0, <2>a, ListTail, Zenon
  <2>1. /\ b \in Blocks /\ r \in Seq(Blocks) /\ Distinct(r) /\ Has(thread[t].todo, b)
        /\ \A x : Has(r, x) <=> Has(thread[t].todo, x) /\ x # b
    BY <2>b, <2>s, Zenon
  <2>2. b \in AllBlocks /\ b \notin Slabs /\ b # None /\ b \notin thread[t].vec
    BY <1>0, <2>1, BlockKinds, Zenon
  <2>3. CASE GetHeap(b) = thread[t].heap
    <3>1. PICK V : V = thread[t].vec \union {b}  BY Zenon
    <3>2. PICK w : w = [thread[t] EXCEPT !.vec = V, !.todo = r]  BY Zenon
    <3>3. V \in SUBSET AllBlocks  BY <1>0, <2>2, <3>1, Zenon
    <3>4. /\ w \in WorkSet /\ w.pc = thread[t].pc /\ w.heap = thread[t].heap /\ w.q = thread[t].q
          /\ w.todo = r /\ w.vec = V
      BY <1>0, <2>1, <3>2, <3>3, Zenon DEF WorkSet
    <3>5. Set(t, w)  BY <1>2, <2>s, <2>0, <2>3, <3>1, <3>2, Zenon DEF Reinsert
    <3>6. WorkOK(w)  BY <1>0, <3>4, Zenon DEF WorkOK
    <3>7. \A x : ~Pushes(w, x)  BY <1>0, <3>4, Zenon DEF Pushes
    <3>8. \A x : Has(w.todo, x) \/ x \in w.vec <=> Hand(t, x)
      BY <1>0, <2>1, <3>1, <3>4, Zenon
    <3>9. \A x : Has(w.todo, x) => x \notin w.vec /\ Has(thread[t].todo, x)
      BY <1>0, <2>1, <3>1, <3>4, Zenon
    <3>a. w.pc \notin {"pushing", "empty"} /\ w.heap # None /\ Distinct(w.todo)
      BY <1>0, <2>1, <3>4, Zenon
    <3> QED
      BY <1>0, <1>a, <3>4, <3>5, <3>6, <3>7, <3>8, <3>9, <3>a, DestroyerGoesOn, Zenon
  <2>4. CASE GetHeap(b) # thread[t].heap
    <3>1. PICK w : w = [thread[t] EXCEPT !.pc = "push", !.block = b, !.todo = r]  BY Zenon
    <3>2. /\ w \in WorkSet /\ w.pc = "push" /\ w.heap = thread[t].heap /\ w.q = thread[t].q
          /\ w.todo = r /\ w.vec = thread[t].vec /\ w.block = b
      BY <1>0, <2>1, <2>2, <3>1, Zenon DEF WorkSet, Steps
    <3>3. Set(t, w)  BY <1>2, <2>s, <2>0, <2>4, <3>1, Zenon DEF Reinsert
    <3>4. WorkOK(w)  BY <1>0, <2>2, <3>2, Zenon DEF WorkOK
    <3>5. \A x : Pushes(w, x) <=> x = b  BY <3>2, Zenon DEF Pushes
    <3>6. \A x : Pushes(w, x) \/ Has(w.todo, x) \/ x \in w.vec <=> Hand(t, x)
      BY <1>0, <2>1, <3>2, <3>5, Zenon
    <3>7. \A x : Pushes(w, x) => GetHeap(x) # w.heap /\ ~Has(w.todo, x) /\ x \notin w.vec
      BY <2>1, <2>2, <2>4, <3>2, <3>5, Zenon
    <3>8. \A x : Pushes(w, x) \/ Has(w.todo, x) => Has(thread[t].todo, x)
      BY <2>1, <3>2, <3>5, Zenon
    <3>9. /\ w.pc \notin {"pushing", "empty"} /\ w.heap # None /\ Distinct(w.todo)
          /\ \A x : Has(w.todo, x) => x \notin w.vec
      BY <1>0, <2>1, <3>2, Zenon
    <3> QED
      BY <1>0, <1>a, <3>2, <3>3, <3>4, <3>6, <3>7, <3>8, <3>9, DestroyerGoesOn, Zenon
  <2> QED  BY <1>a, <2>3, <2>4, Zenon
<1> QED  BY <1>a, <1>1, <1>2, Zenon

(* A thread that pushes a block, in Free or in DestroyHeap.                *)
LEMMA PushThread ==
  ASSUME HeapInv, NEW t \in Threads, thread[t].pc \in {"push", "pushing"}
  PROVE  /\ thread[t] \in WorkSet /\ thread[t].block \in AllBlocks /\ WorkOK(thread[t])
         /\ thread[t].q = "shared" => thread[t].block \in Blocks
         /\ thread[t].q = "zebra" => thread[t].block \in Slabs /\ thread[t].heap = None
         /\ thread[t].todo \in Seq(Blocks) /\ thread[t].vec \in SUBSET AllBlocks
         /\ call[t].taken = << >> /\ call[t].op = IF thread[t].pc = "push" THEN "none" ELSE "add"
         /\ Distinct(thread[t].todo) /\ (\A x : Has(thread[t].todo, x) => x \notin thread[t].vec)
         /\ ~Has(thread[t].todo, thread[t].block) /\ thread[t].block \notin thread[t].vec
         /\ \A x : Pushes(thread[t], x) <=> x = thread[t].block
         /\ \A x : Hand(t, x) <=>
              x = thread[t].block \/ Has(thread[t].todo, x) \/ x \in thread[t].vec
         /\ thread[t].heap = None => thread[t].todo = << >> /\ thread[t].vec = {}
<1>1. /\ OpOK(thread[t], call[t]) /\ WorkOK(thread[t]) /\ ApartOK(thread[t], call[t]) /\ Types
  BY Parts, ThreadParts, Zenon
<1>2. /\ thread[t].block \in AllBlocks
      /\ thread[t].q = IF thread[t].block \in Slabs THEN "zebra" ELSE "shared"
  BY <1>1, Zenon DEF WorkOK
<1>3. /\ thread[t].q = "shared" => thread[t].block \in Blocks
      /\ thread[t].q = "zebra" => thread[t].block \in Slabs /\ thread[t].heap = None
  BY <1>1, <1>2, BlockKinds, Zenon DEF WorkOK
<1>4. /\ call[t].taken = << >> /\ call[t].op = IF thread[t].pc = "push" THEN "none" ELSE "add"
  BY <1>1, Zenon DEF OpOK
<1>5. /\ thread[t] \in WorkSet /\ thread[t].todo \in Seq(Blocks)
      /\ thread[t].vec \in SUBSET AllBlocks
  BY <1>1, WorkFields, Zenon
<1>6. \A x : Pushes(thread[t], x) <=> x = thread[t].block  BY Zenon DEF Pushes
<1>7. /\ Distinct(thread[t].todo) /\ (\A x : Has(thread[t].todo, x) => x \notin thread[t].vec)
      /\ ~Has(thread[t].todo, thread[t].block) /\ thread[t].block \notin thread[t].vec
  BY <1>1, <1>6, Zenon DEF ApartOK
<1>8. ASSUME NEW x
      PROVE  Hand(t, x) <=> x = thread[t].block \/ Has(thread[t].todo, x) \/ x \in thread[t].vec
  <2>1. ~Pops(call[t], x) /\ ~Has(call[t].taken, x)  BY <1>4, ListEmpty, Zenon DEF Pops
  <2> QED  BY <1>6, <2>1, Zenon DEF Hand, Holding
<1>9. thread[t].heap = None => thread[t].todo = << >> /\ thread[t].vec = {}
  BY <1>1, Zenon DEF WorkOK
<1> QED  BY <1>1, <1>2, <1>3, <1>4, <1>5, <1>6, <1>7, <1>8, <1>9, Zenon

(* Push takes the lock of the shard.                                       *)
LEMMA PushBeginsKeeps ==
  ASSUME HeapInv, NEW t \in Threads, At(t, "push"), On(t, "shared"),
         PushBegins(t, thread[t].block), Goto(t, "pushing"),
         UNCHANGED <<header, inUse, protected, zebraVars, heapVars>>
  PROVE  ManagerInv'
<1>0. Types /\ thread[t].pc = "push" /\ thread[t].q = "shared"  BY Parts, Zenon DEF At, On
<1>1. /\ thread[t] \in WorkSet /\ WorkOK(thread[t])
      /\ thread[t].block \in Blocks /\ call[t].taken = << >> /\ call[t].op = "none"
      /\ Distinct(thread[t].todo) /\ (\A x : Has(thread[t].todo, x) => x \notin thread[t].vec)
      /\ ~Has(thread[t].todo, thread[t].block) /\ thread[t].block \notin thread[t].vec
      /\ \A x : Hand(t, x) <=> x = thread[t].block \/ Has(thread[t].todo, x) \/ x \in thread[t].vec
  BY <1>0, PushThread, Zenon
<1>2. PICK b : b = thread[t].block  BY Zenon
<1>3. PICK c : c = [NoCall EXCEPT !.op = "add", !.block = b, !.read = size]  BY Zenon
<1>4. b \in Blocks /\ size \in 0..(Modulus - 1)
  BY <1>0, <1>1, <1>2, Zenon DEF Types, QuarantineTypeOK
<1>5. c \in CallSet /\ c.op = "add" /\ c.taken = << >>
  BY <1>3, <1>4, NoCallFields, Zenon DEF CallSet
<1>6. PICK w : w = [thread[t] EXCEPT !.pc = "pushing"]  BY Zenon
<1>7. /\ w \in WorkSet /\ w.pc = "pushing" /\ w.heap = thread[t].heap /\ w.block = thread[t].block
      /\ w.todo = thread[t].todo /\ w.vec = thread[t].vec /\ w.q = thread[t].q
  BY <1>1, <1>6, GotoFields DEF Steps
<1>8. StepsTo(t, w, c)
  <2>1. Set(t, w)  BY <1>6, Zenon DEF Goto
  <2>2. call' = [call EXCEPT ![t] = c]  BY <1>2, <1>3, Zenon DEF PushBegins
  <2> QED  BY <1>5, <1>7, <2>1, <2>2, StepsInBoth, Zenon
<1>9. OpOK(w, c) /\ WorkOK(w)  BY <1>0, <1>1, <1>5, <1>7, Zenon DEF OpOK, WorkOK
<1>10. \A x : ~Pops(c, x) /\ ~Has(c.taken, x) /\ (Pushes(w, x) <=> x = thread[t].block)
  BY <1>5, <1>7, ListEmpty, Zenon DEF Pops, Pushes
<1>11. ApartOK(w, c)  BY <1>1, <1>5, <1>7, <1>10, ListEmpty, Zenon DEF ApartOK
<1>12. \A x : Holding(w, c, x) <=> Hand(t, x)  BY <1>1, <1>7, <1>10, Zenon DEF Holding
<1>13. RestTyped' /\ \A x \in Blocks : x \in protected' => x \in protected
  <2>1. raced' \in BOOLEAN  BY Zenon DEF PushBegins, Overlaps
  <2>2. locks' \in [Shards -> Threads \union {None}]
    BY <1>0, Zenon DEF PushBegins, Types, QuarantineTypeOK
  <2> QED  BY <1>0, <2>1, <2>2, Zenon DEF PushBegins, RestTyped, Types, QuarantineTypeOK
<1>14. UNCHANGED <<shards, zebraVars, header, inUse, heaps, clashed>>
  BY Zenon DEF PushBegins, heapVars
<1>15. CASE thread[t].heap = None
  BY <1>7, <1>8, <1>9, <1>11, <1>12, <1>13, <1>14, <1>15, PlainKeeps, Zenon
<1>16. CASE thread[t].heap # None
  <2>1. Continues(t, w) /\ MayMark(t, w) /\ PlaceOK(w, c)
    BY <1>7, <1>9, <1>11, <1>16, Zenon DEF Continues, MayMark, PlaceOK
  <2>2. NoClash(w, c)
    <3>1. ~clashed => ClashAt(t)  BY Parts, Zenon DEF ClashOK
    <3>2. \A x : Pushes(w, x) <=> Pushes(thread[t], x)  BY <1>0, <1>7, Zenon DEF Pushes
    <3>3. \A x : Returns(w, c, x) => Returns(thread[t], call[t], x)
      BY <1>7, <1>10, <3>2, Zenon DEF Returns
    <3>4. \A i \in Shards : Emptied(thread[t], call[t], i)  BY <1>0, Zenon DEF Emptied
    <3> QED  BY <1>7, <1>14, <3>1, <3>2, <3>3, <3>4, Zenon DEF NoClash, ClashAt
  <2> QED  BY <1>8, <1>12, <1>13, <1>14, <2>1, <2>2, QuietKeeps, Zenon
<1> QED  BY <1>15, <1>16, Zenon

(* DestroyHeap could not put a block back: it is to be freed.              *)
LEMMA NotReinsertedKeeps ==
  ASSUME HeapInv, NEW t \in Threads, At(t, "push"), Destroying(t), NotPushed(t),
         UNCHANGED <<quarantineVars, heapVars>>
  PROVE  ManagerInv' /\ UNCHANGED zebraVars
<1>0. thread[t].pc = "push" /\ thread[t].heap # None  BY Zenon DEF At, Destroying
<1>1. /\ thread[t] \in WorkSet /\ thread[t].block \in AllBlocks /\ WorkOK(thread[t])
      /\ thread[t].vec \in SUBSET AllBlocks /\ call[t].op = "none"
      /\ Distinct(thread[t].todo) /\ (\A x : Has(thread[t].todo, x) => x \notin thread[t].vec)
      /\ ~Has(thread[t].todo, thread[t].block)
      /\ \A x : Hand(t, x) <=> x = thread[t].block \/ Has(thread[t].todo, x) \/ x \in thread[t].vec
  BY <1>0, PushThread, Zenon
<1>2. PICK V : V = thread[t].vec \union {thread[t].block}  BY Zenon
<1>3. PICK w : w = [thread[t] EXCEPT !.pc = "reinsert", !.vec = V]  BY Zenon
<1>4. V \in SUBSET AllBlocks  BY <1>1, <1>2, Zenon
<1>5. /\ w \in WorkSet /\ w.pc = "reinsert" /\ w.heap = thread[t].heap /\ w.q = thread[t].q
      /\ w.todo = thread[t].todo /\ w.vec = V
  BY <1>1, <1>3, <1>4, Zenon DEF WorkSet, Steps
<1>6. Set(t, w) /\ UNCHANGED <<header, inUse, protected, zebraVars>>
  BY <1>2, <1>3, Zenon DEF NotPushed, NotReinserted
<1>7. WorkOK(w)  BY <1>0, <1>1, <1>5, Zenon DEF WorkOK
<1>8. \A x : ~Pushes(w, x)  BY <1>5, Zenon DEF Pushes
<1>9. \A x : (Has(w.todo, x) => x \notin w.vec) /\ (Has(w.todo, x) \/ x \in w.vec <=> Hand(t, x))
  BY <1>1, <1>2, <1>5, Zenon
<1>a. /\ w.pc \notin {"pushing", "empty"} /\ w.heap # None /\ Distinct(w.todo)
      /\ \A x : Has(w.todo, x) => Has(thread[t].todo, x)
  BY <1>0, <1>1, <1>5, Zenon
<1> QED
  BY <1>0, <1>1, <1>5, <1>6, <1>7, <1>8, <1>9, <1>a, DestroyerGoesOn, Zenon

(* A thread that has no block at hand.                                     *)
LEMMA EmptyHanded ==
  ASSUME HeapInv, NEW t \in Threads,
         \/ thread[t].pc \in {"idle", "mark", "protect", "trim", "erase"}
         \/ thread[t].pc = "free" /\ thread[t].vec = {}
  PROVE  /\ \A x : ~Hand(t, x)
         /\ call[t].op = "none" /\ call[t].taken = << >>
         /\ thread[t].todo = << >> /\ thread[t].vec = {}
<1>1. OpOK(thread[t], call[t]) /\ WorkOK(thread[t])  BY ThreadParts, Zenon
<1>a. thread[t].pc \notin {"push", "pushing", "pop", "empty", "reinsert"}  BY Zenon
<1>2. /\ call[t].op = "none" /\ call[t].taken = << >>
      /\ thread[t].todo = << >> /\ thread[t].vec = {}
  BY <1>1, <1>a, Zenon DEF OpOK, WorkOK
<1>3. ASSUME NEW x PROVE ~Hand(t, x)
  BY <1>2, <1>a, ListEmpty, Zenon DEF Hand, Holding, Pushes, Pops
<1> QED  BY <1>2, <1>3, Zenon

(* A thread with no block at hand ends its call or begins to trim.         *)
LEMMA BeginsToTrim ==
  ASSUME HeapInv, NEW t \in Threads, \A x : ~Hand(t, x), call[t].op = "none",
         NEW w \in WorkSet, w.pc \in {"idle", "trim"}, w.heap = None, w.block = None,
         w.todo = << >>, w.vec = {}, Set(t, w),
         UNCHANGED <<shards, locks, size, raced, call>>, maxSize' \in QuarantineSizes,
         UNCHANGED <<zebraVars, header, inUse, protected, heapVars>>
  PROVE  ManagerInv'
<1>0. call[t].taken = << >> /\ Types  BY Parts, ThreadParts, Zenon DEF OpOK
<1>1. StepsTo(t, w, call[t])  BY StepsInWork, Zenon
<1>2. OpOK(w, call[t]) /\ WorkOK(w)  BY <1>0, Zenon DEF OpOK, WorkOK
<1>3. \A x : ~Pops(call[t], x) /\ ~Pushes(w, x)  BY Zenon DEF Pops, Pushes
<1>4. ApartOK(w, call[t])  BY <1>0, <1>3, ApartPlain, Zenon
<1>5. \A x : Holding(w, call[t], x) <=> Hand(t, x)
  BY <1>0, <1>3, ListEmpty, Zenon DEF Holding
<1>6. RestTyped' /\ \A x \in Blocks : x \in protected' => x \in protected
  BY <1>0, Zenon DEF RestTyped, Types, QuarantineTypeOK
<1>7. UNCHANGED <<shards, zebraVars, header, inUse, heaps, clashed>> /\ w.pc # "mark"
  BY Zenon DEF heapVars
<1> QED  BY <1>1, <1>2, <1>4, <1>5, <1>6, <1>7, PlainKeeps, Zenon

(* The records with which PropagateParameters begins to trim.              *)
LEMMA TrimFields ==
  /\ \A w : w = [NoWork EXCEPT !.pc = "trim", !.q = "zebra"] =>
       /\ w \in WorkSet /\ w.pc = "trim" /\ w.heap = None /\ w.block = None
       /\ w.todo = << >> /\ w.vec = {}
  /\ \A w : w = [NoWork EXCEPT !.pc = "trim", !.more = TRUE] =>
       /\ w \in WorkSet /\ w.pc = "trim" /\ w.heap = None /\ w.block = None
       /\ w.todo = << >> /\ w.vec = {}
BY NoWorkFields, Zenon DEF WorkSet, Steps, NoWork

(* FreeBlockVector returns.                                                *)
LEMMA FreeBlockVectorReturnsKeeps ==
  ASSUME HeapInv, NEW t \in Threads, FreeBlockVectorReturns(t)
  PROVE  ManagerInv' /\ UNCHANGED zebraVars
<1>0. Types /\ WorkOK(thread[t]) /\ thread[t].pc = "free" /\ thread[t].vec = {}
  BY Parts, ThreadParts, Zenon DEF FreeBlockVectorReturns, At
<1>1. (\A x : ~Hand(t, x)) /\ call[t].op = "none" /\ thread[t].todo = << >>
  BY <1>0, EmptyHanded, Zenon
<1>2. UNCHANGED <<quarantineVars, zebraVars, header, inUse, protected, heapVars>>
  BY Zenon DEF FreeBlockVectorReturns
<1>a. UNCHANGED <<shards, locks, size, raced, call>> /\ maxSize' \in QuarantineSizes
  BY <1>0, <1>2, Zenon DEF quarantineVars, Types
<1>3. CASE Destroying(t)
  <2>1. PICK w : w = [thread[t] EXCEPT !.pc = "erase"]  BY Zenon
  <2>2. /\ w \in WorkSet /\ w.pc = "erase" /\ w.heap = thread[t].heap /\ w.q = thread[t].q
        /\ w.todo = thread[t].todo /\ w.vec = thread[t].vec
    <3>1. thread[t] \in WorkSet  BY <1>0, WorkFields, Zenon
    <3> QED  BY <2>1, <3>1, GotoFields DEF Steps
  <2>3. Set(t, w)  BY <1>3, <2>1, Zenon DEF FreeBlockVectorReturns
  <2>4. WorkOK(w) /\ w.heap # None  BY <1>0, <1>1, <1>3, <2>2, Zenon DEF WorkOK, Destroying
  <2>5. \A x : ~Pushes(w, x) /\ ~Has(w.todo, x) /\ x \notin w.vec
    BY <1>0, <1>1, <2>2, ListEmpty, Zenon DEF Pushes
  <2>6. Distinct(w.todo) /\ w.pc \notin {"pushing", "empty"}
    BY <1>1, <2>2, ListEmpty, Zenon
  <2> QED
    BY <1>0, <1>1, <1>2, <2>2, <2>3, <2>4, <2>5, <2>6, DestroyerGoesOn, Zenon
<1>4. CASE ~Destroying(t) /\ thread[t].more
  <2>1. PICK w : w = [NoWork EXCEPT !.pc = "trim", !.q = "zebra"]  BY Zenon
  <2>2. Set(t, w)  BY <1>4, <2>1, Zenon DEF FreeBlockVectorReturns
  <2>3. /\ w \in WorkSet /\ w.pc \in {"idle", "trim"} /\ w.heap = None /\ w.block = None
        /\ w.todo = << >> /\ w.vec = {}
    BY <2>1, TrimFields, Zenon
  <2> QED  BY <1>1, <1>2, <1>a, <2>2, <2>3, BeginsToTrim, Zenon
<1>5. CASE ~Destroying(t) /\ ~thread[t].more
  <2>1. Set(t, NoWork)  BY <1>5, Zenon DEF FreeBlockVectorReturns
  <2>2. NoWork.pc \in {"idle", "trim"}  BY NoWorkFields, Zenon
  <2> QED  BY <1>1, <1>2, <1>a, <2>1, <2>2, NoWorkFields, BeginsToTrim, Zenon
<1> QED  BY <1>2, <1>3, <1>4, <1>5, Zenon

(* set_parameters and PropagateParameters.                                 *)
LEMMA SetParametersKeeps ==
  ASSUME HeapInv, NEW t \in Threads, NEW n \in QuarantineSizes, SetParameters(t, n)
  PROVE  ManagerInv' /\ UNCHANGED zebraVars
<1>1. (\A x : ~Hand(t, x)) /\ call[t].op = "none"
  BY EmptyHanded, Zenon DEF SetParameters, At
<1>2. /\ UNCHANGED <<shards, locks, size, raced, call>> /\ maxSize' \in QuarantineSizes
      /\ UNCHANGED <<zebraVars, header, inUse, protected, heapVars>>
  BY Zenon DEF SetParameters, SetMaxQuarantineSize
<1>3. PICK w :
        /\ \/ w = [NoWork EXCEPT !.pc = "trim", !.more = TRUE]
           \/ w = [NoWork EXCEPT !.pc = "trim", !.q = "zebra"]
        /\ Set(t, w)
  BY Zenon DEF SetParameters
<1>4. /\ w \in WorkSet /\ w.pc \in {"idle", "trim"} /\ w.heap = None /\ w.block = None
      /\ w.todo = << >> /\ w.vec = {}
  BY <1>3, TrimFields, Zenon
<1> QED  BY <1>1, <1>2, <1>3, <1>4, BeginsToTrim, Zenon

(* Free looks at the header of the block.                                  *)
LEMMA FreeKeepsHeap ==
  ASSUME HeapInv, NEW t \in Threads, NEW x \in AllBlocks, Free(t, x)
  PROVE  ManagerInv' /\ UNCHANGED zebraVars
<1>0. Types /\ WorkOK(thread[t]) /\ OpOK(thread[t], call[t]) /\ ApartOK(thread[t], call[t])
  BY Parts, ThreadParts, Zenon
<1>1. /\ thread[t].pc = "idle" /\ heaps[GetHeap(x)] = "live" /\ header[x] # "FREED_BLOCK"
      /\ \A u \in Threads : ~(thread[u].pc = "mark" /\ thread[u].block = x)
      /\ UNCHANGED <<quarantineVars, zebraVars, header, inUse, heapVars>>
      /\ protected' \subseteq protected
  BY Zenon DEF Free, At, IsValidHeapId, BlockProtectNone
<1>2. /\ \A y : ~Hand(t, y)
      /\ call[t].op = "none" /\ call[t].taken = << >> /\ thread[t].heap = None
  BY <1>1, EmptyHanded, PlainThread, Zenon
<1>3. RestTyped' /\ \A y \in Blocks : y \in protected' => y \in protected
  BY <1>0, <1>1, RestKept, Zenon DEF Types, quarantineVars
<1>4. UNCHANGED <<shards, zebraVars, header, inUse, heaps, clashed>>
  BY <1>1, Zenon DEF quarantineVars, heapVars
<1>5. CASE header[x] = "QUARANTINED_BLOCK"
  <2>1. UNCHANGED thread /\ UNCHANGED call  BY <1>1, <1>5, Zenon DEF Free, quarantineVars
  <2>2. StepsTo(t, thread[t], call[t])
    BY <1>0, <2>1, Zenon DEF StepsTo, Others, Types, QuarantineTypeOK
  <2>3. thread[t].pc # "mark"  BY <1>1, Zenon
  <2> QED
    BY <1>0, <1>1, <1>2, <1>3, <1>4, <2>2, <2>3, PlainKeeps, Zenon DEF Hand
<1>6. CASE header[x] # "QUARANTINED_BLOCK"
  <2>1. PICK q : q = GetQuarantine(GetHeap(x))  BY Zenon
  <2>2. q = (IF x \in Slabs THEN "zebra" ELSE "shared") /\ x # None
    BY <2>1, BlockKinds, Zenon DEF GetQuarantine
  <2>3. PICK w : w = [NoWork EXCEPT !.pc = "mark", !.block = x, !.q = q]  BY Zenon
  <2>4. /\ w \in WorkSet /\ w.pc = "mark" /\ w.heap = None /\ w.block = x
        /\ w.todo = << >> /\ w.vec = {} /\ w.q = q
    BY <2>2, <2>3, NoWorkFields, Zenon DEF WorkSet, Steps
  <2>5. Set(t, w) /\ UNCHANGED call
    BY <1>1, <1>6, <2>1, <2>3, Zenon DEF Free, quarantineVars
  <2>6. StepsTo(t, w, call[t])  BY <2>4, <2>5, StepsInWork, Zenon
  <2>7. OpOK(w, call[t])  BY <1>2, <2>4, Zenon DEF OpOK
  <2>8. WorkOK(w)  BY <2>2, <2>4, Zenon DEF WorkOK
  <2>9. \A y : ~Pops(call[t], y) /\ ~Pushes(w, y)  BY <1>2, <2>4, Zenon DEF Pops, Pushes
  <2>10. ApartOK(w, call[t])  BY <1>2, <2>4, <2>9, ApartPlain, Zenon
  <2>11. \A y : Holding(w, call[t], y) <=> Hand(t, y)
    BY <1>2, <2>4, <2>9, ListEmpty, Zenon DEF Holding
  <2>12. Continues(t, w) /\ NoClash(w, call[t])
    BY <1>1, <2>4, Zenon DEF Continues, NoClash
  <2>13. header[x] = "ALLOCATED_BLOCK"  BY <1>0, <1>1, <1>6, Zenon DEF Types
  <2>14. MayMark(t, w)  BY <1>1, <2>4, <2>13, Zenon DEF MayMark
  <2>15. PlaceOK(w, call[t])  BY <2>7, <2>8, <2>10, Zenon DEF PlaceOK
  <2> QED
    BY <1>1, <1>3, <1>4, <2>6, <2>11, <2>12, <2>14, <2>15, QuietKeeps, Zenon
<1> QED  BY <1>1, <1>5, <1>6, Zenon

-----------------------------------------------------------------------------
(* The steps that take blocks from the shards or put one there.            *)

(* A shard loses blocks.                                                   *)
LEMMA ShardTaken ==
  ASSUME HeapInv, NEW i \in Shards, NEW r \in Seq(Blocks), Distinct(r),
         \A x : Has(r, x) => Has(shards[i], x), shards' = [shards EXCEPT ![i] = r]
  PROVE  /\ shards' \in [Shards -> Seq(Blocks)] /\ ShardsOK'
         /\ \A j \in Shards : \A x : Has(shards'[j], x) => Has(shards[j], x)
         /\ \A x : InShard(x)' <=> Has(r, x) \/ (InShard(x) /\ ~Has(shards[i], x))
<1>0. ShardsOK /\ shards \in [Shards -> Seq(Blocks)]
  BY Parts, Zenon DEF Types, QuarantineTypeOK
<1>1. /\ shards' \in [Shards -> Seq(Blocks)] /\ shards'[i] = r
      /\ \A j \in Shards \ {i} : shards'[j] = shards[j]
  BY <1>0, Zenon
<1>2. \A j \in Shards : \A x : Has(shards'[j], x) => Has(shards[j], x)  BY <1>1, Zenon
<1>3. ShardsOK'  BY <1>0, <1>1, <1>2, Zenon DEF ShardsOK
<1>4. ASSUME NEW x PROVE InShard(x)' <=> Has(r, x) \/ (InShard(x) /\ ~Has(shards[i], x))
  <2>1. ASSUME InShard(x)' PROVE Has(r, x) \/ (InShard(x) /\ ~Has(shards[i], x))
    <3>1. PICK j \in Shards : Has(shards'[j], x)  BY <2>1, Zenon DEF InShard
    <3>2. CASE j = i  BY <1>1, <3>1, <3>2, Zenon
    <3>3. CASE j # i
      <4>1. Has(shards[j], x) /\ ShardOf[x] = j  BY <1>0, <1>1, <3>1, <3>3, Zenon DEF ShardsOK
      <4>2. Has(shards[i], x) => ShardOf[x] = i  BY <1>0, Zenon DEF ShardsOK
      <4> QED  BY <3>3, <4>1, <4>2, Zenon DEF InShard
    <3> QED  BY <3>2, <3>3, Zenon
  <2>2. ASSUME InShard(x), ~Has(shards[i], x) PROVE InShard(x)'
    BY <1>1, <2>2, Zenon DEF InShard
  <2>3. ASSUME Has(r, x) PROVE InShard(x)'  BY <1>1, <2>3, Zenon DEF InShard
  <2> QED  BY <2>1, <2>2, <2>3, Zenon
<1> QED  BY <1>1, <1>2, <1>3, <1>4, Zenon

(* A step of t that takes blocks from a shard into its hands.              *)
LEMMA TakesKeep ==
  ASSUME HeapInv, NEW t \in Threads, NEW c, StepsTo(t, thread[t], c),
         NEW i \in Shards, NEW r \in Seq(Blocks), Distinct(r), shards' = [shards EXCEPT ![i] = r],
         \A x : Has(r, x) => Has(shards[i], x),
         UNCHANGED <<zebraVars, header, inUse, heaps, clashed, protected>>, RestTyped',
         OpOK(thread[t], c), ApartOK(thread[t], c), thread[t].pc # "mark",
         NoClash(thread[t], c),
         \A x : Holding(thread[t], c, x) <=> Hand(t, x) \/ (Has(shards[i], x) /\ ~Has(r, x))
  PROVE  ManagerInv'
<1>0. Types /\ OwnersAt(t) /\ WorkOK(thread[t])  BY Parts, ThreadParts, Zenon
<1>1. /\ shards' \in [Shards -> Seq(Blocks)] /\ ShardsOK'
      /\ \A j \in Shards : \A x : Has(shards'[j], x) => Has(shards[j], x)
      /\ \A x : InShard(x)' <=> Has(r, x) \/ (InShard(x) /\ ~Has(shards[i], x))
  BY ShardTaken, Zenon
<1>a. slab_info' = slab_info /\ \A x : InSlab(x)' <=> InSlab(x)
  BY Zenon DEF zebraVars, InSlab
<1>b. \A x : Has(shards[i], x) => InShard(x) /\ x \notin Slabs
  <2>1. shards[i] \in Seq(Blocks)  BY <1>0, Zenon DEF Types, QuarantineTypeOK
  <2> QED  BY <2>1, ListHas, BlockKinds, Zenon DEF InShard
<1>c. \A x : Hand(t, x) => ~InShard(x) /\ (x \in Slabs => slab_info[x] = "kAllocatedSlab")
  BY <1>0, Zenon DEF OwnersAt
<1>2. Moves(t, thread[t], c)
  <2>1. ASSUME NEW x, Holding(thread[t], c, x)
        PROVE  /\ ~InShard(x)' /\ (x \in Slabs => slab_info'[x] = "kAllocatedSlab")
               /\ Hand(t, x) \/ InShard(x) \/ InSlab(x)
    <3>1. CASE Hand(t, x)  BY <1>1, <1>a, <1>b, <1>c, <3>1, Zenon
    <3>2. CASE Has(shards[i], x) /\ ~Has(r, x)  BY <1>1, <1>b, <3>2, Zenon
    <3> QED  BY <2>1, <3>1, <3>2, Zenon
  <2>2. ASSUME NEW x, InShard(x) \/ InSlab(x) \/ Hand(t, x)
        PROVE  InShard(x)' \/ InSlab(x)' \/ Holding(thread[t], c, x)
    BY <1>1, <1>a, <2>2, Zenon
  <2> QED  BY <1>a, <2>1, <2>2, Zenon DEF Moves
<1>3. SlabsMove(t)  BY <1>a, Zenon DEF SlabsMove
<1>4. Continues(t, thread[t])  BY ThreadParts, Zenon DEF Continues, HeapsAt
<1>5. PlaceOK(thread[t], c) /\ MayMark(t, thread[t])  BY <1>0, Zenon DEF PlaceOK, MayMark
<1>6. \A x \in Blocks : x \in protected' => x \in protected \/ Pushes(thread[t], x)  BY Zenon
<1> QED  BY <1>1, <1>2, <1>3, <1>4, <1>5, <1>6, MoveKeeps, Zenon

(* Pop takes the first block of a shard.                                   *)
LEMMA PopTakesKeeps ==
  ASSUME HeapInv, NEW t \in Threads, At(t, "pop"), On(t, "shared"), PopTakes(t),
         UNCHANGED <<thread, zebraVars, header, inUse, protected, heapVars>>
  PROVE  ManagerInv'
<1>0. /\ thread[t].pc = "pop" /\ thread[t].q = "shared" /\ thread[t].heap = None
      /\ thread[t].todo = << >>
      /\ \A x : Hand(t, x) <=> Pops(call[t], x) \/ x \in thread[t].vec
  BY PopThread, Zenon
<1>a. Types /\ OwnersAt(t) /\ ShardsOK  BY Parts, ThreadParts, Zenon
<1>1. PICK i : i = call[t].at  BY Zenon
<1>2. i \in Shards  BY <1>a, <1>1, CallFields, Zenon
<1>3. PICK s : s = shards[i]  BY Zenon
<1>4. PICK b, r : b = Head(s) /\ r = Tail(s)  BY Zenon
<1>5. /\ call[t].op = "scan" /\ s # << >> /\ shards' = [shards EXCEPT ![i] = r]
      /\ call' = [call EXCEPT ![t] = [NoCall EXCEPT !.op = "load", !.block = b]]
      /\ Overlaps(t) /\ UNCHANGED <<locks, size, maxSize>>
  BY <1>1, <1>3, <1>4, Zenon DEF PopTakes
<1>6. s \in Seq(Blocks) /\ Distinct(s)
  BY <1>a, <1>2, <1>3, Zenon DEF Types, QuarantineTypeOK, ShardsOK
<1>7. /\ b \in Blocks /\ r \in Seq(Blocks) /\ Distinct(r) /\ Has(s, b)
      /\ \A x : Has(r, x) <=> Has(s, x) /\ x # b
  BY <1>4, <1>5, <1>6, ListTail, Zenon
<1>8. PICK c : c = [NoCall EXCEPT !.op = "load", !.block = b]  BY Zenon
<1>9. c \in CallSet /\ c.op = "load" /\ c.block = b /\ c.taken = << >>
  BY <1>7, <1>8, NoCallFields, Zenon DEF CallSet
<1>10. StepsTo(t, thread[t], c)  BY <1>5, <1>8, <1>9, StepsInCall, Zenon
<1>11. \A x : (Pops(c, x) <=> x = b) /\ ~Pops(call[t], x)  BY <1>5, <1>9, Zenon DEF Pops
<1>12. b \notin thread[t].vec
  <2>1. InShard(b)  BY <1>2, <1>3, <1>7, Zenon DEF InShard
  <2> QED  BY <1>0, <1>a, <2>1, Zenon DEF OwnersAt
<1>13. OpOK(thread[t], c)  BY <1>0, <1>7, <1>9, Zenon DEF OpOK
<1>14. ApartOK(thread[t], c)
  <2>1. \A x : Pops(c, x) => x \notin thread[t].vec  BY <1>11, <1>12, Zenon
  <2> QED  BY <1>0, <1>9, <2>1, ApartPlain, Zenon
<1>15. \A x : Holding(thread[t], c, x) <=> Hand(t, x) \/ (Has(shards[i], x) /\ ~Has(r, x))
  BY <1>0, <1>3, <1>7, <1>9, <1>11, ListEmpty, Zenon DEF Holding, Pushes
<1>16. RestTyped'
  <2>1. raced' \in BOOLEAN  BY <1>5, Zenon DEF Overlaps
  <2> QED  BY <1>5, <1>a, <2>1, Zenon DEF RestTyped, Types, QuarantineTypeOK
<1>17. NoClash(thread[t], c) /\ thread[t].pc # "mark"  BY <1>0, Zenon DEF NoClash
<1>18. \A x : Has(r, x) => Has(shards[i], x)  BY <1>3, <1>7, Zenon
<1>19. UNCHANGED <<zebraVars, header, inUse, heaps, clashed, protected>>  BY Zenon DEF heapVars
<1> QED
  BY <1>2, <1>5, <1>7, <1>10, <1>13, <1>14, <1>15, <1>16, <1>17, <1>18, <1>19, TakesKeep, Zenon

(* The shard after the last is the first, and all come before the last.    *)
LEMMA ShardAfterIs ==
  ASSUME NEW i \in Shards
  PROVE  /\ ShardAfter(i) = 0 \/ ShardAfter(i) = i + 1
         /\ ShardAfter(i) = 0 => \A j \in Shards : j < i \/ j = i
         /\ \A j \in Shards : j < i + 1 => j < i \/ j = i
<1>1. ShardingFactor \in Nat \ {0} /\ i \in 0..(ShardingFactor - 1)
  BY QuarantineAssumption, Zenon DEF Shards
<1>2. CASE i + 1 < ShardingFactor
  <2>1. ShardAfter(i) = i + 1  BY <1>1, <1>2 DEF ShardAfter
  <2> QED  BY <1>1, <2>1 DEF Shards
<1>3. CASE i + 1 = ShardingFactor
  <2>1. ShardAfter(i) = 0  BY <1>1, <1>3 DEF ShardAfter
  <2> QED  BY <1>1, <1>3, <2>1 DEF Shards
<1> QED  BY <1>1, <1>2, <1>3

(* Empty takes all the blocks of a shard.                                  *)
LEMMA EmptyShardKeeps ==
  ASSUME HeapInv, NEW t \in Threads, At(t, "empty"), EmptyShard(t),
         UNCHANGED <<thread, protected, zebraVars, header, inUse, heapVars>>
  PROVE  ManagerInv'
<1>0. /\ thread[t].pc = "empty" /\ thread[t].todo = << >> /\ thread[t].vec = {}
      /\ call[t] \in CallSet /\ call[t].taken \in Seq(Blocks) /\ Distinct(call[t].taken)
      /\ \A x : Hand(t, x) <=> Has(call[t].taken, x)
  BY EmptyThread, Zenon
<1>a. Types /\ OwnersAt(t) /\ ShardsOK /\ ClashOK  BY Parts, ThreadParts, Zenon
<1>1. PICK d : d = call[t]  BY Zenon
<1>2. PICK i : i = d.at  BY Zenon
<1>3. PICK s : s = shards[i]  BY Zenon
<1>4. i \in Shards /\ d \in CallSet /\ d.taken \in Seq(Blocks) /\ Distinct(d.taken)
  BY <1>0, <1>a, <1>1, <1>2, CallFields, Zenon
<1>5. PICK m, n, p : /\ m = d.taken \o s /\ n = ShardAfter(i)
                     /\ p = IF ShardAfter(i) = 0 THEN "reset" ELSE "empty"
  BY Zenon
<1>6. PICK c : c = [d EXCEPT !.taken = m, !.at = n, !.op = p]  BY Zenon
<1>7. call' = [call EXCEPT ![t] = c]
  BY <1>a, <1>1, <1>2, <1>3, <1>5, <1>6, Zenon DEF EmptyShard, Types, QuarantineTypeOK
<1>8. /\ d.op = "empty" /\ shards' = [shards EXCEPT ![i] = << >>]
      /\ UNCHANGED <<locks, size, maxSize, raced>>
  BY <1>1, <1>2, Zenon DEF EmptyShard
<1>9. s \in Seq(Blocks) /\ Distinct(s)
  BY <1>a, <1>3, <1>4, Zenon DEF Types, QuarantineTypeOK, ShardsOK
<1>10. \A x : ~(Has(d.taken, x) /\ Has(s, x))
  <2>1. \A x : Has(s, x) => InShard(x)  BY <1>3, <1>4, Zenon DEF InShard
  <2> QED  BY <1>0, <1>a, <1>1, <2>1, Zenon DEF OwnersAt
<1>11. /\ m \in Seq(Blocks) /\ Distinct(m)
       /\ \A x : Has(m, x) <=> Has(d.taken, x) \/ Has(s, x)
  <2>1. PICK k : k = d.taken  BY Zenon
  <2>2. k \in Seq(Blocks) /\ Distinct(k) /\ m = k \o s /\ \A x : ~(Has(k, x) /\ Has(s, x))
    BY <1>4, <1>5, <1>10, <2>1, Zenon
  <2>3. m \in Seq(Blocks) /\ Distinct(m) /\ \A x : Has(m, x) <=> Has(k, x) \/ Has(s, x)
    BY <1>9, <2>2, ListJoin, Zenon
  <2> QED  BY <2>1, <2>3, Zenon
<1>12. n \in Shards /\ p \in {"empty", "reset"}  BY <1>4, <1>5, WrapsAround, Zenon
<1>13. c \in CallSet /\ c.op = p /\ c.taken = m /\ c.at = n /\ c.block = d.block
  BY <1>4, <1>6, <1>11, <1>12, Zenon DEF CallSet
<1>14. StepsTo(t, thread[t], c)  BY <1>7, <1>13, StepsInCall, Zenon
<1>15. \A x : ~Pops(c, x) /\ ~Pushes(thread[t], x) /\ ~Has(thread[t].todo, x)
  BY <1>0, <1>12, <1>13, ListEmpty, Zenon DEF Pops, Pushes
<1>16. OpOK(thread[t], c)  BY <1>0, <1>12, <1>13, Zenon DEF OpOK
<1>17. ApartOK(thread[t], c)  BY <1>0, <1>11, <1>13, <1>15, ListEmpty, Zenon DEF ApartOK
<1>18. \A x : Holding(thread[t], c, x) <=> Hand(t, x) \/ (Has(shards[i], x) /\ ~Has(<< >>, x))
  BY <1>0, <1>1, <1>3, <1>11, <1>13, <1>15, ListEmpty, Zenon DEF Holding
<1>19. RestTyped'  BY <1>8, <1>a, Zenon DEF RestTyped, Types, QuarantineTypeOK
<1>20. NoClash(thread[t], c)
  <2>1. SUFFICES ASSUME ~clashed, thread[t].heap # None
                 PROVE  /\ \A x : Returns(thread[t], c, x) => Alive(x)
                        /\ \A j \in Shards : Emptied(thread[t], c, j) =>
                             \A x : Has(shards'[j], x) => GetHeap(x) # thread[t].heap
    BY <1>15, Zenon DEF NoClash
  <2>2. ClashAt(t) /\ (\A x : InShard(x) => Alive(x))  BY <1>a, <2>1, Zenon DEF ClashOK
  <2>3. ASSUME NEW x, Returns(thread[t], c, x) PROVE Alive(x)
    <3>1. CASE Has(call[t].taken, x)  BY <2>1, <2>2, <3>1, Zenon DEF ClashAt, Returns
    <3>2. CASE Has(s, x)  BY <1>3, <1>4, <2>2, <3>2, Zenon DEF InShard
    <3> QED  BY <1>1, <1>11, <1>13, <1>15, <2>3, <3>1, <3>2, Zenon DEF Returns
  <2>4. ASSUME NEW j \in Shards, Emptied(thread[t], c, j), NEW x, Has(shards'[j], x)
        PROVE  GetHeap(x) # thread[t].heap
    <3>1. j < i \/ j = i
      <4>1. c.op = "reset" \/ j < n  BY <1>0, <1>13, <2>4, Zenon DEF Emptied
      <4>2. (n = 0 \/ n = i + 1) /\ (n = 0 => j < i \/ j = i) /\ (j < i + 1 => j < i \/ j = i)
        BY <1>4, <1>5, ShardAfterIs, Zenon
      <4>3. c.op = "reset" => n = 0  BY <1>5, <1>13, Zenon
      <4> QED  BY <4>1, <4>2, <4>3, Zenon
    <3>2. CASE j = i
      <4>1. shards'[j] = << >>
        BY <1>a, <1>4, <1>8, <3>2, Zenon DEF Types, QuarantineTypeOK
      <4> QED  BY <2>4, <4>1, ListEmpty, Zenon
    <3>3. CASE j < i /\ j # i
      <4>1. shards'[j] = shards[j]
        BY <1>a, <1>4, <1>8, <3>3, Zenon DEF Types, QuarantineTypeOK
      <4>2. Emptied(thread[t], call[t], j)  BY <1>1, <1>2, <1>8, <3>3, Zenon DEF Emptied
      <4> QED  BY <2>1, <2>2, <2>4, <4>1, <4>2, Zenon DEF ClashAt
    <3> QED  BY <3>1, <3>2, <3>3, Zenon
  <2> QED  BY <2>3, <2>4, Zenon
<1>21. /\ << >> \in Seq(Blocks) /\ Distinct(<< >>) /\ (\A x : Has(<< >>, x) => Has(shards[i], x))
       /\ thread[t].pc # "mark"
  BY <1>0, ListEmpty, Zenon
<1>22. UNCHANGED <<zebraVars, header, inUse, heaps, clashed, protected>>  BY Zenon DEF heapVars
<1> QED
  BY <1>4, <1>8, <1>14, <1>16, <1>17, <1>18, <1>19, <1>20, <1>21, <1>22, TakesKeep, Zenon

(* A shard gets a block that was in none.                                  *)
LEMMA ShardGiven ==
  ASSUME HeapInv, NEW b \in Blocks, ~InShard(b),
         shards' = [shards EXCEPT ![ShardOf[b]] = Append(shards[ShardOf[b]], b)]
  PROVE  /\ shards' \in [Shards -> Seq(Blocks)] /\ ShardsOK'
         /\ \A j \in Shards : \A x : Has(shards'[j], x) => Has(shards[j], x) \/ x = b
         /\ \A x : InShard(x)' <=> InShard(x) \/ x = b
<1>0. ShardsOK /\ shards \in [Shards -> Seq(Blocks)]
  BY Parts, Zenon DEF Types, QuarantineTypeOK
<1>1. PICK i : i = ShardOf[b]  BY Zenon
<1>2. i \in Shards  BY <1>1, QuarantineAssumption, Zenon
<1>3. PICK s, r : s = shards[i] /\ r = Append(s, b)  BY Zenon
<1>4. s \in Seq(Blocks) /\ Distinct(s) /\ ~Has(s, b)
  BY <1>0, <1>2, <1>3, Zenon DEF ShardsOK, InShard
<1>5. r \in Seq(Blocks) /\ Distinct(r) /\ \A x : Has(r, x) <=> Has(s, x) \/ x = b
  BY <1>3, <1>4, ListAppend, Zenon
<1>6. /\ shards' \in [Shards -> Seq(Blocks)] /\ shards'[i] = r
      /\ \A j \in Shards \ {i} : shards'[j] = shards[j]
  <2>1. shards' = [shards EXCEPT ![i] = r]  BY <1>1, <1>3, Zenon
  <2> QED  BY <1>0, <1>2, <1>5, <2>1, Zenon
<1>7. \A j \in Shards : \A x : Has(shards'[j], x) => Has(shards[j], x) \/ (x = b /\ j = i)
  BY <1>3, <1>5, <1>6, Zenon
<1>8. \A j \in Shards : Distinct(shards'[j])  BY <1>0, <1>5, <1>6, Zenon DEF ShardsOK
<1>9. ShardsOK'
  <2>1. ASSUME NEW j \in Shards, NEW x, Has(shards'[j], x) PROVE ShardOf[x] = j
    BY <1>0, <1>1, <1>7, <2>1, Zenon DEF ShardsOK
  <2> QED  BY <1>8, <2>1, Zenon DEF ShardsOK
<1>10. ASSUME NEW x PROVE InShard(x)' <=> InShard(x) \/ x = b
  <2>1. ASSUME InShard(x)' PROVE InShard(x) \/ x = b  BY <1>7, <2>1, Zenon DEF InShard
  <2>2. ASSUME x = b PROVE InShard(x)'  BY <1>2, <1>5, <1>6, <2>2, Zenon DEF InShard
  <2>3. ASSUME NEW j \in Shards, Has(shards[j], x) PROVE Has(shards'[j], x)
    BY <1>3, <1>5, <1>6, <2>3, Zenon
  <2>4. InShard(x) => InShard(x)'  BY <2>3, Zenon DEF InShard
  <2> QED  BY <2>1, <2>2, <2>4, Zenon
<1> QED  BY <1>6, <1>7, <1>9, <1>10, Zenon

(* Push puts the block into its shard, and the block is protected before   *)
(* the shard is unlocked.                                                  *)
LEMMA PushedSharedKeeps ==
  ASSUME HeapInv, NEW t \in Threads, PushedShared(t)
  PROVE  ManagerInv' /\ UNCHANGED zebraVars
<1>0. Types /\ OwnersAt(t) /\ thread[t].pc = "pushing" /\ WorkOK(thread[t])
  BY Parts, ThreadParts, Zenon DEF PushedShared, At
<1>1. /\ thread[t] \in WorkSet /\ thread[t].q = "shared" /\ thread[t].block \in Blocks
      /\ Distinct(thread[t].todo) /\ (\A x : Has(thread[t].todo, x) => x \notin thread[t].vec)
      /\ ~Has(thread[t].todo, thread[t].block) /\ thread[t].block \notin thread[t].vec
      /\ \A x : Pushes(thread[t], x) <=> x = thread[t].block
      /\ \A x : Hand(t, x) <=> x = thread[t].block \/ Has(thread[t].todo, x) \/ x \in thread[t].vec
      /\ thread[t].heap = None => thread[t].todo = << >> /\ thread[t].vec = {}
  BY <1>0, PushThread, Zenon DEF WorkOK
<1>2. PICK b : b = thread[t].block  BY Zenon
<1>3. /\ shards' = [shards EXCEPT ![ShardOf[b]] = Append(shards[ShardOf[b]], b)]
      /\ size' = (call[t].read + SizeOf[b]) % Modulus
      /\ locks' = [locks EXCEPT ![ShardOf[b]] = None]
      /\ call' = [call EXCEPT ![t] = NoCall] /\ UNCHANGED <<maxSize, raced>>
      /\ protected' = protected \union {b}
      /\ UNCHANGED <<zebraVars, header, inUse, heaps, clashed>>
  BY <1>2, Zenon DEF PushedShared, PushEnds, BlockProtectAll, heapVars
<1>4. PICK p : p = IF Destroying(t) THEN "reinsert" ELSE "trim"  BY Zenon
<1>5. PICK w : w = [thread[t] EXCEPT !.pc = p]  BY Zenon
<1>6. /\ w \in WorkSet /\ w.pc = p /\ w.heap = thread[t].heap /\ w.block = thread[t].block
      /\ w.todo = thread[t].todo /\ w.vec = thread[t].vec /\ w.q = thread[t].q
  <2>1. p \in Steps  BY <1>4, Zenon DEF Steps
  <2> QED  BY <1>1, <1>5, <2>1, GotoFields
<1>7. StepsTo(t, w, NoCall)
  <2>1. Set(t, w)  BY <1>4, <1>5, Zenon DEF PushedShared, Pushed, Goto
  <2> QED  BY <1>3, <1>6, <2>1, NoCallFields, StepsInBoth, Zenon
<1>8. p \in {"reinsert", "trim"} /\ (p = "trim" <=> thread[t].heap = None)
  BY <1>4, Zenon DEF Destroying
<1>9. OpOK(w, NoCall)  BY <1>6, <1>8, NoCallFields, Zenon DEF OpOK
<1>10. WorkOK(w)  BY <1>0, <1>1, <1>6, <1>8, Zenon DEF WorkOK
<1>11. \A x : ~Pops(NoCall, x) /\ ~Has(NoCall.taken, x) /\ ~Pushes(w, x)
  BY <1>6, <1>8, NoCallFields, ListEmpty, Zenon DEF Pops, Pushes
<1>12. ApartOK(w, NoCall)
  BY <1>1, <1>6, <1>11, NoCallFields, ListEmpty, Zenon DEF ApartOK
<1>13. \A x : Holding(w, NoCall, x) <=> Hand(t, x) /\ x # b
  BY <1>1, <1>2, <1>6, <1>11, Zenon DEF Holding
<1>14. b \in Blocks /\ ~InShard(b) /\ b \in AllBlocks
  BY <1>0, <1>1, <1>2, BlockKinds, Zenon DEF OwnersAt
<1>15. /\ shards' \in [Shards -> Seq(Blocks)] /\ ShardsOK'
       /\ \A j \in Shards : \A x : Has(shards'[j], x) => Has(shards[j], x) \/ x = b
       /\ \A x : InShard(x)' <=> InShard(x) \/ x = b
  BY <1>3, <1>14, ShardGiven, Zenon
<1>16. slab_info' = slab_info /\ \A x : InSlab(x)' <=> InSlab(x)
  BY <1>3, Zenon DEF zebraVars, InSlab
<1>17. Moves(t, w, NoCall)
  <2>1. \A x : Hand(t, x) => ~InShard(x) /\ (x \in Slabs => slab_info[x] = "kAllocatedSlab")
    BY <1>0, Zenon DEF OwnersAt
  <2> QED  BY <1>13, <1>15, <1>16, <2>1, Zenon DEF Moves
<1>18. SlabsMove(t)  BY <1>16, Zenon DEF SlabsMove
<1>19. Continues(t, w) /\ PlaceOK(w, NoCall) /\ MayMark(t, w)
  BY <1>6, <1>8, <1>9, <1>10, <1>12, ThreadParts, Zenon DEF Continues, HeapsAt, PlaceOK, MayMark
<1>20. NoClash(w, NoCall)
  <2>1. SUFFICES ASSUME ~clashed, thread[t].heap # None
                 PROVE  /\ \A x : Returns(w, NoCall, x) => Alive(x)
                        /\ \A j \in Shards : \A x :
                             Has(shards'[j], x) => GetHeap(x) # thread[t].heap
    BY <1>6, <1>11, Zenon DEF NoClash
  <2>2. ClashAt(t)  BY Parts, <2>1, Zenon DEF ClashOK
  <2>3. \A x : Returns(w, NoCall, x) => Returns(thread[t], call[t], x)
    BY <1>6, <1>11, Zenon DEF Returns
  <2>4. \A j \in Shards : Emptied(thread[t], call[t], j)  BY <1>0, Zenon DEF Emptied
  <2>5. GetHeap(b) # thread[t].heap  BY <1>1, <1>2, <2>1, <2>2, Zenon DEF ClashAt
  <2>6. \A j \in Shards : \A x : Has(shards[j], x) => GetHeap(x) # thread[t].heap
    BY <2>1, <2>2, <2>4, Zenon DEF ClashAt
  <2>7. \A x : Returns(w, NoCall, x) => Alive(x)  BY <2>1, <2>2, <2>3, Zenon DEF ClashAt
  <2> QED  BY <1>15, <2>5, <2>6, <2>7, Zenon
<1>21. RestTyped'
  <2>1. size' \in 0..(Modulus - 1)
    <3>1. call[t].read \in Int
      <4>1. call[t].read \in 0..(Modulus - 1)  BY <1>0, CallFields, Zenon
      <4> QED  BY <4>1
    <3>2. SizeOf[b] \in Int  BY <1>14, QuarantineAssumption
    <3>3. call[t].read + SizeOf[b] \in Int  BY <3>1, <3>2
    <3> QED  BY <1>3, <3>3, WrapsAround, Zenon
  <2>2. locks' \in [Shards -> Threads \union {None}]
    BY <1>0, <1>3, Zenon DEF Types, QuarantineTypeOK
  <2> QED  BY <1>0, <1>3, <1>14, <2>1, <2>2, Zenon DEF RestTyped, Types, QuarantineTypeOK
<1>22. \A x \in Blocks : x \in protected' => x \in protected \/ Pushes(thread[t], x)
  BY <1>1, <1>2, <1>3, Zenon
<1>23. \A j \in Shards : \A x : Has(shards'[j], x) => Has(shards[j], x) \/ Pushes(thread[t], x)
  BY <1>1, <1>2, <1>15, Zenon
<1>24. ManagerInv'
  BY <1>3, <1>7, <1>15, <1>17, <1>18, <1>19, <1>20, <1>21, <1>22, <1>23, MoveKeeps, Zenon
<1> QED  BY <1>3, <1>24, Zenon

-----------------------------------------------------------------------------
(* The steps that move slabs into the quarantine of the zebra heap and     *)
(* out of it.                                                              *)

(* A slab changes its state.                                               *)
LEMMA SlabSet ==
  ASSUME ZebraInv, NEW s \in Slabs, NEW state, SetState(s, state)
  PROVE  slab_info'[s] = state /\ \A y \in Slabs \ {s} : slab_info'[y] = slab_info[y]
BY Zenon DEF ZebraInv, SetState

(* The slabs that Pop and Empty return are quarantined, and the one that   *)
(* Allocate returns is free.                                               *)
LEMMA SlabsTaken ==
  ASSUME ZebraInv
  PROVE  /\ \A s \in Slabs : ZebraPop(s) => slab_info[s] = "kQuarantinedSlab"
         /\ \A s \in Slabs : ZebraAllocate(s) => slab_info[s] = "kFreeSlab"
         /\ \A S \in SUBSET Slabs : ZebraEmpty(S) =>
              \A y \in Slabs : y \in S <=> slab_info[y] = "kQuarantinedSlab"
<1>1. ASSUME NEW s \in Slabs, ZebraPop(s) PROVE slab_info[s] = "kQuarantinedSlab"
  <2>1. s \in InState("kQuarantinedSlab")
    BY <1>1, PopHolds, Zenon DEF ZebraInv, ZebraPop, QuarantineInvariantIsSatisfied, QueueEmpty
  <2> QED  BY <2>1, Zenon DEF InState
<1>2. ASSUME NEW s \in Slabs, ZebraAllocate(s) PROVE slab_info[s] = "kFreeSlab"
  <2>1. s \in InState("kFreeSlab")
    BY <1>2, PopHolds, Zenon DEF ZebraInv, ZebraAllocate, QueueEmpty
  <2> QED  BY <2>1, Zenon DEF InState
<1>3. ASSUME NEW S \in SUBSET Slabs, ZebraEmpty(S), NEW y \in Slabs
      PROVE  y \in S <=> slab_info[y] = "kQuarantinedSlab"
  BY <1>3, Zenon DEF ZebraInv, ZebraEmpty, Holds, InState, N
<1> QED  BY <1>1, <1>2, <1>3, Zenon

(* A step of a thread that destroys no heap and moves slabs only.          *)
LEMMA SlabsKeep ==
  ASSUME HeapInv, NEW t \in Threads, NEW w \in WorkSet, Set(t, w), SlabsMove(t),
         UNCHANGED <<quarantineVars, header, inUse, protected, heapVars>>,
         thread[t].heap = None, call[t].op = "none", WorkOK(w), ApartOK(w, call[t]),
         w.pc \notin {"mark", "pushing"}, w.heap = None, w.block = thread[t].block,
         \A x : Holding(w, call[t], x) => Hand(t, x) \/ InSlab(x),
         \A x \in Slabs : Holding(w, call[t], x) => slab_info'[x] = "kAllocatedSlab",
         \A x : InSlab(x)' => InSlab(x) \/ Hand(t, x),
         \A x : InSlab(x) \/ Hand(t, x) => InSlab(x)' \/ Holding(w, call[t], x)
  PROVE  ManagerInv'
<1>0. Types /\ ShardsOK /\ OwnersAt(t) /\ call[t].taken = << >>
  BY Parts, ThreadParts, Zenon DEF OpOK
<1>a. shards' = shards /\ \A x : InShard(x)' <=> InShard(x)
  BY Zenon DEF quarantineVars, InShard
<1>1. StepsTo(t, w, call[t])  BY StepsInWork, Zenon DEF quarantineVars
<1>2. shards' \in [Shards -> Seq(Blocks)] /\ ShardsOK'
  BY <1>0, <1>a, Zenon DEF Types, QuarantineTypeOK, ShardsOK
<1>3. OpOK(w, call[t])  BY <1>0, Zenon DEF OpOK
<1>4. \A x : InSlab(x) => ~InShard(x)
  <2>1. \A x : InShard(x) => x \in Blocks
    BY <1>0, ListHas, Zenon DEF InShard, Types, QuarantineTypeOK
  <2> QED  BY <2>1, BlockKinds, Zenon DEF InSlab
<1>5. Moves(t, w, call[t])
  <2>1. \A x : Hand(t, x) => ~InShard(x)  BY <1>0, Zenon DEF OwnersAt
  <2>2. ASSUME NEW x, Holding(w, call[t], x)
        PROVE  /\ ~InShard(x)' /\ (x \in Slabs => slab_info'[x] = "kAllocatedSlab")
               /\ Hand(t, x) \/ InShard(x) \/ InSlab(x)
    BY <1>4, <1>a, <2>1, <2>2, Zenon
  <2>3. \A x : InShard(x) \/ InSlab(x) \/ Hand(t, x) =>
          InShard(x)' \/ InSlab(x)' \/ Holding(w, call[t], x)
    BY <1>a, Zenon
  <2> QED  BY <2>2, <2>3, Zenon DEF Moves
<1>6. PlaceOK(w, call[t]) /\ MayMark(t, w) /\ NoClash(w, call[t])
  BY <1>3, Zenon DEF PlaceOK, MayMark, NoClash
<1>7. Continues(t, w)  BY ThreadParts, Zenon DEF Continues, HeapsAt
<1>8. RestTyped'  BY <1>0, RestKept, Zenon DEF Types, quarantineVars
<1>9. /\ UNCHANGED <<header, inUse, heaps, clashed>>
      /\ \A i \in Shards : \A x : Has(shards'[i], x) => Has(shards[i], x) \/ Pushes(thread[t], x)
      /\ \A x \in Blocks : x \in protected' => x \in protected \/ Pushes(thread[t], x)
  BY <1>a, Zenon DEF heapVars
<1> QED  BY <1>1, <1>2, <1>5, <1>6, <1>7, <1>8, <1>9, MoveKeeps, Zenon

(* Push moves the slab from the hands of t into the quarantine.            *)
LEMMA PushZebraKeeps ==
  ASSUME HeapInv, NEW t \in Threads, At(t, "push"), On(t, "zebra"), ZebraPush(thread[t].block),
         Goto(t, "protect"), UNCHANGED <<quarantineVars, header, inUse, protected, heapVars>>
  PROVE  ManagerInv' /\ ZebraNext
<1>0. ZebraInv /\ thread[t].pc = "push" /\ thread[t].q = "zebra"  BY Parts, Zenon DEF At, On
<1>1. /\ thread[t] \in WorkSet /\ thread[t].block \in Slabs /\ thread[t].heap = None
      /\ thread[t].todo = << >> /\ thread[t].vec = {}
      /\ call[t].taken = << >> /\ call[t].op = "none" /\ WorkOK(thread[t])
      /\ \A x : Hand(t, x) <=> x = thread[t].block \/ Has(thread[t].todo, x) \/ x \in thread[t].vec
  BY <1>0, PushThread, Zenon
<1>2. PICK s : s = thread[t].block  BY Zenon
<1>3. /\ s \in Slabs /\ slab_info'[s] = "kQuarantinedSlab" /\ slab_info[s] = "kAllocatedSlab"
      /\ \A y \in Slabs \ {s} : slab_info'[y] = slab_info[y]
  BY <1>0, <1>1, <1>2, SlabSet, Zenon DEF ZebraPush, CanPush
<1>4. PICK w : w = [thread[t] EXCEPT !.pc = "protect"]  BY Zenon
<1>5. /\ w \in WorkSet /\ w.pc = "protect" /\ w.heap = thread[t].heap /\ w.block = thread[t].block
      /\ w.todo = thread[t].todo /\ w.vec = thread[t].vec /\ w.q = thread[t].q
  BY <1>1, <1>4, GotoFields DEF Steps
<1>6. Set(t, w)  BY <1>4, Zenon DEF Goto
<1>7. WorkOK(w)  BY <1>0, <1>1, <1>5, Zenon DEF WorkOK
<1>8. \A x : ~Pops(call[t], x)  BY <1>1, Zenon DEF Pops
<1>9. ApartOK(w, call[t])  BY <1>1, <1>5, <1>8, ApartPlain, Zenon
<1>10. \A x : ~Holding(w, call[t], x)
  BY <1>1, <1>5, <1>8, ListEmpty, Zenon DEF Holding, Pushes
<1>11. \A x : Hand(t, x) <=> x = s  BY <1>1, <1>2, ListEmpty, Zenon
<1>12. \A x : InSlab(x)' <=> InSlab(x) \/ x = s  BY <1>3, Zenon DEF InSlab
<1>13. SlabsMove(t)  BY <1>3, <1>11, Zenon DEF SlabsMove
<1>14. ManagerInv'
  BY <1>1, <1>5, <1>6, <1>7, <1>9, <1>10, <1>11, <1>12, <1>13, SlabsKeep, Zenon
<1>15. ZebraNext  BY <1>1, Zenon DEF ZebraNext
<1> QED  BY <1>14, <1>15, Zenon

(* Pop and Empty move slabs from the quarantine into the hands of t.       *)
LEMMA SlabsCollected ==
  ASSUME HeapInv, NEW t \in Threads, thread[t].pc \in {"pop", "trim"}, thread[t].q = "zebra",
         NEW S \in SUBSET Slabs, NEW p \in {"pop", "free"}, Collect(t, S, p),
         UNCHANGED <<quarantineVars, header, inUse, protected, heapVars>>,
         \A y \in S : slab_info[y] = "kQuarantinedSlab" /\ slab_info'[y] = "kAllocatedSlab",
         \A y \in Slabs \ S : slab_info'[y] = slab_info[y]
  PROVE  ManagerInv'
<1>0. /\ Types /\ OwnersAt(t) /\ OpOK(thread[t], call[t]) /\ WorkOK(thread[t])
  BY Parts, ThreadParts, Zenon
<1>1. thread[t].heap = None /\ thread[t].todo = << >> /\ call[t].taken = << >>
  BY PlainThread, Zenon
<1>2. call[t].op = "none"  BY <1>0, Zenon DEF OpOK
<1>3. PICK V : V = thread[t].vec \union S  BY Zenon
<1>4. PICK w : w = [thread[t] EXCEPT !.pc = p, !.vec = V]  BY Zenon
<1>5. /\ w \in WorkSet /\ w.pc = p /\ w.heap = thread[t].heap /\ w.block = thread[t].block
      /\ w.todo = thread[t].todo /\ w.vec = V /\ w.q = thread[t].q
  <2>1. V \in SUBSET AllBlocks  BY <1>0, <1>3, WorkFields, BlockKinds, Zenon
  <2>2. thread[t] \in WorkSet /\ p \in Steps  BY <1>0, WorkFields, Zenon DEF Steps
  <2> QED  BY <1>4, <2>1, <2>2, Zenon DEF WorkSet
<1>6. Set(t, w)  BY <1>3, <1>4, Zenon DEF Collect
<1>7. WorkOK(w)  BY <1>0, <1>1, <1>5, Zenon DEF WorkOK
<1>8. \A x : ~Pops(call[t], x) /\ ~Pushes(w, x) /\ ~Pushes(thread[t], x)
  BY <1>2, <1>5, Zenon DEF Pops, Pushes
<1>9. ApartOK(w, call[t])
  <2>1. w.pc \notin {"push", "pushing"} /\ w.todo = << >>  BY <1>1, <1>5, Zenon
  <2>2. \A x : Pops(call[t], x) => x \notin w.vec  BY <1>8, Zenon
  <2> QED  BY <1>1, <2>1, <2>2, ApartPlain, Zenon
<1>10. \A x : Hand(t, x) <=> x \in thread[t].vec
  BY <1>1, <1>8, ListEmpty, Zenon DEF Hand, Holding
<1>11. \A x : Holding(w, call[t], x) <=> x \in thread[t].vec \/ x \in S
  BY <1>1, <1>3, <1>5, <1>8, ListEmpty, Zenon DEF Holding
<1>12. \A x : InSlab(x)' <=> InSlab(x) /\ x \notin S  BY Zenon DEF InSlab
<1>13. \A x \in S : InSlab(x)  BY Zenon DEF InSlab
<1>14. SlabsMove(t)  BY <1>13, Zenon DEF SlabsMove
<1>15. \A x \in Slabs : Holding(w, call[t], x) => slab_info'[x] = "kAllocatedSlab"
  BY <1>0, <1>10, <1>11, Zenon DEF OwnersAt
<1>16. w.pc \notin {"mark", "pushing"} /\ w.heap = None /\ w.block = thread[t].block
  BY <1>1, <1>5, Zenon
<1> QED
  BY <1>1, <1>2, <1>5, <1>6, <1>7, <1>9, <1>10, <1>11, <1>12, <1>13, <1>14, <1>15, <1>16,
     SlabsKeep, Zenon

(* PopZebra.                                                               *)
LEMMA PopZebraKeeps ==
  ASSUME HeapInv, NEW t \in Threads, PopZebra(t)
  PROVE  ManagerInv' /\ [ZebraNext]_zebraVars
<1>0. ZebraInv /\ thread[t].pc = "pop" /\ thread[t].q = "zebra" /\ OpOK(thread[t], call[t])
  BY Parts, ThreadParts, Zenon DEF PopZebra, At, On
<1>1. UNCHANGED <<quarantineVars, header, inUse, protected, heapVars>>  BY Zenon DEF PopZebra
<1>2. ASSUME NEW s \in Slabs, ZebraPop(s), Collect(t, {s}, "pop")
      PROVE  ManagerInv' /\ ZebraNext
  <2>1. /\ slab_info[s] = "kQuarantinedSlab" /\ slab_info'[s] = "kAllocatedSlab"
        /\ \A y \in Slabs \ {s} : slab_info'[y] = slab_info[y]
    BY <1>0, <1>2, SlabsTaken, SlabSet, Zenon DEF ZebraPop
  <2>2. /\ {s} \in SUBSET Slabs
        /\ \A y \in {s} : slab_info[y] = "kQuarantinedSlab" /\ slab_info'[y] = "kAllocatedSlab"
        /\ thread[t].pc \in {"pop", "trim"} /\ "pop" \in {"pop", "free"}
    BY <1>0, <2>1, Zenon
  <2>3. ManagerInv'  BY <1>0, <1>1, <1>2, <2>1, <2>2, SlabsCollected, Zenon
  <2>4. ZebraNext  BY <1>2, Zenon DEF ZebraNext
  <2> QED  BY <2>3, <2>4, Zenon
<1>3. ASSUME Goto(t, "free"), UNCHANGED zebraVars PROVE ManagerInv'
  <2>1. /\ call[t].op = "none" /\ thread[t].pc \in {"pop", "trim"}
        /\ "free" \in {"pop", "empty", "free"}
    BY <1>0, Zenon DEF OpOK
  <2> QED  BY <1>1, <1>3, <2>1, TrimGoes, Zenon
<1> QED  BY <1>2, <1>3, Zenon DEF PopZebra

(* TrimQuarantine.                                                         *)
LEMMA TrimQuarantineKeeps ==
  ASSUME HeapInv, NEW t \in Threads, TrimQuarantine(t)
  PROVE  ManagerInv' /\ [ZebraNext]_zebraVars
<1>0. /\ ZebraInv /\ Types /\ thread[t].pc = "trim" /\ OpOK(thread[t], call[t])
      /\ UNCHANGED <<quarantineVars, header, inUse, protected, heapVars>>
  BY Parts, ThreadParts, Zenon DEF TrimQuarantine, At
<1>1. call[t].op = "none" /\ thread[t].pc \in {"pop", "trim"}  BY <1>0, Zenon DEF OpOK
<1>2. ASSUME NEW p \in {"pop", "empty"}, Goto(t, p), UNCHANGED zebraVars PROVE ManagerInv'
  BY <1>0, <1>1, <1>2, TrimGoes, Zenon
<1>3. ASSUME NEW S \in SUBSET Slabs, ZebraEmpty(S), Collect(t, S, "free"), ~On(t, "shared")
      PROVE  ManagerInv' /\ ZebraNext
  <2>1. thread[t].q = "zebra"  BY <1>0, <1>3, WorkFields, Zenon DEF On
  <2>2. /\ \A y \in S : slab_info[y] = "kQuarantinedSlab" /\ slab_info'[y] = "kAllocatedSlab"
        /\ \A y \in Slabs \ S : slab_info'[y] = slab_info[y]
    <3>1. \A y \in Slabs : y \in S <=> slab_info[y] = "kQuarantinedSlab"
      BY <1>0, <1>3, SlabsTaken, Zenon
    <3>2. slab_info' = [s \in Slabs |-> IF s \in S THEN "kAllocatedSlab" ELSE slab_info[s]]
      BY <1>3, Zenon DEF ZebraEmpty
    <3> QED  BY <3>1, <3>2, Zenon
  <2>3. ManagerInv'  BY <1>0, <1>1, <1>3, <2>1, <2>2, SlabsCollected, Zenon
  <2>4. ZebraNext  BY <1>3, Zenon DEF ZebraNext
  <2> QED  BY <2>3, <2>4, Zenon
<1> QED  BY <1>2, <1>3, Zenon DEF TrimQuarantine

=============================================================================
