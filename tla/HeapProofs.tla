----------------------------- MODULE HeapProofs -----------------------------
(***************************************************************************)
(* The heap manager with its quarantines: the steps that change the header *)
(* of a block or the state of a heap, and what the inductive invariant     *)
(* says.  No block is lost or freed twice, and no block of a heap that is  *)
(* gone stays in the quarantine.                                           *)
(***************************************************************************)
EXTENDS HeapMoves

(* The steps that change headers.                                          *)

(* The header of a block that the step does not concern.                   *)
Untouched(t, w, c, y) ==
  /\ header'[y] = header[y] /\ (Alive(y)' <=> Alive(y)) /\ (y \in inUse' <=> y \in inUse)
  /\ InShard(y)' <=> InShard(y)
  /\ y \in Slabs => slab_info'[y] = slab_info[y]
  /\ Holding(w, c, y) <=> Hand(t, y)

(* Its header still agrees with where it is.                               *)
LEMMA UntouchedKeeps ==
  ASSUME HeapInv, NEW t \in Threads, NEW w, NEW c, StepsTo(t, w, c), NEW y \in AllBlocks,
         Untouched(t, w, c, y)
  PROVE  HeaderAt(y)'
<1>1. InSlab(y)' <=> InSlab(y)  BY Zenon DEF Untouched, InSlab
<1>2. Holding(w, c, y) \/ InShard(y)' \/ InSlab(y)' <=> Hand(t, y) \/ InShard(y) \/ InSlab(y)
  BY <1>1, Zenon DEF Untouched
<1>3. /\ header'[y] = header[y] /\ (Alive(y)' <=> Alive(y)) /\ (y \in inUse' <=> y \in inUse)
      /\ y \in Slabs => (slab_info'[y] = "kFreeSlab" <=> slab_info[y] = "kFreeSlab")
  BY Zenon DEF Untouched
<1> QED  BY <1>2, <1>3, HeaderKept, Zenon

(* The manager's variables keep their types.                               *)
LEMMA TypesKept ==
  ASSUME HeapInv, NEW t \in Threads, NEW w, NEW c, StepsTo(t, w, c),
         UNCHANGED <<shards, locks, size, raced, maxSize>>, UNCHANGED <<heaps, clashed>>,
         header' \in [AllBlocks -> {"FREED_BLOCK", "ALLOCATED_BLOCK", "QUARANTINED_BLOCK"}],
         inUse' \subseteq Blocks, protected' \subseteq protected
  PROVE  Types'
<1>0. Types  BY Parts, Zenon
<1>1. QuarantineTypeOK'  BY <1>0, Zenon DEF Types, QuarantineTypeOK, StepsTo
<1> QED  BY <1>0, <1>1, Zenon DEF Types, StepsTo

(* A step of t that changes the header of one block x, leaves the shards   *)
(* and the heaps alone, and protects nothing.                              *)
LEMMA HeaderStep ==
  ASSUME HeapInv, NEW t \in Threads, NEW w, NEW c, StepsTo(t, w, c), NEW x \in AllBlocks,
         UNCHANGED <<shards, locks, size, raced, maxSize>>, UNCHANGED <<heaps, clashed>>,
         header' \in [AllBlocks -> {"FREED_BLOCK", "ALLOCATED_BLOCK", "QUARANTINED_BLOCK"}],
         inUse' \subseteq Blocks, protected' \subseteq protected,
         PlaceOK(w, c), Continues(t, w), NoClash(w, c), w.pc # "mark",
         \A u \in Threads \ {t} : ~(thread[u].pc = "mark" /\ thread[u].block = x),
         \A u \in Threads \ {t} : ~Hand(u, x),
         \A y \in AllBlocks \ {x} : Untouched(t, w, c, y),
         HeaderAt(x)',
         x \in protected' => header'[x] = header[x] \/ header'[x] = "QUARANTINED_BLOCK",
         \A y : Holding(w, c, y) =>
           \/ y = x /\ ~InShard(x) /\ (x \in Slabs => slab_info'[x] = "kAllocatedSlab")
           \/ y # x /\ Hand(t, y)
  PROVE  ManagerInv'
<1>0. Types /\ ShardsOK /\ OwnersAt(t) /\ SharedProtectedIsQuarantined
  BY Parts, ThreadParts, Zenon
<1>1. Types'  BY TypesKept, Zenon
<1>2. LocalOK' /\ HeapsOK'  BY LocalKept, HeapsKept, Zenon
<1>3. MarksOK'
  <2>1. ASSUME NEW u \in Threads \ {t}, thread[u].pc = "mark"
        PROVE  header'[thread[u].block] = header[thread[u].block]
    <3>1. thread[u].block \in AllBlocks /\ thread[u].block # x
      BY <2>1, ThreadParts, Zenon DEF WorkOK
    <3> QED  BY <3>1, Zenon DEF Untouched
  <2> QED  BY <2>1, MarksKept, Zenon
<1>4. ShardsOK'  BY <1>0, Zenon DEF ShardsOK
<1>a. \A y : InShard(y)' <=> InShard(y)  BY Zenon DEF InShard
<1>5. OwnersOK'
  <2>1. ASSUME NEW y, Holding(w, c, y)
        PROVE  /\ ~InShard(y)' /\ (y \in Slabs => slab_info'[y] = "kAllocatedSlab")
               /\ Hand(t, y) \/ InShard(y) \/ InSlab(y) \/ (\A u \in Threads : ~Hand(u, y))
    <3>1. CASE y = x
      BY <1>a, <2>1, <3>1, Zenon
    <3>2. CASE y # x
      <4>1. Hand(t, y)  BY <2>1, <3>2, Zenon
      <4>2. y \in AllBlocks  BY <4>1, HandIsBlock, Zenon
      <4>3. y \in Slabs => slab_info'[y] = slab_info[y]  BY <3>2, <4>2, Zenon DEF Untouched
      <4> QED  BY <1>0, <1>a, <4>1, <4>3, Zenon DEF OwnersAt
    <3> QED  BY <3>1, <3>2, Zenon
  <2>2. ASSUME NEW u \in Threads \ {t}, NEW y \in AllBlocks, Hand(u, y)
        PROVE  ~InShard(y)' /\ (y \in Slabs => slab_info'[y] = slab_info[y])
    <3>1. y # x /\ OwnersAt(u)  BY <2>2, ThreadParts, Zenon
    <3> QED  BY <1>a, <2>2, <3>1, Zenon DEF OwnersAt, Untouched
  <2> QED  BY <2>1, <2>2, OwnersKept, Zenon
<1>6. HeadersOK'
  <2>1. \A y \in AllBlocks \ {x} : HeaderAt(y)'  BY UntouchedKeeps, Zenon
  <2> QED  BY <2>1, Zenon DEF HeadersOK
<1>7. ClashOK'
  <2>1. \A i \in Shards : \A y : Has(shards'[i], y) => Has(shards[i], y) \/ Pushes(thread[t], y)
    BY Zenon
  <2> QED  BY <2>1, ClashKept, Zenon
<1>8. SharedProtectedIsQuarantined'
  <2>1. \A y : Alive(y)' <=> Alive(y)  BY Zenon DEF Alive
  <2>2. ASSUME NEW y \in protected' \intersect Blocks, Alive(y) \/ ~clashed
        PROVE  header'[y] = "QUARANTINED_BLOCK"
    <3>1. header[y] = "QUARANTINED_BLOCK" /\ y \in AllBlocks
      BY <1>0, <2>2, BlockKinds, Zenon DEF SharedProtectedIsQuarantined
    <3>2. CASE y = x  BY <2>2, <3>1, <3>2, Zenon
    <3>3. CASE y # x  BY <3>1, <3>3, Zenon DEF Untouched
    <3> QED  BY <3>2, <3>3, Zenon
  <2> QED  BY <2>1, <2>2, Zenon DEF SharedProtectedIsQuarantined
<1> QED  BY <1>1, <1>2, <1>3, <1>4, <1>5, <1>6, <1>7, <1>8, Zenon DEF ManagerInv

(* Where a block is after a step of t.                                     *)
LEMMA HeldNext ==
  ASSUME NEW t \in Threads, NEW w, NEW c, StepsTo(t, w, c), NEW x
  PROVE  Held(x)' <=> \/ InShard(x)' \/ InSlab(x)' \/ Holding(w, c, x)
                      \/ \E u \in Threads \ {t} : Hand(u, x)
<1>1. Hand(t, x)' <=> Holding(w, c, x)  BY HandNext, Zenon
<1>2. \A u \in Threads \ {t} : Hand(u, x)' <=> Hand(u, x)  BY OthersHold, Zenon DEF StepsTo
<1>3. ASSUME NEW u \in Threads, Hand(u, x)'
      PROVE  Holding(w, c, x) \/ \E v \in Threads \ {t} : Hand(v, x)
  BY <1>1, <1>2, <1>3, Zenon
<1> QED  BY <1>1, <1>2, <1>3, Zenon DEF Held

(* A block that no quarantine and no thread holds, of a heap that is not   *)
(* gone, is not marked as quarantined; a block that one holds is.          *)
LEMMA HeaderOf ==
  ASSUME HeapInv, NEW x \in AllBlocks, Alive(x)
  PROVE  /\ header[x] = "QUARANTINED_BLOCK" <=> Held(x)
         /\ header[x] = "FREED_BLOCK" <=>
              IF x \in Slabs THEN slab_info[x] = "kFreeSlab" ELSE x \notin inUse
         /\ x \in Slabs /\ header[x] = "ALLOCATED_BLOCK" => slab_info[x] = "kAllocatedSlab"
<1>1. HeaderAt(x) /\ ZebraInv  BY Parts, Zenon DEF HeadersOK
<1>2. /\ header[x] = "QUARANTINED_BLOCK" <=> Held(x)
      /\ header[x] = "FREED_BLOCK" <=>
           IF x \in Slabs THEN slab_info[x] = "kFreeSlab" ELSE x \notin inUse
  BY <1>1, Zenon DEF HeaderAt
<1>3. ASSUME x \in Slabs, header[x] = "ALLOCATED_BLOCK" PROVE slab_info[x] = "kAllocatedSlab"
  <2>1. slab_info[x] # "kFreeSlab" /\ slab_info[x] # "kQuarantinedSlab"
    BY <1>2, <1>3, Zenon DEF Held, InSlab
  <2> QED  BY <1>1, <1>3, <2>1, Zenon DEF ZebraInv, SlabStates
<1> QED  BY <1>2, <1>3, Zenon

(* Free marks the block as quarantined, and t holds it from then on.       *)
LEMMA MarkKeeps ==
  ASSUME HeapInv, NEW t \in Threads, Mark(t)
  PROVE  ManagerInv' /\ UNCHANGED zebraVars
<1>0. Types /\ WorkOK(thread[t]) /\ HeapsAt(t) /\ MarkAt(t) /\ thread[t].pc = "mark"
  BY Parts, ThreadParts, Zenon DEF Mark, At
<1>1. /\ \A y : ~Hand(t, y)
      /\ call[t].op = "none" /\ call[t].taken = << >>
      /\ thread[t].todo = << >> /\ thread[t].vec = {} /\ thread[t].heap = None
  BY <1>0, EmptyHanded, PlainThread, Zenon
<1>2. PICK x : x = thread[t].block  BY Zenon
<1>3. /\ x \in AllBlocks /\ header[x] = "ALLOCATED_BLOCK" /\ x # None
      /\ \A u \in Threads \ {t} : ~(thread[u].pc = "mark" /\ thread[u].block = x)
  BY <1>0, <1>2, BlockKinds, Zenon DEF WorkOK, MarkAt
<1>4. heaps[GetHeap(x)] = "live" /\ Alive(x)  BY <1>0, <1>1, <1>2, <1>3, Zenon DEF HeapsAt, Alive
<1>5. /\ ~Held(x) /\ (x \in Slabs => slab_info[x] = "kAllocatedSlab")
      /\ x \notin Slabs => x \in inUse
  BY <1>3, <1>4, HeaderOf, Zenon
<1>6. /\ header' = [header EXCEPT ![x] = "QUARANTINED_BLOCK"]
      /\ UNCHANGED <<quarantineVars, zebraVars, inUse, protected, heapVars>>
  BY <1>2, Zenon DEF Mark, SetHeader
<1>7. /\ header' \in [AllBlocks -> {"FREED_BLOCK", "ALLOCATED_BLOCK", "QUARANTINED_BLOCK"}]
      /\ header'[x] = "QUARANTINED_BLOCK" /\ \A y \in AllBlocks \ {x} : header'[y] = header[y]
  BY <1>0, <1>3, <1>6, Zenon DEF Types
<1>8. PICK w : w = [thread[t] EXCEPT !.pc = "push"]  BY Zenon
<1>9. /\ w \in WorkSet /\ w.pc = "push" /\ w.heap = thread[t].heap /\ w.block = thread[t].block
      /\ w.todo = thread[t].todo /\ w.vec = thread[t].vec /\ w.q = thread[t].q
  <2>1. thread[t] \in WorkSet  BY <1>0, WorkFields, Zenon
  <2> QED  BY <1>8, <2>1, GotoFields DEF Steps
<1>10. StepsTo(t, w, call[t])
  BY <1>6, <1>8, <1>9, StepsInWork, Zenon DEF Mark, Goto, quarantineVars
<1>11. \A y : (Pushes(w, y) <=> y = x) /\ ~Pops(call[t], y)
  BY <1>1, <1>2, <1>9, Zenon DEF Pushes, Pops
<1>12. OpOK(w, call[t]) /\ WorkOK(w)  BY <1>0, <1>1, <1>9, Zenon DEF OpOK, WorkOK
<1>13. ApartOK(w, call[t])  BY <1>1, <1>9, <1>11, ListEmpty, Zenon DEF ApartOK
<1>14. \A y : Holding(w, call[t], y) <=> y = x
  BY <1>1, <1>9, <1>11, ListEmpty, Zenon DEF Holding
<1>15. PlaceOK(w, call[t]) /\ Continues(t, w) /\ NoClash(w, call[t]) /\ w.pc # "mark"
  BY <1>1, <1>2, <1>4, <1>9, <1>12, <1>13, Zenon DEF PlaceOK, Continues, NoClash
<1>16. /\ (\A y : Alive(y)' <=> Alive(y)) /\ (\A y : InShard(y)' <=> InShard(y))
       /\ slab_info' = slab_info
  BY <1>6, Zenon DEF Alive, InShard, quarantineVars, zebraVars, heapVars
<1>17. \A y \in AllBlocks \ {x} : Untouched(t, w, call[t], y)
  BY <1>1, <1>6, <1>7, <1>14, <1>16, Zenon DEF Untouched
<1>18. HeaderAt(x)'
  <2>1. Alive(x)' /\ inUse' = inUse  BY <1>4, <1>6, <1>16, Zenon
  <2>2. Held(x)'  BY <1>10, <1>14, HeldNext, Zenon
  <2>3. ~(IF x \in Slabs THEN slab_info'[x] = "kFreeSlab" ELSE x \notin inUse')
    BY <1>5, <1>16, <2>1, Zenon
  <2> QED  BY <1>7, <2>1, <2>2, <2>3, Zenon DEF HeaderAt
<1>19. \A u \in Threads \ {t} : ~Hand(u, x)  BY <1>5, Zenon DEF Held
<1>20. \A y : Holding(w, call[t], y) =>
         \/ y = x /\ ~InShard(x) /\ (x \in Slabs => slab_info'[x] = "kAllocatedSlab")
         \/ y # x /\ Hand(t, y)
  BY <1>5, <1>14, <1>16, Zenon DEF Held
<1>21. /\ UNCHANGED <<shards, locks, size, raced, maxSize>> /\ UNCHANGED <<heaps, clashed>>
       /\ inUse' \subseteq Blocks /\ protected' \subseteq protected
  BY <1>0, <1>6, Zenon DEF quarantineVars, heapVars, Types
<1>22. ManagerInv'
  BY <1>3, <1>7, <1>10, <1>15, <1>17, <1>18, <1>19, <1>20, <1>21, HeaderStep, Zenon
<1> QED  BY <1>6, <1>22, Zenon

(* Allocate takes a block that is free.                                    *)
LEMMA AllocateKeepsHeap ==
  ASSUME HeapInv, NEW t \in Threads, NEW h \in AllHeaps, NEW x \in AllBlocks, Allocate(t, h, x)
  PROVE  ManagerInv' /\ [ZebraNext]_zebraVars
<1>0. /\ Types /\ ZebraInv /\ heaps[ZebraHeap] = "live"
      /\ PlaceOK(thread[t], call[t]) /\ thread[t].pc = "idle" /\ heaps[h] = "live"
  BY Parts, Zenon DEF HeapsOK, LocalOK, Allocate, At, IsValidHeapId
<1>1. thread[t].heap = None  BY <1>0, PlainThread, Zenon
<1>2. /\ header' = [header EXCEPT ![x] = "ALLOCATED_BLOCK"] /\ protected' = protected \ {x}
      /\ UNCHANGED <<quarantineVars, heapVars, thread>>
  BY Zenon DEF Allocate, SetHeader, BlockProtectNone
<1>3. /\ header' \in [AllBlocks -> {"FREED_BLOCK", "ALLOCATED_BLOCK", "QUARANTINED_BLOCK"}]
      /\ header'[x] = "ALLOCATED_BLOCK" /\ \A y \in AllBlocks \ {x} : header'[y] = header[y]
  BY <1>0, <1>2, Zenon DEF Types
<1>4. (\A y : Alive(y)' <=> Alive(y)) /\ (\A y : InShard(y)' <=> InShard(y))
  BY <1>2, Zenon DEF Alive, InShard, quarantineVars, heapVars
<1>5. StepsTo(t, thread[t], call[t])
  BY <1>0, <1>2, Zenon DEF StepsTo, Others, Types, QuarantineTypeOK, quarantineVars
<1>6. PlaceOK(thread[t], call[t]) /\ Continues(t, thread[t]) /\ NoClash(thread[t], call[t])
  BY <1>0, <1>1, ThreadParts, Zenon DEF Continues, NoClash, HeapsAt
<1>7. ASSUME Alive(x), header[x] = "FREED_BLOCK", inUse' \subseteq Blocks,
             \A y \in AllBlocks \ {x} :
               (y \in inUse' <=> y \in inUse) /\ (y \in Slabs => slab_info'[y] = slab_info[y]),
             IF x \in Slabs THEN slab_info'[x] = "kAllocatedSlab" ELSE x \in inUse'
      PROVE  ManagerInv'
  <2>1. ~Held(x)  BY <1>7, HeaderOf, Zenon
  <2>2. \A y \in AllBlocks \ {x} : Untouched(t, thread[t], call[t], y)
    BY <1>3, <1>4, <1>7, Zenon DEF Untouched, Hand
  <2>3. HeaderAt(x)'
    <3>1. Alive(x)' /\ ~InSlab(x)' /\ ~InShard(x)' /\ ~Holding(thread[t], call[t], x)
      BY <1>4, <1>7, <2>1, Zenon DEF InSlab, Held, Hand
    <3>2. ~Held(x)'  BY <1>5, <2>1, <3>1, HeldNext, Zenon DEF Held
    <3>3. ~(IF x \in Slabs THEN slab_info'[x] = "kFreeSlab" ELSE x \notin inUse')
      BY <1>7, Zenon
    <3> QED  BY <1>3, <3>1, <3>2, <3>3, Zenon DEF HeaderAt
  <2>4. /\ \A u \in Threads \ {t} : ~Hand(u, x)
        /\ \A y : Holding(thread[t], call[t], y) => y # x /\ Hand(t, y)
    BY <2>1, Zenon DEF Held, Hand
  <2>5. \A u \in Threads \ {t} : ~(thread[u].pc = "mark" /\ thread[u].block = x)
    BY <1>7, ThreadParts, Zenon DEF MarkAt
  <2>6. /\ UNCHANGED <<shards, locks, size, raced, maxSize>> /\ UNCHANGED <<heaps, clashed>>
        /\ protected' \subseteq protected /\ x \notin protected' /\ thread[t].pc # "mark"
    BY <1>0, <1>2, Zenon DEF quarantineVars, heapVars
  <2> QED
    BY <1>3, <1>5, <1>6, <1>7, <2>2, <2>3, <2>4, <2>5, <2>6, HeaderStep, Zenon
<1>8. CASE x \in Slabs /\ ZebraAllocate(x) /\ UNCHANGED inUse
  <2>1. /\ slab_info[x] = "kFreeSlab" /\ slab_info'[x] = "kAllocatedSlab"
        /\ \A y \in Slabs \ {x} : slab_info'[y] = slab_info[y]
    BY <1>0, <1>8, SlabsTaken, SlabSet, Zenon DEF ZebraAllocate
  <2>2. Alive(x)  BY <1>0, <1>8, BlockKinds, Zenon DEF Alive
  <2>3. header[x] = "FREED_BLOCK"  BY <1>8, <2>1, <2>2, HeaderOf, Zenon
  <2>4. inUse' \subseteq Blocks  BY <1>0, <1>8, Zenon DEF Types
  <2>5. ManagerInv'  BY <1>7, <1>8, <2>1, <2>2, <2>3, <2>4, Zenon
  <2>6. ZebraNext  BY <1>8, Zenon DEF ZebraNext
  <2> QED  BY <2>5, <2>6, Zenon
<1>9. CASE x \in Blocks \ inUse /\ HeapOf[x] = h /\ inUse' = inUse \union {x} /\ UNCHANGED zebraVars
  <2>1. x \notin Slabs /\ Alive(x)  BY <1>0, <1>9, BlockKinds, Zenon DEF Alive
  <2>2. header[x] = "FREED_BLOCK"  BY <1>9, <2>1, HeaderOf, Zenon
  <2>3. inUse' \subseteq Blocks /\ slab_info' = slab_info  BY <1>0, <1>9, Zenon DEF Types, zebraVars
  <2>4. \A y \in AllBlocks \ {x} :
          (y \in inUse' <=> y \in inUse) /\ (y \in Slabs => slab_info'[y] = slab_info[y])
    BY <1>9, <2>3, Zenon
  <2>5. x \in inUse'  BY <1>9, Zenon
  <2>6. ManagerInv'  BY <1>7, <2>1, <2>2, <2>3, <2>4, <2>5, Zenon
  <2> QED  BY <1>9, <2>6, Zenon
<1> QED  BY <1>8, <1>9, Zenon DEF Allocate

(* A step of t in which FreePristineBlock gives back a block that t had at *)
(* hand.                                                                   *)
LEMMA FreesKeep ==
  ASSUME HeapInv, NEW t \in Threads, NEW x \in AllBlocks, Hand(t, x), FreePristineBlock(x),
         NEW w, StepsTo(t, w, call[t]), UNCHANGED <<quarantineVars, heapVars>>,
         PlaceOK(w, call[t]), Continues(t, w), NoClash(w, call[t]), w.pc # "mark",
         \A y : Holding(w, call[t], y) <=> Hand(t, y) /\ y # x
  PROVE  ManagerInv' /\ [ZebraNext]_zebraVars
<1>0. Types /\ ZebraInv /\ HeaderAt(x) /\ OwnersAt(t) /\ Held(x)
  BY Parts, ThreadParts, Zenon DEF HeadersOK, Held
<1>1. /\ UNCHANGED <<shards, locks, size, raced, maxSize>> /\ UNCHANGED <<heaps, clashed>>
      /\ protected' = protected \ {x}
  BY Zenon DEF quarantineVars, heapVars, FreePristineBlock, BlockProtectNone
<1>2. (\A y : Alive(y)' <=> Alive(y)) /\ (\A y : InShard(y)' <=> InShard(y))
  BY <1>1, Zenon DEF Alive, InShard
<1>3. ~InShard(x) /\ (x \in Slabs => slab_info[x] = "kAllocatedSlab") /\ ~InSlab(x)
      /\ \A u \in Threads \ {t} : ~Hand(u, x)
  BY <1>0, Zenon DEF OwnersAt, InSlab
<1>4. /\ header[x] # "ALLOCATED_BLOCK"
      /\ \A u \in Threads \ {t} : ~(thread[u].pc = "mark" /\ thread[u].block = x)
  <2>1. header[x] # "ALLOCATED_BLOCK"  BY <1>0, Zenon DEF HeaderAt
  <2> QED  BY <2>1, ThreadParts, Zenon DEF MarkAt
<1>5. /\ \A y : Holding(w, call[t], y) => y # x /\ Hand(t, y)
      /\ protected' \subseteq protected /\ x \notin protected'
  BY <1>1, Zenon
<1>6. ASSUME header' \in [AllBlocks -> {"FREED_BLOCK", "ALLOCATED_BLOCK", "QUARANTINED_BLOCK"}],
             header'[x] = "FREED_BLOCK", inUse' \subseteq Blocks,
             Alive(x) => IF x \in Slabs THEN slab_info'[x] = "kFreeSlab" ELSE x \notin inUse',
             \A y \in AllBlocks \ {x} :
               /\ header'[y] = header[y] /\ (y \in inUse' <=> y \in inUse)
               /\ y \in Slabs => slab_info'[y] = slab_info[y]
      PROVE  ManagerInv'
  <2>1. \A y \in AllBlocks \ {x} : Untouched(t, w, call[t], y)
    BY <1>2, <1>6, Zenon DEF Untouched
  <2>2. HeaderAt(x)'
    <3>1. CASE ~Alive(x)  BY <1>2, <1>6, <3>1, Zenon DEF HeaderAt
    <3>2. CASE Alive(x)
      <4>1. ~InSlab(x)' /\ ~InShard(x)' /\ ~Holding(w, call[t], x)
        BY <1>2, <1>3, <1>6, <3>2, Zenon DEF InSlab
      <4>2. ~Held(x)'  BY <1>3, <4>1, HeldNext, Zenon
      <4> QED  BY <1>2, <1>6, <3>2, <4>2, Zenon DEF HeaderAt
    <3> QED  BY <3>1, <3>2, Zenon
  <2> QED  BY <1>1, <1>3, <1>4, <1>5, <1>6, <2>1, <2>2, HeaderStep, Zenon
<1>7. header' = [header EXCEPT ![x] = "FREED_BLOCK"]
  BY Zenon DEF FreePristineBlock, SetHeader
<1>8. /\ header' \in [AllBlocks -> {"FREED_BLOCK", "ALLOCATED_BLOCK", "QUARANTINED_BLOCK"}]
      /\ header'[x] = "FREED_BLOCK" /\ \A y \in AllBlocks \ {x} : header'[y] = header[y]
  BY <1>0, <1>7, Zenon DEF Types
<1>9. CASE x \in Slabs
  <2>1. ZebraFree(x) /\ inUse' = inUse  BY <1>9, Zenon DEF FreePristineBlock
  <2>2. SetState(x, "kFreeSlab")  BY <1>3, <1>9, <2>1, Zenon DEF ZebraFree
  <2>3. slab_info'[x] = "kFreeSlab" /\ \A y \in Slabs \ {x} : slab_info'[y] = slab_info[y]
    BY <1>0, <1>9, <2>2, SlabSet, Zenon
  <2>4. inUse' \subseteq Blocks  BY <1>0, <2>1, Zenon DEF Types
  <2>5. \A y \in AllBlocks \ {x} :
          /\ header'[y] = header[y] /\ (y \in inUse' <=> y \in inUse)
          /\ y \in Slabs => slab_info'[y] = slab_info[y]
    BY <1>8, <2>1, <2>3, Zenon
  <2>6. ManagerInv'  BY <1>6, <1>8, <1>9, <2>3, <2>4, <2>5, Zenon
  <2>7. ZebraNext
    <3>1. slab_info[x] # "kQuarantinedSlab"  BY <1>3, <1>9, Zenon
    <3> QED  BY <1>9, <2>1, <3>1, Zenon DEF ZebraNext
  <2> QED  BY <2>6, <2>7, Zenon
<1>a. CASE x \notin Slabs
  <2>1. inUse' = inUse \ {x} /\ UNCHANGED zebraVars
    BY <1>a, Zenon DEF FreePristineBlock
  <2>2. inUse' \subseteq Blocks /\ x \notin inUse' /\ slab_info' = slab_info
    BY <1>0, <2>1, Zenon DEF Types, zebraVars
  <2>3. \A y \in AllBlocks \ {x} :
          /\ header'[y] = header[y] /\ (y \in inUse' <=> y \in inUse)
          /\ y \in Slabs => slab_info'[y] = slab_info[y]
    BY <1>8, <2>1, <2>2, Zenon
  <2>4. ManagerInv'  BY <1>6, <1>8, <1>a, <2>2, <2>3, Zenon
  <2> QED  BY <2>1, <2>4, Zenon
<1> QED  BY <1>9, <1>a, Zenon

(* FreeBlockVector frees one of its blocks.                                *)
LEMMA FreeBlockVectorKeeps ==
  ASSUME HeapInv, NEW t \in Threads, FreeBlockVector(t)
  PROVE  ManagerInv' /\ [ZebraNext]_zebraVars
<1>0. /\ Types /\ WorkOK(thread[t]) /\ OpOK(thread[t], call[t]) /\ HeapsAt(t)
      /\ thread[t].pc = "free" /\ thread[t] \in WorkSet /\ ClashOK
  BY Parts, ThreadParts, WorkFields, Zenon DEF FreeBlockVector, At
<1>1. call[t].op = "none" /\ call[t].taken = << >> /\ thread[t].todo = << >>
  BY <1>0, Zenon DEF OpOK, WorkOK
<1>2. UNCHANGED <<quarantineVars, heapVars>>  BY Zenon DEF FreeBlockVector
<1>3. PICK x \in thread[t].vec :
        FreePristineBlock(x) /\ Set(t, [thread[t] EXCEPT !.vec = thread[t].vec \ {x}])
  BY Zenon DEF FreeBlockVector
<1>4. x \in AllBlocks /\ Hand(t, x)
  BY <1>0, <1>3, WorkFields, Zenon DEF Hand, Holding
<1>5. PICK w : w = [thread[t] EXCEPT !.vec = thread[t].vec \ {x}]  BY Zenon
<1>6. /\ w \in WorkSet /\ w.pc = "free" /\ w.heap = thread[t].heap /\ w.block = thread[t].block
      /\ w.todo = thread[t].todo /\ w.vec = thread[t].vec \ {x} /\ w.q = thread[t].q
  BY <1>0, <1>5 DEF WorkSet, Steps
<1>7. StepsTo(t, w, call[t])  BY <1>2, <1>3, <1>5, <1>6, StepsInWork, Zenon DEF quarantineVars
<1>8. \A y : ~Pops(call[t], y) /\ ~Pushes(w, y) /\ ~Pushes(thread[t], y)
             /\ ~Has(w.todo, y) /\ ~Has(call[t].taken, y)
  BY <1>0, <1>1, <1>6, ListEmpty, Zenon DEF Pops, Pushes
<1>9. \A y : Holding(w, call[t], y) <=> Hand(t, y) /\ y # x
  BY <1>1, <1>6, <1>8, Zenon DEF Hand, Holding
<1>10. OpOK(w, call[t]) /\ WorkOK(w)
  BY <1>0, <1>1, <1>6, Zenon DEF OpOK, WorkOK
<1>11. ApartOK(w, call[t])  BY <1>1, <1>6, <1>8, ListEmpty, Zenon DEF ApartOK
<1>12. Continues(t, w)  BY <1>0, <1>6, Zenon DEF Continues, HeapsAt
<1>13. NoClash(w, call[t])
  <2>1. shards' = shards  BY <1>2, Zenon DEF quarantineVars
  <2>2. \A i \in Shards : Emptied(thread[t], call[t], i)  BY <1>0, Zenon DEF Emptied
  <2>3. \A y : ~Returns(w, call[t], y)  BY <1>8, Zenon DEF Returns
  <2> QED  BY <1>0, <1>6, <1>8, <2>1, <2>2, <2>3, Zenon DEF NoClash, ClashOK, ClashAt
<1>14. PlaceOK(w, call[t]) /\ w.pc # "mark"  BY <1>6, <1>10, <1>11, Zenon DEF PlaceOK
<1> QED
  BY <1>2, <1>3, <1>4, <1>7, <1>9, <1>12, <1>13, <1>14, FreesKeep, Zenon

(* Free could not push the block: it is freed at once.                     *)
LEMMA NotPushedKeeps ==
  ASSUME HeapInv, NEW t \in Threads, At(t, "push"), ~Destroying(t), NotPushed(t),
         UNCHANGED <<quarantineVars, heapVars>>
  PROVE  ManagerInv' /\ [ZebraNext]_zebraVars
<1>0. thread[t].pc = "push" /\ thread[t].heap = None  BY Zenon DEF At, Destroying
<1>1. PICK x : x = thread[t].block  BY Zenon
<1>2. FreePristineBlock(x) /\ Set(t, NoWork)  BY <1>1, Zenon DEF NotPushed
<1>3. /\ x \in AllBlocks /\ call[t].op = "none" /\ call[t].taken = << >>
      /\ \A y : Hand(t, y) <=> y = x
  <2>1. thread[t].todo = << >> /\ thread[t].vec = {}  BY <1>0, PushThread, Zenon
  <2>2. /\ thread[t].block \in AllBlocks /\ call[t].op = "none" /\ call[t].taken = << >>
        /\ \A y : Hand(t, y) <=>
             y = thread[t].block \/ Has(thread[t].todo, y) \/ y \in thread[t].vec
    BY <1>0, PushThread, Zenon
  <2> QED  BY <1>1, <2>1, <2>2, ListEmpty, Zenon
<1>4. StepsTo(t, NoWork, call[t])  BY <1>2, NoWorkFields, StepsInWork, Zenon DEF quarantineVars
<1>5. \A y : ~Pops(call[t], y) /\ ~Pushes(NoWork, y)
  BY <1>3, NoWorkFields, Zenon DEF Pops, Pushes
<1>6. \A y : ~Holding(NoWork, call[t], y)
  BY <1>3, <1>5, NoWorkFields, ListEmpty, Zenon DEF Holding
<1>7. OpOK(NoWork, call[t]) /\ WorkOK(NoWork)
  BY <1>3, NoWorkFields, Zenon DEF OpOK, WorkOK
<1>8. ApartOK(NoWork, call[t])  BY <1>3, <1>5, NoWorkFields, ListEmpty, Zenon DEF ApartOK
<1>9. /\ PlaceOK(NoWork, call[t]) /\ Continues(t, NoWork) /\ NoClash(NoWork, call[t])
      /\ NoWork.pc # "mark"
  BY <1>7, <1>8, NoWorkFields, Zenon DEF PlaceOK, Continues, NoClash
<1>10. Hand(t, x) /\ \A y : Holding(NoWork, call[t], y) <=> Hand(t, y) /\ y # x
  BY <1>3, <1>6, Zenon
<1> QED
  BY <1>2, <1>3, <1>4, <1>9, <1>10, FreesKeep, Zenon

-----------------------------------------------------------------------------
(* Steps that change a heap.                                               *)

(* A heap changes its state, and no other does.                            *)
LEMMA HeapSet ==
  ASSUME HeapInv, NEW h \in CreatedHeaps, NEW state, heaps' = [heaps EXCEPT ![h] = state]
  PROVE  /\ heaps'[h] = state /\ \A k \in AllHeaps \ {h} : heaps'[k] = heaps[k]
         /\ h \in AllHeaps /\ h # ZebraHeap /\ h # None /\ ZebraHeap \in AllHeaps
         /\ \A x \in AllBlocks : GetHeap(x) # h => (Alive(x)' <=> Alive(x))
         /\ \A x \in AllBlocks : GetHeap(x) = h => (Alive(x)' <=> state # "dead")
         /\ state \in {"none", "live", "dying", "dead"} =>
              heaps' \in [AllHeaps -> {"none", "live", "dying", "dead"}]
<1>0. /\ heaps \in [AllHeaps -> {"none", "live", "dying", "dead"}]
      /\ h \in AllHeaps /\ h # ZebraHeap /\ h # None /\ ZebraHeap \in AllHeaps
  BY Parts, HeapAssumption, Zenon DEF Types, AllHeaps
<1>1. heaps'[h] = state /\ \A k \in AllHeaps \ {h} : heaps'[k] = heaps[k]  BY <1>0, Zenon
<1>2. \A x \in AllBlocks : GetHeap(x) \in AllHeaps  BY <1>0, BlockKinds, Zenon
<1>3. /\ \A x \in AllBlocks : GetHeap(x) # h => (Alive(x)' <=> Alive(x))
      /\ \A x \in AllBlocks : GetHeap(x) = h => (Alive(x)' <=> state # "dead")
  BY <1>1, <1>2, Zenon DEF Alive
<1>4. state \in {"none", "live", "dying", "dead"} =>
        heaps' \in [AllHeaps -> {"none", "live", "dying", "dead"}]
  BY <1>0, Zenon
<1> QED  BY <1>0, <1>1, <1>3, <1>4, Zenon

(* The blocks in the shards are blocks.                                    *)
LEMMA InShardIsBlock ==
  ASSUME HeapInv, NEW x, InShard(x)
  PROVE  x \in Blocks /\ x \in AllBlocks
<1>1. PICK i \in Shards : Has(shards[i], x)  BY Zenon DEF InShard
<1>2. PICK s : s = shards[i]  BY Zenon
<1>3. s \in Seq(Blocks)  BY <1>2, Parts, Zenon DEF Types, QuarantineTypeOK
<1> QED  BY <1>1, <1>2, <1>3, ListHas, BlockKinds, Zenon

(* A step of a thread with no block at hand, before and after, that leaves *)
(* the quarantines alone.                                                  *)
LEMMA HandlessStep ==
  ASSUME HeapInv, NEW t \in Threads, NEW w, StepsTo(t, w, call[t]),
         UNCHANGED <<quarantineVars, zebraVars>>, PlaceOK(w, call[t]),
         \A y : ~Hand(t, y), \A y : ~Holding(w, call[t], y)
  PROVE  /\ LocalOK' /\ ShardsOK' /\ OwnersOK' /\ QuarantineTypeOK'
         /\ maxSize' \in QuarantineSizes /\ thread' \in [Threads -> WorkSet]
         /\ \A x : InShard(x)' <=> InShard(x)
         /\ \A x \in AllBlocks : header'[x] = header[x] /\ (Alive(x)' <=> Alive(x))
                                 /\ (x \in inUse' <=> x \in inUse) => HeaderAt(x)'
<1>0. Types /\ ShardsOK /\ OwnersOK  BY Parts, Zenon
<1>1. /\ shards' = shards /\ locks' = locks /\ size' = size /\ maxSize' = maxSize
      /\ raced' = raced /\ call' = call /\ slab_info' = slab_info
  BY Zenon DEF quarantineVars, zebraVars
<1>2. (\A x : InShard(x)' <=> InShard(x)) /\ (\A x : InSlab(x)' <=> InSlab(x))
  BY <1>1, Zenon DEF InShard, InSlab
<1>3. LocalOK'  BY LocalKept, Zenon
<1>4. ShardsOK'  BY <1>0, <1>1, Zenon DEF ShardsOK
<1>5. \A u \in Threads \ {t}, x \in AllBlocks : Hand(u, x) =>
        ~InShard(x)' /\ (x \in Slabs => slab_info'[x] = slab_info[x])
  BY <1>0, <1>1, <1>2, Zenon DEF OwnersOK, OwnersAt
<1>6. OwnersOK'  BY <1>5, OwnersKept, Zenon
<1>7. QuarantineTypeOK'  BY <1>0, <1>1, Zenon DEF Types, QuarantineTypeOK
<1>8. maxSize' \in QuarantineSizes /\ thread' \in [Threads -> WorkSet]
  BY <1>0, <1>1, Zenon DEF Types, StepsTo
<1>9. ASSUME NEW x \in AllBlocks, header'[x] = header[x], Alive(x)' <=> Alive(x),
             x \in inUse' <=> x \in inUse
      PROVE  HeaderAt(x)'
  <2>1. /\ x \in Slabs => (slab_info'[x] = "kFreeSlab" <=> slab_info[x] = "kFreeSlab")
        /\ Holding(w, call[t], x) \/ InShard(x)' \/ InSlab(x)' <=>
             Hand(t, x) \/ InShard(x) \/ InSlab(x)
    BY <1>1, <1>2, Zenon
  <2> QED  BY <1>9, <2>1, HeaderKept, Zenon
<1> QED  BY <1>2, <1>3, <1>4, <1>6, <1>7, <1>8, <1>9, Zenon

(* The record with which DestroyHeap begins.                               *)
LEMMA DestroyFields ==
  ASSUME NEW h \in CreatedHeaps, NEW w, w = [NoWork EXCEPT !.pc = "empty", !.heap = h]
  PROVE  /\ w \in WorkSet /\ w.pc = "empty" /\ w.heap = h /\ w.block = None
         /\ w.todo = << >> /\ w.vec = {} /\ w.q = "shared"
BY NoWorkFields, Zenon DEF WorkSet, Steps, NoWork

(* DestroyHeap begins.                                                     *)
LEMMA DestroyHeapKeeps ==
  ASSUME HeapInv, NEW t \in Threads, NEW h \in AllHeaps, DestroyHeap(t, h)
  PROVE  ManagerInv' /\ UNCHANGED zebraVars
<1>0. /\ Types /\ HeapsOK /\ MarksOK /\ ClashOK /\ SharedProtectedIsQuarantined /\ HeadersOK
      /\ thread[t].pc = "idle" /\ h \in CreatedHeaps /\ heaps[h] = "live"
      /\ \A u \in Threads : UsesHeap(u) # h
  BY Parts, Zenon DEF DestroyHeap, At, IsValidHeapId
<1>1. /\ heaps' = [heaps EXCEPT ![h] = "dying"]
      /\ clashed' = (clashed \/ \E u \in Threads : Destroying(u))
      /\ UNCHANGED <<quarantineVars, zebraVars, header, inUse, protected>>
      /\ header' = header /\ inUse' = inUse /\ protected' = protected
  BY Zenon DEF DestroyHeap
<1>2. PICK w : w = [NoWork EXCEPT !.pc = "empty", !.heap = h]  BY Zenon
<1>3. /\ w \in WorkSet /\ w.pc = "empty" /\ w.heap = h /\ w.block = None
      /\ w.todo = << >> /\ w.vec = {} /\ w.q = "shared"
  <2>1. h \in CreatedHeaps  BY <1>0, Zenon
  <2> QED  BY <1>2, <2>1, DestroyFields, Zenon
<1>4. (\A y : ~Hand(t, y)) /\ call[t].op = "none" /\ call[t].taken = << >>
  BY <1>0, EmptyHanded, Zenon
<1>5. StepsTo(t, w, call[t])
  BY <1>1, <1>2, <1>3, StepsInWork, Zenon DEF DestroyHeap, quarantineVars
<1>6. \A y : /\ ~Pops(call[t], y) /\ ~Pushes(w, y) /\ ~Has(w.todo, y) /\ ~Has(call[t].taken, y)
             /\ ~Holding(w, call[t], y) /\ ~Returns(w, call[t], y)
  <2>1. \A y : ~Pops(call[t], y) /\ ~Pushes(w, y) /\ ~Has(w.todo, y) /\ ~Has(call[t].taken, y)
    BY <1>3, <1>4, ListEmpty, Zenon DEF Pops, Pushes
  <2> QED  BY <1>3, <2>1, Zenon DEF Holding, Returns
<1>7. PlaceOK(w, call[t])
  <2>1. h # None  BY <1>0, HeapAssumption, Zenon
  <2>2. OpOK(w, call[t]) /\ WorkOK(w)  BY <1>3, <1>4, <2>1, Zenon DEF OpOK, WorkOK
  <2>3. ApartOK(w, call[t])  BY <1>3, <1>4, <1>6, ListEmpty, Zenon DEF ApartOK
  <2> QED  BY <2>2, <2>3, Zenon DEF PlaceOK
<1>8. /\ LocalOK' /\ ShardsOK' /\ OwnersOK' /\ QuarantineTypeOK'
      /\ maxSize' \in QuarantineSizes /\ thread' \in [Threads -> WorkSet]
      /\ \A x : InShard(x)' <=> InShard(x)
      /\ \A x \in AllBlocks : header'[x] = header[x] /\ (Alive(x)' <=> Alive(x))
                              /\ (x \in inUse' <=> x \in inUse) => HeaderAt(x)'
  BY <1>1, <1>4, <1>5, <1>6, <1>7, HandlessStep, Zenon
<1>9. /\ heaps'[h] = "dying" /\ \A k \in AllHeaps \ {h} : heaps'[k] = heaps[k]
      /\ h # ZebraHeap /\ h # None /\ ZebraHeap \in AllHeaps
      /\ \A x \in AllBlocks : GetHeap(x) # h => (Alive(x)' <=> Alive(x))
      /\ \A x \in AllBlocks : GetHeap(x) = h => Alive(x)'
      /\ heaps' \in [AllHeaps -> {"none", "live", "dying", "dead"}]
  BY <1>0, <1>1, HeapSet, Zenon
<1>10. \A x \in AllBlocks : Alive(x)' <=> Alive(x)
  BY <1>0, <1>9, Zenon DEF Alive
<1>11. Types'
  <2>1. clashed' \in BOOLEAN  BY <1>1, Zenon
  <2> QED  BY <1>0, <1>1, <1>8, <1>9, <2>1, Zenon DEF Types
<1>12. \A u \in Threads \ {t} : thread'[u] = thread[u]  BY <1>5, Zenon DEF StepsTo, Others
<1>13. thread'[t] = w  BY <1>5, Zenon DEF StepsTo
<1>14. \A u \in Threads : thread[u].heap # h  BY <1>0, <1>9, Zenon DEF HeapsOK, HeapsAt
<1>15. HeapsOK'
  <2>1. heaps'[ZebraHeap] = "live"  BY <1>0, <1>9, Zenon DEF HeapsOK
  <2>2. HeapsAt(t)'
    BY <1>3, <1>9, <1>12, <1>13, <1>14, Zenon DEF HeapsAt
  <2>3. ASSUME NEW u \in Threads \ {t} PROVE HeapsAt(u)'
    <3>1. HeapsAt(u)  BY <1>0, Zenon DEF HeapsOK
    <3>2. CASE thread[u].heap # None
      <4>1. thread[u].heap \in AllHeaps \ {h}
        BY <1>0, <1>14, <3>2, WorkFields, Zenon DEF AllHeaps
      <4>2. heaps'[thread[u].heap] = "dying"  BY <1>9, <3>1, <3>2, <4>1, Zenon DEF HeapsAt
      <4>3. \A v \in Threads : thread'[v].heap = thread[u].heap => v = u
        BY <1>3, <1>12, <1>13, <1>14, <3>1, <3>2, Zenon DEF HeapsAt
      <4> QED  BY <1>12, <3>2, <4>2, <4>3, Zenon DEF HeapsAt
    <3>3. CASE thread[u].heap = None /\ thread[u].block # None
      <4>1. thread[u].block \in AllBlocks  BY <1>0, <3>3, WorkFields, Zenon
      <4>2. GetHeap(thread[u].block) \in AllHeaps \ {h}
        BY <1>0, <1>9, <3>3, <4>1, BlockKinds, Zenon DEF UsesHeap, Destroying
      <4>3. heaps'[GetHeap(thread[u].block)] = "live"
        BY <1>9, <3>1, <3>3, <4>2, Zenon DEF HeapsAt
      <4> QED  BY <1>12, <3>3, <4>3, Zenon DEF HeapsAt
    <3>4. CASE thread[u].heap = None /\ thread[u].block = None
      BY <1>12, <3>4, Zenon DEF HeapsAt
    <3> QED  BY <3>2, <3>3, <3>4, Zenon
  <2> QED  BY <2>1, <2>2, <2>3, Zenon DEF HeapsOK
<1>16. MarksOK'  BY <1>1, <1>3, <1>5, MarksKept, Zenon
<1>17. HeadersOK'  BY <1>1, <1>8, <1>10, Zenon DEF HeadersOK
<1>18. ASSUME ~clashed'
       PROVE  /\ ~clashed /\ \A u \in Threads : thread[u].heap = None
  BY <1>1, <1>18, Zenon DEF Destroying
<1>19. ClashOK'
  <2>1. ASSUME ~clashed', NEW x, InShard(x)' PROVE Alive(x)'
    BY <1>0, <1>8, <1>10, <1>18, <2>1, InShardIsBlock, Zenon DEF ClashOK
  <2>2. ASSUME ~clashed', NEW u \in Threads, u # t PROVE ClashAt(u)'
    <3>1. thread'[u] = thread[u] /\ thread[u].heap = None  BY <1>12, <1>18, <2>2, Zenon
    <3> QED  BY <3>1, Zenon DEF ClashAt
  <2>3. ASSUME ~clashed' PROVE ClashAt(t)'
    <3>1. \A u \in Threads : thread'[u].heap # None => u = t  BY <1>12, <1>18, <2>3, Zenon
    <3>2. call'[t] = call[t]  BY <1>5, Zenon DEF StepsTo
    <3>3. \A i \in Shards : ~Emptied(w, call[t], i)  BY <1>3, <1>4, Zenon DEF Emptied
    <3> QED  BY <1>6, <1>13, <3>1, <3>2, <3>3, Zenon DEF ClashAt
  <2> QED  BY <2>1, <2>2, <2>3, Zenon DEF ClashOK
<1>20. SharedProtectedIsQuarantined'
  BY <1>0, <1>1, <1>10, <1>18, BlockKinds, Zenon DEF SharedProtectedIsQuarantined
<1> QED
  BY <1>1, <1>8, <1>11, <1>15, <1>16, <1>17, <1>19, <1>20, Zenon DEF ManagerInv

(* DestroyHeap ends: the heap is gone with its blocks.                     *)
LEMMA DestroyHeapResourcesKeeps ==
  ASSUME HeapInv, NEW t \in Threads, DestroyHeapResources(t)
  PROVE  ManagerInv' /\ UNCHANGED zebraVars
<1>0. /\ Types /\ HeapsOK /\ MarksOK /\ ClashOK /\ SharedProtectedIsQuarantined /\ HeadersOK
      /\ WorkOK(thread[t]) /\ thread[t].pc = "erase"
  BY Parts, ThreadParts, Zenon DEF DestroyHeapResources, At
<1>1. PICK h : h = thread[t].heap  BY Zenon
<1>2. h \in CreatedHeaps /\ h # None  BY <1>0, <1>1, WorkFields, Zenon DEF WorkOK
<1>3. PICK mine : mine = {x \in Blocks : HeapOf[x] = h}  BY Zenon
<1>4. /\ heaps' = [heaps EXCEPT ![h] = "dead"]
      /\ header' = [x \in AllBlocks |-> IF x \in mine THEN "FREED_BLOCK" ELSE header[x]]
      /\ inUse' = inUse \ mine /\ protected' = protected \ mine
      /\ Set(t, NoWork) /\ UNCHANGED <<quarantineVars, zebraVars>> /\ clashed' = clashed
  BY <1>1, <1>3, Zenon DEF DestroyHeapResources, BlockProtectNone
<1>5. \A x \in AllBlocks : x \in mine <=> GetHeap(x) = h
  <2>1. h # ZebraHeap  BY <1>2, HeapAssumption, Zenon
  <2> QED  BY <1>3, <2>1, BlockKinds, Zenon
<1>6. (\A y : ~Hand(t, y)) /\ call[t].op = "none" /\ call[t].taken = << >>
  BY <1>0, EmptyHanded, Zenon
<1>7. StepsTo(t, NoWork, call[t])
  BY <1>4, NoWorkFields, StepsInWork, Zenon DEF quarantineVars
<1>8. \A y : ~Pops(call[t], y) /\ ~Pushes(NoWork, y)
  BY <1>6, NoWorkFields, Zenon DEF Pops, Pushes
<1>9. \A y : ~Holding(NoWork, call[t], y)
  BY <1>6, <1>8, NoWorkFields, ListEmpty, Zenon DEF Holding
<1>10. PlaceOK(NoWork, call[t])
  <2>1. OpOK(NoWork, call[t]) /\ WorkOK(NoWork)
    BY <1>6, NoWorkFields, Zenon DEF OpOK, WorkOK
  <2>2. ApartOK(NoWork, call[t])  BY <1>6, <1>8, NoWorkFields, ListEmpty, Zenon DEF ApartOK
  <2> QED  BY <2>1, <2>2, Zenon DEF PlaceOK
<1>11. /\ LocalOK' /\ ShardsOK' /\ OwnersOK' /\ QuarantineTypeOK'
       /\ maxSize' \in QuarantineSizes /\ thread' \in [Threads -> WorkSet]
       /\ \A x : InShard(x)' <=> InShard(x)
       /\ \A x \in AllBlocks : header'[x] = header[x] /\ (Alive(x)' <=> Alive(x))
                               /\ (x \in inUse' <=> x \in inUse) => HeaderAt(x)'
  BY <1>4, <1>6, <1>7, <1>9, <1>10, HandlessStep, Zenon
<1>12. /\ \A k \in AllHeaps \ {h} : heaps'[k] = heaps[k]
       /\ h # ZebraHeap /\ ZebraHeap \in AllHeaps
       /\ \A x \in AllBlocks : GetHeap(x) # h => (Alive(x)' <=> Alive(x))
       /\ \A x \in AllBlocks : GetHeap(x) = h => ~Alive(x)'
       /\ heaps' \in [AllHeaps -> {"none", "live", "dying", "dead"}]
  BY <1>2, <1>4, HeapSet, Zenon
<1>13. /\ \A x \in mine : header'[x] = "FREED_BLOCK"
       /\ \A x \in AllBlocks \ mine : header'[x] = header[x]
       /\ header' \in [AllBlocks -> {"FREED_BLOCK", "ALLOCATED_BLOCK", "QUARANTINED_BLOCK"}]
  <2>1. mine \subseteq AllBlocks  BY <1>3, BlockKinds, Zenon
  <2>2. \A x \in AllBlocks : header[x] \in {"FREED_BLOCK", "ALLOCATED_BLOCK", "QUARANTINED_BLOCK"}
    BY <1>0, Zenon DEF Types
  <2> QED  BY <1>4, <2>1, <2>2, Zenon
<1>14. Types'
  <2>1. inUse' \subseteq Blocks /\ protected' \subseteq AllBlocks /\ clashed' \in BOOLEAN
    BY <1>0, <1>4, Zenon DEF Types
  <2> QED  BY <1>11, <1>12, <1>13, <2>1, Zenon DEF Types
<1>15. \A u \in Threads \ {t} : thread'[u] = thread[u]  BY <1>7, Zenon DEF StepsTo, Others
<1>16. thread'[t] = NoWork  BY <1>7, Zenon DEF StepsTo
<1>17. heaps[h] = "dying" /\ \A u \in Threads \ {t} : thread[u].heap # h
  BY <1>0, <1>1, <1>2, Zenon DEF HeapsOK, HeapsAt
<1>18. HeapsOK'
  <2>1. heaps'[ZebraHeap] = "live"  BY <1>0, <1>12, Zenon DEF HeapsOK
  <2>2. HeapsAt(t)'  BY <1>16, NoWorkFields, Zenon DEF HeapsAt
  <2>3. ASSUME NEW u \in Threads \ {t} PROVE HeapsAt(u)'
    <3>1. HeapsAt(u)  BY <1>0, Zenon DEF HeapsOK
    <3>2. CASE thread[u].heap # None
      <4>1. thread[u].heap \in AllHeaps \ {h}
        BY <1>0, <1>17, <3>2, WorkFields, Zenon DEF AllHeaps
      <4>2. heaps'[thread[u].heap] = "dying"  BY <1>12, <3>1, <3>2, <4>1, Zenon DEF HeapsAt
      <4>3. \A v \in Threads : thread'[v].heap = thread[u].heap => v = u
        BY <1>15, <1>16, <3>1, <3>2, NoWorkFields, Zenon DEF HeapsAt
      <4> QED  BY <1>15, <3>2, <4>2, <4>3, Zenon DEF HeapsAt
    <3>3. CASE thread[u].heap = None /\ thread[u].block # None
      <4>1. thread[u].block \in AllBlocks  BY <1>0, <3>3, WorkFields, Zenon
      <4>2. heaps[GetHeap(thread[u].block)] = "live"  BY <3>1, <3>3, Zenon DEF HeapsAt
      <4>3. GetHeap(thread[u].block) \in AllHeaps \ {h}
        BY <1>12, <1>17, <4>1, <4>2, BlockKinds, Zenon
      <4>4. heaps'[GetHeap(thread[u].block)] = "live"  BY <1>12, <4>2, <4>3, Zenon
      <4> QED  BY <1>15, <3>3, <4>4, Zenon DEF HeapsAt
    <3>4. CASE thread[u].heap = None /\ thread[u].block = None
      BY <1>15, <3>4, Zenon DEF HeapsAt
    <3> QED  BY <3>2, <3>3, <3>4, Zenon
  <2> QED  BY <2>1, <2>2, <2>3, Zenon DEF HeapsOK
<1>19. MarksOK'
  <2>1. ASSUME NEW u \in Threads \ {t}, thread[u].pc = "mark"
        PROVE  header'[thread[u].block] = header[thread[u].block]
    <3>1. thread[u].heap = None  BY <2>1, PlainThread, Zenon
    <3>2. thread[u].block \in AllBlocks  BY <2>1, ThreadParts, Zenon DEF WorkOK
    <3>3. heaps[GetHeap(thread[u].block)] = "live"
      BY <1>0, <3>1, <3>2, BlockKinds, Zenon DEF HeapsOK, HeapsAt
    <3>4. thread[u].block \notin mine  BY <1>5, <1>17, <3>2, <3>3, Zenon
    <3> QED  BY <1>13, <3>2, <3>4, Zenon
  <2>2. NoWork.pc # "mark"  BY NoWorkFields, Zenon
  <2> QED  BY <1>7, <2>1, <2>2, MarksKept, Zenon
<1>20. HeadersOK'
  <2>1. ASSUME NEW x \in AllBlocks, x \in mine PROVE HeaderAt(x)'
    BY <1>5, <1>12, <1>13, <2>1, Zenon DEF HeaderAt
  <2>2. ASSUME NEW x \in AllBlocks, x \notin mine PROVE HeaderAt(x)'
    <3>1. header'[x] = header[x] /\ (Alive(x)' <=> Alive(x)) /\ (x \in inUse' <=> x \in inUse)
      BY <1>4, <1>5, <1>12, <1>13, <2>2, Zenon
    <3> QED  BY <1>11, <3>1, Zenon
  <2> QED  BY <2>1, <2>2, Zenon DEF HeadersOK
<1>21. ASSUME ~clashed
       PROVE  /\ \A x : InShard(x) => Alive(x) /\ GetHeap(x) # h
              /\ \A u \in Threads \ {t} : thread[u].heap = None
  <2>1. ClashAt(t) /\ \A x : InShard(x) => Alive(x)  BY <1>0, <1>21, Zenon DEF ClashOK
  <2>2. \A i \in Shards : Emptied(thread[t], call[t], i)  BY <1>0, Zenon DEF Emptied
  <2> QED  BY <1>1, <1>2, <2>1, <2>2, Zenon DEF ClashAt, InShard
<1>22. ClashOK'
  <2>1. ASSUME ~clashed, NEW x, InShard(x)' PROVE Alive(x)'
    BY <1>11, <1>12, <1>21, <2>1, InShardIsBlock, Zenon
  <2>2. ASSUME ~clashed, NEW u \in Threads PROVE ClashAt(u)'
    <3>1. thread'[u].heap = None  BY <1>15, <1>16, <1>21, <2>2, NoWorkFields, Zenon
    <3> QED  BY <3>1, Zenon DEF ClashAt
  <2> QED  BY <1>4, <2>1, <2>2, Zenon DEF ClashOK
<1>23. SharedProtectedIsQuarantined'
  <2>1. ASSUME NEW x \in protected' \intersect Blocks, Alive(x)' \/ ~clashed'
        PROVE  header'[x] = "QUARANTINED_BLOCK"
    <3>1. x \in protected \intersect Blocks /\ x \in AllBlocks /\ x \notin mine
      BY <1>4, BlockKinds, Zenon
    <3>2. Alive(x) \/ ~clashed  BY <1>4, <1>5, <1>12, <2>1, <3>1, Zenon
    <3>3. header[x] = "QUARANTINED_BLOCK"
      BY <1>0, <3>1, <3>2, Zenon DEF SharedProtectedIsQuarantined
    <3> QED  BY <1>13, <3>1, <3>3, Zenon
  <2> QED  BY <2>1, Zenon DEF SharedProtectedIsQuarantined
<1> QED
  BY <1>4, <1>11, <1>14, <1>18, <1>19, <1>20, <1>22, <1>23, Zenon DEF ManagerInv

(* A step that at most makes a heap appear.                                *)
RestIsSame == UNCHANGED <<quarantineVars, zebraVars, header, inUse, protected, thread, clashed>>

(* It keeps the invariant.                                                 *)
LEMMA HeapAppears ==
  ASSUME HeapInv, RestIsSame,
         heaps' \in [AllHeaps -> {"none", "live", "dying", "dead"}],
         \A k \in AllHeaps : heaps[k] # "none" => heaps'[k] = heaps[k],
         \A k \in AllHeaps : heaps'[k] = "dead" => heaps[k] = "dead"
  PROVE  ManagerInv'
<1>0. /\ Types /\ LocalOK /\ HeapsOK /\ MarksOK /\ ShardsOK /\ OwnersOK /\ HeadersOK
      /\ ClashOK /\ SharedProtectedIsQuarantined
  BY Parts, Zenon
<1>1. /\ header' = header /\ inUse' = inUse /\ protected' = protected /\ thread' = thread
      /\ clashed' = clashed
  BY Zenon DEF RestIsSame
<1>2. /\ shards' = shards /\ locks' = locks /\ size' = size /\ maxSize' = maxSize
      /\ raced' = raced /\ call' = call /\ slab_info' = slab_info
  BY Zenon DEF RestIsSame, quarantineVars, zebraVars
<1>3. ZebraHeap \in AllHeaps /\ \A x \in AllBlocks : GetHeap(x) \in AllHeaps
  <2>1. ZebraHeap \in AllHeaps  BY Zenon DEF AllHeaps
  <2> QED  BY <2>1, BlockKinds, Zenon
<1>4. \A x \in AllBlocks : Alive(x)' <=> Alive(x)  BY <1>3, Zenon DEF Alive
<1>5. /\ \A t \in Threads : \A x : Hand(t, x)' <=> Hand(t, x)
      /\ \A x : InShard(x)' <=> InShard(x)
      /\ \A x : InSlab(x)' <=> InSlab(x)
  BY <1>1, <1>2, Zenon DEF Hand, InShard, InSlab
<1>6. \A x : Held(x)' <=> Held(x)  BY <1>5, Zenon DEF Held
<1>7. Types'
  <2>1. QuarantineTypeOK'  BY <1>0, <1>2, Zenon DEF Types, QuarantineTypeOK
  <2> QED  BY <1>0, <1>1, <1>2, <2>1, Zenon DEF Types
<1>8. LocalOK' /\ MarksOK' /\ ShardsOK'
  <2>1. LocalOK'  BY <1>0, <1>1, <1>2, Zenon DEF LocalOK
  <2>2. MarksOK'  BY <1>0, <1>1, Zenon DEF MarksOK, MarkAt
  <2>3. ShardsOK'  BY <1>0, <1>2, Zenon DEF ShardsOK
  <2> QED  BY <2>1, <2>2, <2>3, Zenon
<1>9. HeapsOK'
  <2>1. heaps'[ZebraHeap] = "live"  BY <1>0, <1>3, Zenon DEF HeapsOK
  <2>2. ASSUME NEW u \in Threads PROVE HeapsAt(u)'
    <3>1. HeapsAt(u)  BY <1>0, Zenon DEF HeapsOK
    <3>2. thread[u].heap # None => thread[u].heap \in AllHeaps
      BY <1>0, WorkFields, Zenon DEF AllHeaps
    <3>3. thread[u].block # None => GetHeap(thread[u].block) \in AllHeaps
      BY <1>0, <1>3, WorkFields, Zenon
    <3>4. \A k \in AllHeaps : heaps[k] \in {"dying", "live"} => heaps'[k] = heaps[k]
      BY Zenon
    <3> QED  BY <1>1, <3>1, <3>2, <3>3, <3>4, Zenon DEF HeapsAt
  <2> QED  BY <2>1, <2>2, Zenon DEF HeapsOK
<1>10. OwnersOK'  BY <1>0, <1>2, <1>5, Zenon DEF OwnersOK, OwnersAt
<1>11. HeadersOK'
  <2>1. ASSUME NEW x \in AllBlocks PROVE HeaderAt(x)'
    <3>1. HeaderAt(x)  BY <1>0, Zenon DEF HeadersOK
    <3> QED  BY <1>1, <1>2, <1>4, <1>6, <3>1, Zenon DEF HeaderAt
  <2> QED  BY <2>1, Zenon DEF HeadersOK
<1>12. ClashOK'
  <2>1. ASSUME ~clashed, NEW x, InShard(x) PROVE Alive(x)'
    BY <1>0, <1>4, <2>1, InShardIsBlock, Zenon DEF ClashOK
  <2>2. ASSUME ~clashed, NEW t \in Threads PROVE ClashAt(t)'
    <3>1. ClashAt(t)  BY <1>0, <2>2, Zenon DEF ClashOK
    <3>2. \A x : Returns(thread[t], call[t], x) => x \in AllBlocks
      BY HandIsBlock, Zenon DEF Returns, Hand, Holding
    <3>3. CASE thread[t].heap = None  BY <1>1, <3>3, Zenon DEF ClashAt
    <3>4. CASE thread[t].heap # None
      <4>1. \A x : Returns(thread[t], call[t], x) => Alive(x)'
        BY <1>4, <3>1, <3>2, <3>4, Zenon DEF ClashAt
      <4>2. /\ \A u \in Threads : thread[u].heap # None => u = t
            /\ \A x : Pushes(thread[t], x) => GetHeap(x) # thread[t].heap
            /\ \A i \in Shards : Emptied(thread[t], call[t], i) =>
                 \A x : Has(shards[i], x) => GetHeap(x) # thread[t].heap
        BY <3>1, <3>4, Zenon DEF ClashAt
      <4> QED  BY <1>1, <1>2, <4>1, <4>2, Zenon DEF ClashAt
    <3> QED  BY <3>3, <3>4, Zenon
  <2> QED  BY <1>1, <1>5, <2>1, <2>2, Zenon DEF ClashOK
<1>13. SharedProtectedIsQuarantined'
  BY <1>0, <1>1, <1>4, BlockKinds, Zenon DEF SharedProtectedIsQuarantined
<1> QED
  BY <1>7, <1>8, <1>9, <1>10, <1>11, <1>12, <1>13, Zenon DEF ManagerInv

(* CreateHeap returns a heap that did not exist.                           *)
LEMMA CreateHeapKeeps ==
  ASSUME HeapInv, NEW h \in AllHeaps, CreateHeap(h)
  PROVE  ManagerInv' /\ UNCHANGED zebraVars
<1>1. /\ h \in CreatedHeaps /\ heaps[h] = "none" /\ heaps' = [heaps EXCEPT ![h] = "live"]
      /\ RestIsSame /\ UNCHANGED zebraVars
  BY Zenon DEF CreateHeap, RestIsSame
<1>2. /\ heaps'[h] = "live" /\ \A k \in AllHeaps \ {h} : heaps'[k] = heaps[k]
      /\ heaps' \in [AllHeaps -> {"none", "live", "dying", "dead"}]
  BY <1>1, HeapSet, Zenon
<1>3. \A k \in AllHeaps : /\ heaps[k] # "none" => heaps'[k] = heaps[k]
                          /\ heaps'[k] = "dead" => heaps[k] = "dead"
  BY <1>1, <1>2, Zenon
<1> QED  BY <1>1, <1>2, <1>3, HeapAppears, Zenon

(* A step that changes nothing.                                            *)
LEMMA StutterKeeps ==
  ASSUME HeapInv, UNCHANGED vars
  PROVE  ManagerInv' /\ UNCHANGED zebraVars
<1>1. RestIsSame /\ heaps' = heaps /\ UNCHANGED zebraVars
  BY Zenon DEF vars, managerVars, heapVars, RestIsSame
<1>2. heaps' \in [AllHeaps -> {"none", "live", "dying", "dead"}]  BY <1>1, Parts, Zenon DEF Types
<1> QED  BY <1>1, <1>2, HeapAppears, Zenon

-----------------------------------------------------------------------------
(* The actions that are made of several steps, and the whole.              *)

(* Push begins, or returns false.                                          *)
LEMMA PushSharedKeeps ==
  ASSUME HeapInv, NEW t \in Threads, PushShared(t)
  PROVE  ManagerInv' /\ [ZebraNext]_zebraVars
<1>0. At(t, "push") /\ On(t, "shared") /\ UNCHANGED heapVars  BY Zenon DEF PushShared
<1>1. CASE /\ PushBegins(t, thread[t].block) /\ Goto(t, "pushing")
           /\ UNCHANGED <<header, inUse, protected, zebraVars>>
  <2>1. UNCHANGED <<header, inUse, protected, zebraVars, heapVars>>  BY <1>0, <1>1, Zenon
  <2>2. ManagerInv'  BY <1>0, <1>1, <2>1, PushBeginsKeeps, Zenon
  <2> QED  BY <1>1, <2>2, Zenon
<1>2. CASE PushFails(t, thread[t].block) /\ NotPushed(t)
  <2>1. UNCHANGED <<quarantineVars, heapVars>>  BY <1>0, <1>2, Zenon DEF PushFails
  <2>2. CASE Destroying(t)  BY <1>0, <1>2, <2>1, <2>2, NotReinsertedKeeps, Zenon
  <2>3. CASE ~Destroying(t)  BY <1>0, <1>2, <2>1, <2>3, NotPushedKeeps, Zenon
  <2> QED  BY <2>2, <2>3, Zenon
<1> QED  BY <1>1, <1>2, Zenon DEF PushShared

(* The zebra heap takes the slab, or does not.                             *)
LEMMA PushZebraKeepsHeap ==
  ASSUME HeapInv, NEW t \in Threads, PushZebra(t)
  PROVE  ManagerInv' /\ [ZebraNext]_zebraVars
<1>0. At(t, "push") /\ On(t, "zebra") /\ UNCHANGED <<quarantineVars, heapVars>>
  BY Zenon DEF PushZebra
<1>1. CASE CanPush(thread[t].block)
  <2>1. /\ ZebraPush(thread[t].block) /\ Goto(t, "protect")
        /\ UNCHANGED <<quarantineVars, header, inUse, protected, heapVars>>
    BY <1>0, <1>1, Zenon DEF PushZebra
  <2> QED  BY <1>0, <2>1, PushZebraKeeps, Zenon
<1>2. CASE ~CanPush(thread[t].block)
  <2>1. NotPushed(t)  BY <1>2, Zenon DEF PushZebra
  <2>2. ~Destroying(t)
    <3>1. thread[t].pc \in {"push", "pushing"} /\ thread[t].q = "zebra"
      BY <1>0, Zenon DEF At, On
    <3> QED  BY <3>1, PushThread, Zenon DEF Destroying
  <2> QED  BY <1>0, <2>1, <2>2, NotPushedKeeps, Zenon
<1> QED  BY <1>1, <1>2, Zenon

(* Pop, in all its steps.                                                  *)
LEMMA PopSharedKeeps ==
  ASSUME HeapInv, NEW t \in Threads, PopShared(t)
  PROVE  ManagerInv' /\ UNCHANGED zebraVars
<1>0. At(t, "pop") /\ On(t, "shared") /\ UNCHANGED <<zebraVars, header, inUse, protected, heapVars>>
  BY Zenon DEF PopShared
<1>1. CASE PopRefuses(t) /\ Goto(t, "free")
  <2>1. /\ thread[t].pc \in {"pop", "trim"} /\ call[t].op = "none"
        /\ UNCHANGED <<quarantineVars, zebraVars, header, inUse, protected, heapVars>>
        /\ "free" \in {"pop", "empty", "free"} /\ "free" # "empty"
    BY <1>0, <1>1, Zenon DEF PopRefuses, At
  <2> QED  BY <1>0, <1>1, <2>1, TrimGoes, Zenon
<1>2. CASE PopFindsNothing(t) /\ Goto(t, "free")
  BY <1>0, <1>2, PopFindsNothingKeeps, Zenon
<1>3. ASSUME NEW b \in Blocks, PopEnds(t, b), Collect(t, {b}, "pop")
      PROVE  ManagerInv' /\ UNCHANGED zebraVars
  BY <1>0, <1>3, PopEndsKeeps, Zenon
<1>4. CASE (PopBegins(t) \/ PopScans(t) \/ PopLoads(t)) /\ UNCHANGED thread
  BY <1>0, <1>4, PopSteps, Zenon
<1>5. CASE PopTakes(t) /\ UNCHANGED thread
  BY <1>0, <1>5, PopTakesKeeps, Zenon
<1> QED  BY <1>1, <1>2, <1>3, <1>4, <1>5, Zenon DEF PopShared

(* Empty, in all its steps.                                                *)
LEMMA EmptySharedKeeps ==
  ASSUME HeapInv, NEW t \in Threads, EmptyShared(t)
  PROVE  ManagerInv' /\ UNCHANGED zebraVars
<1>0. At(t, "empty") /\ UNCHANGED <<zebraVars, header, inUse, heapVars>>
  BY Zenon DEF EmptyShared
<1>1. CASE EmptyBegins(t) /\ UNCHANGED <<thread, protected>>
  BY <1>0, <1>1, EmptyBeginsKeeps, Zenon
<1>2. CASE EmptyShard(t) /\ UNCHANGED <<thread, protected>>
  BY <1>0, <1>2, EmptyShardKeeps, Zenon
<1>3. CASE /\ EmptyEnds(t)
           /\ IF Destroying(t)
              THEN /\ Set(t, [thread[t] EXCEPT !.pc = "reinsert", !.todo = call[t].taken])
                   /\ BlockProtectNone(Range(call[t].taken))
              ELSE Collect(t, Range(call[t].taken), "free") /\ UNCHANGED protected
  BY <1>0, <1>3, EmptyReturns, Zenon
<1> QED  BY <1>1, <1>2, <1>3, Zenon DEF EmptyShared

(* Every step keeps the invariant of the manager, and is a step of the     *)
(* zebra heap or leaves it alone.                                          *)
LEMMA NextKeeps ==
  ASSUME HeapInv, [Next]_vars
  PROVE  ManagerInv' /\ [ZebraNext]_zebraVars
<1>1. ASSUME NEW t \in Threads, Call(t) PROVE ManagerInv' /\ [ZebraNext]_zebraVars
  <2>1. ASSUME NEW h \in AllHeaps, NEW x \in AllBlocks, Allocate(t, h, x)
        PROVE  ManagerInv' /\ [ZebraNext]_zebraVars
    BY <2>1, AllocateKeepsHeap, Zenon
  <2>2. ASSUME NEW x \in AllBlocks, Free(t, x) PROVE ManagerInv' /\ [ZebraNext]_zebraVars
    BY <2>2, FreeKeepsHeap, Zenon
  <2>3. ASSUME NEW h \in AllHeaps, DestroyHeap(t, h) PROVE ManagerInv' /\ [ZebraNext]_zebraVars
    BY <2>3, DestroyHeapKeeps, Zenon
  <2>4. ASSUME NEW n \in QuarantineSizes, SetParameters(t, n)
        PROVE  ManagerInv' /\ [ZebraNext]_zebraVars
    BY <2>4, SetParametersKeeps, Zenon
  <2> QED  BY <1>1, <2>1, <2>2, <2>3, <2>4, Zenon DEF Call
<1>2. ASSUME NEW t \in Threads, Step(t) PROVE ManagerInv' /\ [ZebraNext]_zebraVars
  <2>1. CASE Mark(t)  BY <2>1, MarkKeeps, Zenon
  <2>2. CASE PushShared(t)  BY <2>2, PushSharedKeeps, Zenon
  <2>3. CASE PushedShared(t)  BY <2>3, PushedSharedKeeps, Zenon
  <2>4. CASE PushZebra(t)  BY <2>4, PushZebraKeepsHeap, Zenon
  <2>5. CASE ProtectZebra(t)  BY <2>5, ProtectZebraKeeps, Zenon
  <2>6. CASE TrimQuarantine(t)  BY <2>6, TrimQuarantineKeeps, Zenon
  <2>7. CASE PopZebra(t)  BY <2>7, PopZebraKeeps, Zenon
  <2>8. CASE PopShared(t)  BY <2>8, PopSharedKeeps, Zenon
  <2>9. CASE EmptyShared(t)  BY <2>9, EmptySharedKeeps, Zenon
  <2>10. CASE FreeBlockVector(t)  BY <2>10, FreeBlockVectorKeeps, Zenon
  <2>11. CASE FreeBlockVectorReturns(t)  BY <2>11, FreeBlockVectorReturnsKeeps, Zenon
  <2>12. CASE Reinsert(t)  BY <2>12, ReinsertKeeps, Zenon
  <2>13. CASE DestroyHeapResources(t)  BY <2>13, DestroyHeapResourcesKeeps, Zenon
  <2> QED
    BY <1>2, <2>1, <2>2, <2>3, <2>4, <2>5, <2>6, <2>7, <2>8, <2>9, <2>10, <2>11, <2>12, <2>13,
       Zenon DEF Step
<1>3. ASSUME NEW h \in AllHeaps, CreateHeap(h) PROVE ManagerInv' /\ [ZebraNext]_zebraVars
  BY <1>3, CreateHeapKeeps, Zenon
<1>4. CASE UNCHANGED vars  BY <1>4, StutterKeeps, Zenon
<1> QED  BY <1>1, <1>2, <1>3, <1>4, Zenon DEF Next

(* The invariant holds at the start.                                       *)
LEMMA InitHolds == Init => HeapInv
<1> SUFFICES ASSUME Init PROVE HeapInv  OBVIOUS
<1>1. /\ ZebraInv /\ header = [x \in AllBlocks |-> "FREED_BLOCK"] /\ inUse = {} /\ protected = {}
      /\ heaps = [h \in AllHeaps |-> IF h \in CreatedHeaps THEN "none" ELSE "live"]
      /\ thread = [t \in Threads |-> NoWork] /\ clashed = FALSE
  BY ZebraInitInv, Zenon DEF Init
<1>2. /\ shards = [i \in Shards |-> << >>] /\ locks = [i \in Shards |-> None] /\ size = 0
      /\ maxSize \in QuarantineSizes /\ call = [t \in Threads |-> NoCall] /\ raced = FALSE
  BY Zenon DEF Init, QuarantineInit
<1>3. \A s \in Slabs : slab_info[s] = "kFreeSlab"  BY Zenon DEF Init, ZebraInit
<1>4. /\ \A t \in Threads : thread[t] = NoWork /\ call[t] = NoCall
      /\ \A i \in Shards : shards[i] = << >>
      /\ \A x \in AllBlocks : header[x] = "FREED_BLOCK"
  BY <1>1, <1>2, Zenon
<1>5. Types
  <2>1. QuarantineTypeOK
    <3>1. shards \in [Shards -> Seq(Blocks)]  BY <1>2, ListEmpty, Zenon
    <3>2. locks \in [Shards -> Threads \union {None}]  BY <1>2, Zenon
    <3>3. call \in [Threads -> CallSet]  BY <1>2, NoCallFields, Zenon
    <3>4. size \in 0..(Modulus - 1) /\ raced \in BOOLEAN  BY <1>2, WrapsAround, Zenon
    <3> QED  BY <3>1, <3>2, <3>3, <3>4, Zenon DEF QuarantineTypeOK
  <2>2. header \in [AllBlocks -> {"FREED_BLOCK", "ALLOCATED_BLOCK", "QUARANTINED_BLOCK"}]
    BY <1>1, Zenon
  <2>3. heaps \in [AllHeaps -> {"none", "live", "dying", "dead"}]  BY <1>1, Zenon
  <2>4. thread \in [Threads -> WorkSet]  BY <1>1, NoWorkFields, Zenon
  <2>5. inUse \subseteq Blocks /\ protected \subseteq AllBlocks /\ clashed \in BOOLEAN
    BY <1>1, Zenon
  <2> QED  BY <1>2, <2>1, <2>2, <2>3, <2>4, <2>5, Zenon DEF Types
<1>6. \A x : ~Pops(NoCall, x) /\ ~Pushes(NoWork, x) /\ ~Holding(NoWork, NoCall, x)
  <2>1. \A x : ~Pops(NoCall, x) /\ ~Pushes(NoWork, x)
    BY NoWorkFields, NoCallFields, Zenon DEF Pops, Pushes
  <2> QED  BY <2>1, NoWorkFields, NoCallFields, ListEmpty, Zenon DEF Holding
<1>7. LocalOK
  <2>1. OpOK(NoWork, NoCall) /\ WorkOK(NoWork)
    BY NoWorkFields, NoCallFields, Zenon DEF OpOK, WorkOK
  <2>2. ApartOK(NoWork, NoCall)
    BY <1>6, NoWorkFields, NoCallFields, ListEmpty, Zenon DEF ApartOK
  <2> QED  BY <1>4, <2>1, <2>2, Zenon DEF LocalOK, PlaceOK
<1>8. HeapsOK
  <2>1. ZebraHeap \in AllHeaps /\ ZebraHeap \notin CreatedHeaps
    BY HeapAssumption, Zenon DEF AllHeaps
  <2>2. heaps[ZebraHeap] = "live"  BY <1>1, <2>1, Zenon
  <2> QED  BY <1>4, <2>2, NoWorkFields, Zenon DEF HeapsOK, HeapsAt
<1>9. MarksOK  BY <1>4, NoWorkFields, Zenon DEF MarksOK, MarkAt
<1>10. (\A x : ~InShard(x)) /\ (\A x : ~InSlab(x)) /\ \A t \in Threads : \A x : ~Hand(t, x)
  BY <1>3, <1>4, <1>6, ListEmpty, Zenon DEF InShard, InSlab, Hand
<1>11. ShardsOK  BY <1>4, ListEmpty, Zenon DEF ShardsOK
<1>12. OwnersOK  BY <1>10, Zenon DEF OwnersOK, OwnersAt
<1>13. HeadersOK
  <2>1. \A x \in AllBlocks : ~Held(x)  BY <1>10, Zenon DEF Held
  <2> QED  BY <1>1, <1>3, <1>4, <2>1, Zenon DEF HeadersOK, HeaderAt
<1>14. ClashOK  BY <1>4, <1>10, NoWorkFields, Zenon DEF ClashOK, ClashAt
<1>15. SharedProtectedIsQuarantined  BY <1>1, Zenon DEF SharedProtectedIsQuarantined
<1> QED
  BY <1>1, <1>5, <1>7, <1>8, <1>9, <1>11, <1>12, <1>13, <1>14, <1>15, Zenon
    DEF HeapInv, ManagerInv

-----------------------------------------------------------------------------
(* What the invariant says of the places that hold a block.                *)

(* A block is at most once in the shards.                                  *)
LEMMA InShardsOnce ==
  ASSUME HeapInv, NEW x
  PROVE  /\ ~InShard(x) => InShards(x) = {}
         /\ InShard(x) => \E p \in InShards(x) : \A q \in InShards(x) : q = p
<1>0. ShardsOK /\ shards \in [Shards -> Seq(Blocks)]
  BY Parts, Zenon DEF Types, QuarantineTypeOK
<1>1. ASSUME NEW i \in Shards PROVE DOMAIN shards[i] = 1..Len(shards[i])
  <2>1. shards[i] \in Seq(Blocks)  BY <1>0, Zenon
  <2> QED  BY <2>1
<1>2. ASSUME NEW p \in InShards(x)
      PROVE  \E i \in Shards : \E k \in 1..Len(shards[i]) : p = <<i, k>> /\ shards[i][k] = x
  <2>1. PICK i \in Shards : p \in {i} \X DOMAIN shards[i]  BY <1>2, Zenon DEF InShards
  <2>2. shards[p[1]][p[2]] = x  BY <1>2, Zenon DEF InShards
  <2>3. PICK D : D = DOMAIN shards[i]  BY Zenon
  <2>4. p = <<i, p[2]>> /\ p[1] = i /\ p[2] \in D
    <3>1. p \in {i} \X D  BY <2>1, <2>3, Zenon
    <3> QED  BY <3>1
  <2> QED  BY <1>1, <2>2, <2>3, <2>4, Zenon
<1>3. ASSUME NEW i \in Shards, NEW k \in 1..Len(shards[i]), shards[i][k] = x
      PROVE  <<i, k>> \in InShards(x)
  <2>1. k \in DOMAIN shards[i]  BY <1>1, Zenon
  <2>2. <<i, k>> \in {i} \X DOMAIN shards[i]  BY <2>1
  <2>3. <<i, k>> \in UNION {{j} \X DOMAIN shards[j] : j \in Shards}  BY <2>2, Zenon
  <2>4. <<i, k>>[1] = i /\ <<i, k>>[2] = k  OBVIOUS
  <2> QED  BY <1>3, <2>3, <2>4, Zenon DEF InShards
<1>4. ~InShard(x) => InShards(x) = {}
  <2>1. ASSUME NEW p \in InShards(x) PROVE InShard(x)
    BY <1>2, <2>1, Zenon DEF InShard, Has
  <2> QED  BY <2>1, Zenon
<1>5. ASSUME InShard(x) PROVE \E p \in InShards(x) : \A q \in InShards(x) : q = p
  <2>0. PICK i \in Shards : Has(shards[i], x)  BY <1>5, Zenon DEF InShard
  <2>1. PICK k \in 1..Len(shards[i]) : shards[i][k] = x  BY <2>0, Zenon DEF Has
  <2>2. <<i, k>> \in InShards(x)  BY <1>3, <2>1, Zenon
  <2>3. ASSUME NEW q \in InShards(x) PROVE q = <<i, k>>
    <3>0. PICK j \in Shards : \E l \in 1..Len(shards[j]) : q = <<j, l>> /\ shards[j][l] = x
      BY <1>2, <2>3, Zenon
    <3>1. PICK l \in 1..Len(shards[j]) : q = <<j, l>> /\ shards[j][l] = x  BY <3>0, Zenon
    <3>2. j = i
      <4>1. Has(shards[j], x)  BY <3>1, Zenon DEF Has
      <4> QED  BY <1>0, <2>0, <4>1, Zenon DEF ShardsOK
    <3>3. l = k  BY <1>0, <2>1, <3>1, <3>2, Zenon DEF ShardsOK, Distinct
    <3> QED  BY <3>1, <3>2, <3>3, Zenon
  <2> QED  BY <2>2, <2>3, Zenon
<1> QED  BY <1>4, <1>5, Zenon

(* A slab is at most once in the queue of the quarantined ones.            *)
LEMMA InZebraOnce ==
  ASSUME HeapInv, NEW x
  PROVE  /\ ~InSlab(x) => InZebra(x) = {}
         /\ InSlab(x) => \E p \in InZebra(x) : \A q \in InZebra(x) : q = p
<1>1. NoDuplicates(quarantine) /\ Elements(quarantine, SlabCount) = InState("kQuarantinedSlab")
  BY Parts, Zenon DEF ZebraInv, Holds, N
<1>2. \A i : i \in InZebra(x) <=> i \in Occupied(quarantine, SlabCount) /\ quarantine.buffer[i] = x
  BY Zenon DEF InZebra
<1>3. InSlab(x) <=> \E i \in Occupied(quarantine, SlabCount) : quarantine.buffer[i] = x
  BY <1>1, Zenon DEF InSlab, Elements, InState
<1>4. \A i, j \in InZebra(x) : i = j  BY <1>1, <1>2, Zenon DEF NoDuplicates
<1> QED  BY <1>2, <1>3, <1>4, Zenon

(* A thread has a block at hand in one way only.                           *)
LEMMA HeldOneWay ==
  ASSUME HeapInv, NEW t \in Threads, NEW x
  PROVE  /\ ~(Pushes(thread[t], x) /\ Pops(call[t], x))
         /\ ~(Pushes(thread[t], x) /\ Has(call[t].taken, x))
         /\ ~(Pushes(thread[t], x) /\ Has(thread[t].todo, x))
         /\ ~(Pushes(thread[t], x) /\ x \in thread[t].vec)
         /\ ~(Pops(call[t], x) /\ Has(call[t].taken, x))
         /\ ~(Pops(call[t], x) /\ Has(thread[t].todo, x))
         /\ ~(Pops(call[t], x) /\ x \in thread[t].vec)
         /\ ~(Has(call[t].taken, x) /\ Has(thread[t].todo, x))
         /\ ~(Has(call[t].taken, x) /\ x \in thread[t].vec)
         /\ ~(Has(thread[t].todo, x) /\ x \in thread[t].vec)
<1>0. OpOK(thread[t], call[t]) /\ WorkOK(thread[t]) /\ ApartOK(thread[t], call[t])
      /\ call[t].op \in {"none", "add", "scan", "load", "subtract", "empty", "reset"}
  BY Parts, ThreadParts, CallFields, Zenon
<1>1. ASSUME Has(call[t].taken, x)
      PROVE  /\ call[t].op \in {"empty", "reset"} /\ thread[t].pc = "empty"
             /\ thread[t].todo = << >> /\ thread[t].vec = {}
  <2>1. call[t].taken # << >>  BY <1>1, ListEmpty, Zenon
  <2>2. call[t].op \in {"empty", "reset"}  BY <1>0, <2>1, Zenon DEF OpOK
  <2>3. thread[t].pc = "empty"  BY <1>0, <2>2, Zenon DEF OpOK
  <2> QED  BY <1>0, <2>2, <2>3, Zenon DEF WorkOK
<1>2. ASSUME Pops(call[t], x) PROVE thread[t].pc = "pop" /\ thread[t].todo = << >>
  <2>1. call[t].op \in {"load", "subtract"}  BY <1>2, Zenon DEF Pops
  <2>2. thread[t].pc = "pop"  BY <1>0, <2>1, Zenon DEF OpOK
  <2> QED  BY <1>0, <2>2, Zenon DEF WorkOK
<1>3. ~(Has(call[t].taken, x) /\ (Pushes(thread[t], x) \/ Pops(call[t], x)))
  BY <1>1, Zenon DEF Pushes, Pops
<1>4. ~(Pops(call[t], x) /\ Pushes(thread[t], x))  BY <1>2, Zenon DEF Pushes
<1>5. ~Has(<< >>, x)  BY ListEmpty, Zenon
<1>6. ~(Has(call[t].taken, x) /\ (Has(thread[t].todo, x) \/ x \in thread[t].vec))
  BY <1>1, <1>5, Zenon
<1>7. ~(Pops(call[t], x) /\ Has(thread[t].todo, x))  BY <1>2, <1>5, Zenon
<1>8. /\ ~(Pushes(thread[t], x) /\ Has(thread[t].todo, x))
      /\ ~(Pushes(thread[t], x) /\ x \in thread[t].vec)
      /\ ~(Pops(call[t], x) /\ x \in thread[t].vec)
      /\ ~(Has(thread[t].todo, x) /\ x \in thread[t].vec)
  BY <1>0, Zenon DEF ApartOK
<1> QED  BY <1>3, <1>4, <1>6, <1>7, <1>8, Zenon

(* A place, tagged.                                                        *)
LEMMA Tagged ==
  ASSUME NEW a, NEW S, NEW p
  PROVE  p \in {a} \X S <=> \E q \in S : p = <<a, q>>
OBVIOUS

(* The places of a block.                                                  *)
LEMMA PlacesAre ==
  ASSUME HeapInv, NEW x, NEW p
  PROVE  p \in Places(x) <=>
           \/ \E q \in InShards(x) : p = <<"shards", q>>
           \/ \E q \in InZebra(x) : p = <<"zebra", q>>
           \/ \E t \in Threads :
                \/ Pushes(thread[t], x) /\ p = <<"push", t>>
                \/ Pops(call[t], x) /\ p = <<"pop", t>>
                \/ Has(call[t].taken, x) /\ p = <<"empty", t>>
                \/ Has(thread[t].todo, x) /\ p = <<"reinsert", t>>
                \/ x \in thread[t].vec /\ p = <<"free", t>>
<1>1. \A t \in Threads : /\ x \in Range(call[t].taken) <=> Has(call[t].taken, x)
                         /\ x \in Range(thread[t].todo) <=> Has(thread[t].todo, x)
  BY Parts, WorkFields, CallFields, ListHas, Zenon
<1>2. \A t : /\ t \in Pushing(x) <=> t \in Threads /\ Pushes(thread[t], x)
             /\ t \in Popping(x) <=> t \in Threads /\ Pops(call[t], x)
             /\ t \in Emptying(x) <=> t \in Threads /\ Has(call[t].taken, x)
             /\ t \in Reinserting(x) <=> t \in Threads /\ Has(thread[t].todo, x)
             /\ t \in Freeing(x) <=> t \in Threads /\ x \in thread[t].vec
  BY <1>1, Zenon DEF Pushing, Pushes, Popping, Pops, Emptying, Reinserting, Freeing
<1>3. p \in Places(x) <=>
        \/ \E q \in InShards(x) : p = <<"shards", q>>
        \/ \E q \in InZebra(x) : p = <<"zebra", q>>
        \/ \E t \in Pushing(x) : p = <<"push", t>>
        \/ \E t \in Popping(x) : p = <<"pop", t>>
        \/ \E t \in Emptying(x) : p = <<"empty", t>>
        \/ \E t \in Reinserting(x) : p = <<"reinsert", t>>
        \/ \E t \in Freeing(x) : p = <<"free", t>>
  <2>1. p \in {"shards"} \X InShards(x) <=> \E t \in InShards(x) : p = <<"shards", t>>
    BY Tagged
  <2>2. p \in {"zebra"} \X InZebra(x) <=> \E t \in InZebra(x) : p = <<"zebra", t>>
    BY Tagged
  <2>3. p \in {"push"} \X Pushing(x) <=> \E t \in Pushing(x) : p = <<"push", t>>
    BY Tagged
  <2>4. p \in {"pop"} \X Popping(x) <=> \E t \in Popping(x) : p = <<"pop", t>>
    BY Tagged
  <2>5. p \in {"empty"} \X Emptying(x) <=> \E t \in Emptying(x) : p = <<"empty", t>>
    BY Tagged
  <2>6. p \in {"reinsert"} \X Reinserting(x) <=> \E t \in Reinserting(x) : p = <<"reinsert", t>>
    BY Tagged
  <2>7. p \in {"free"} \X Freeing(x) <=> \E t \in Freeing(x) : p = <<"free", t>>
    BY Tagged
  <2> QED  BY <2>1, <2>2, <2>3, <2>4, <2>5, <2>6, <2>7, Zenon DEF Places
<1> QED  BY <1>2, <1>3, Zenon

(* A block that is held is in one place, and one that is not is in none.   *)
LEMMA HeldOnce ==
  ASSUME HeapInv, NEW x
  PROVE  /\ ~Held(x) => Places(x) = {}
         /\ Held(x) => \E p \in Places(x) : Places(x) = {p}
<1>1. ASSUME ~Held(x) PROVE Places(x) = {}
  <2>1. InShards(x) = {} /\ InZebra(x) = {}  BY <1>1, InShardsOnce, InZebraOnce, Zenon DEF Held
  <2>2. \A t \in Threads : ~Holding(thread[t], call[t], x)  BY <1>1, Zenon DEF Held, Hand
  <2>3. ASSUME NEW p PROVE p \notin Places(x)
    BY <2>1, <2>2, PlacesAre, Zenon DEF Holding
  <2> QED  BY <2>3, Zenon
<1>2. CASE InShard(x)
  <2>1. ~InSlab(x) /\ \A t \in Threads : ~Holding(thread[t], call[t], x)
    <3>1. \A t \in Threads : OwnersAt(t)  BY ThreadParts, Zenon
    <3>2. x \in Blocks /\ x \notin Slabs  BY <1>2, InShardIsBlock, BlockKinds, Zenon
    <3> QED  BY <1>2, <3>1, <3>2, Zenon DEF OwnersAt, InSlab, Hand
  <2>2. InZebra(x) = {}  BY <2>1, InZebraOnce, Zenon
  <2>3. PICK p \in InShards(x) : \A q \in InShards(x) : q = p  BY <1>2, InShardsOnce, Zenon
  <2>4. PICK z : z = <<"shards", p>>  BY Zenon
  <2>5. ASSUME NEW r PROVE r \in Places(x) <=> r = z
    BY <2>1, <2>2, <2>3, <2>4, PlacesAre, Zenon DEF Holding
  <2>6. Places(x) = {z} /\ z \in Places(x)  BY <2>5, Zenon
  <2> QED  BY <1>2, <2>6, Zenon DEF Held
<1>3. CASE InSlab(x)
  <2>1. ~InShard(x) /\ \A t \in Threads : ~Holding(thread[t], call[t], x)
    <3>1. \A t \in Threads : OwnersAt(t)  BY ThreadParts, Zenon
    <3>2. x \in Slabs /\ x \notin Blocks /\ slab_info[x] # "kAllocatedSlab"
      BY <1>3, BlockKinds, Zenon DEF InSlab
    <3> QED  BY <3>1, <3>2, InShardIsBlock, Zenon DEF OwnersAt, Hand
  <2>2. InShards(x) = {}  BY <2>1, InShardsOnce, Zenon
  <2>3. PICK p \in InZebra(x) : \A q \in InZebra(x) : q = p  BY <1>3, InZebraOnce, Zenon
  <2>4. PICK z : z = <<"zebra", p>>  BY Zenon
  <2>5. ASSUME NEW r PROVE r \in Places(x) <=> r = z
    BY <2>1, <2>2, <2>3, <2>4, PlacesAre, Zenon DEF Holding
  <2>6. Places(x) = {z} /\ z \in Places(x)  BY <2>5, Zenon
  <2> QED  BY <1>3, <2>6, Zenon DEF Held
<1>4. ASSUME NEW t \in Threads, Hand(t, x) PROVE \E p \in Places(x) : Places(x) = {p}
  <2>1. ~InShard(x) /\ ~InSlab(x) /\ \A u \in Threads : Holding(thread[u], call[u], x) => u = t
    BY <1>4, ThreadParts, Zenon DEF OwnersAt, InSlab, Hand
  <2>2. InShards(x) = {} /\ InZebra(x) = {}  BY <2>1, InShardsOnce, InZebraOnce, Zenon
  <2>3. ASSUME NEW p
        PROVE  p \in Places(x) <=> \/ Pushes(thread[t], x) /\ p = <<"push", t>>
                                   \/ Pops(call[t], x) /\ p = <<"pop", t>>
                                   \/ Has(call[t].taken, x) /\ p = <<"empty", t>>
                                   \/ Has(thread[t].todo, x) /\ p = <<"reinsert", t>>
                                   \/ x \in thread[t].vec /\ p = <<"free", t>>
    BY <2>1, <2>2, PlacesAre, Zenon DEF Holding
  <2>4. CASE Pushes(thread[t], x)
    <3>1. PICK z : z = <<"push", t>>  BY Zenon
    <3>2. ASSUME NEW r PROVE r \in Places(x) <=> r = z
      BY <2>3, <2>4, <3>1, HeldOneWay, Zenon
    <3>3. Places(x) = {z} /\ z \in Places(x)  BY <3>2, Zenon
    <3> QED  BY <3>3, Zenon
  <2>5. CASE Pops(call[t], x)
    <3>1. PICK z : z = <<"pop", t>>  BY Zenon
    <3>2. ASSUME NEW r PROVE r \in Places(x) <=> r = z
      BY <2>3, <2>5, <3>1, HeldOneWay, Zenon
    <3>3. Places(x) = {z} /\ z \in Places(x)  BY <3>2, Zenon
    <3> QED  BY <3>3, Zenon
  <2>6. CASE Has(call[t].taken, x)
    <3>1. PICK z : z = <<"empty", t>>  BY Zenon
    <3>2. ASSUME NEW r PROVE r \in Places(x) <=> r = z
      BY <2>3, <2>6, <3>1, HeldOneWay, Zenon
    <3>3. Places(x) = {z} /\ z \in Places(x)  BY <3>2, Zenon
    <3> QED  BY <3>3, Zenon
  <2>7. CASE Has(thread[t].todo, x)
    <3>1. PICK z : z = <<"reinsert", t>>  BY Zenon
    <3>2. ASSUME NEW r PROVE r \in Places(x) <=> r = z
      BY <2>3, <2>7, <3>1, HeldOneWay, Zenon
    <3>3. Places(x) = {z} /\ z \in Places(x)  BY <3>2, Zenon
    <3> QED  BY <3>3, Zenon
  <2>8. CASE x \in thread[t].vec
    <3>1. PICK z : z = <<"free", t>>  BY Zenon
    <3>2. ASSUME NEW r PROVE r \in Places(x) <=> r = z
      BY <2>3, <2>8, <3>1, HeldOneWay, Zenon
    <3>3. Places(x) = {z} /\ z \in Places(x)  BY <3>2, Zenon
    <3> QED  BY <3>3, Zenon
  <2> QED  BY <1>4, <2>4, <2>5, <2>6, <2>7, <2>8, Zenon DEF Hand, Holding
<1> QED  BY <1>1, <1>2, <1>3, <1>4, Zenon DEF Held

(* The invariant has the properties.                                       *)
LEMMA InvariantSays ==
  ASSUME HeapInv
  PROVE  /\ TypeOK /\ BlocksAreConserved
         /\ QuarantinedHeapsAreAlive /\ SharedProtectedIsQuarantined
<1>1. TypeOK
  <2>1. Types /\ ZebraInv  BY Parts, Zenon
  <2>2. ZebraTypeOK  BY <2>1, Zenon DEF ZebraInv, ZebraTypeOK, Holds, IsQueue, Queues, N
  <2> QED  BY <2>1, <2>2, Zenon DEF TypeOK, Types
<1>2. BlocksAreConserved
  <2>1. ASSUME NEW x \in AllBlocks, Alive(x)
        PROVE  IF header[x] = "QUARANTINED_BLOCK" THEN \E p \in Places(x) : Places(x) = {p}
               ELSE Places(x) = {}
    <3>1. header[x] = "QUARANTINED_BLOCK" <=> Held(x)  BY <2>1, HeaderOf, Zenon
    <3> QED  BY <3>1, HeldOnce, Zenon
  <2>2. ASSUME NEW x \in AllBlocks, Alive(x)
        PROVE  header[x] = "FREED_BLOCK" <=>
                 IF x \in Slabs THEN slab_info[x] = "kFreeSlab" ELSE x \notin inUse
    BY <2>2, HeaderOf, Zenon
  <2> QED  BY <1>1, <2>1, <2>2, Zenon DEF BlocksAreConserved
<1>3. QuarantinedHeapsAreAlive
  <2>1. ClashOK /\ shards \in [Shards -> Seq(Blocks)]
    BY Parts, Zenon DEF Types, QuarantineTypeOK
  <2>2. ASSUME NEW i \in Shards, NEW x \in Range(shards[i]) PROVE InShard(x)
    <3>1. PICK s : s = shards[i]  BY Zenon
    <3>2. s \in Seq(Blocks)  BY <2>1, <3>1, Zenon
    <3>3. Has(s, x)  BY <2>2, <3>1, <3>2, ListHas, Zenon
    <3> QED  BY <3>1, <3>3, Zenon DEF InShard
  <2> QED  BY <2>1, <2>2, Zenon DEF QuarantinedHeapsAreAlive, ClashOK
<1>4. SharedProtectedIsQuarantined  BY Parts, Zenon
<1> QED  BY <1>1, <1>2, <1>3, <1>4, Zenon

-----------------------------------------------------------------------------
(* The zebra heap's queues have room, by counting the slabs.               *)
INSTANCE FiniteSetTheorems

(* A queue that lacks some slab is not full, so a push does not fail.      *)
LEMMA NotFull == QueuesHaveRoom
<1> SUFFICES ASSUME NEW q, IsQueue(q), NoDuplicates(q), NEW s \in Slabs \ Elements(q, N)
             PROVE  q.size < N
  BY Zenon DEF QueuesHaveRoom
<1>1. SUFFICES ASSUME q.size = N PROVE FALSE
  BY ZebraAssumption DEF IsQueue, Queues, N
<1>a. q.head \in 0..(N - 1) /\ N \in Nat \ {0}
  BY ZebraAssumption, Zenon DEF IsQueue, Queues, Slabs, N
<1>2. Occupied(q, N) = Slabs
  BY <1>1, <1>a DEF Occupied, Slabs, N
<1>3. q.buffer \in Injection(Slabs, Slabs)
  BY <1>2, Zenon DEF NoDuplicates, IsQueue, Queues, Injection, IsInjective, N
<1>4. IsFiniteSet(Slabs)
  BY FS_Interval, ZebraAssumption DEF Slabs
<1>5. q.buffer \in Surjection(Slabs, Slabs)
  BY <1>3, <1>4, FS_Injection, Zenon
<1>6. \E i \in Slabs : q.buffer[i] = s
  BY <1>5, Zenon DEF Surjection
<1> QED
  BY <1>2, <1>6, Zenon DEF Elements

-----------------------------------------------------------------------------
(* The zebra heap's inductive invariant holds in every state.              *)
LEMMA ZebraInvariant == ZebraSpec => []ZebraInv
<1>1. ZebraInv /\ [ZebraNext]_zebraVars => ZebraInv'
  BY NotFull, ZebraNextInv, Zenon
<1> QED
  BY <1>1, ZebraInitInv, PTL DEF ZebraSpec

(* The indexes of the circular queues stay within their buffers, however   *)
(* often they wrap around.                                                 *)
THEOREM ZebraTypeCorrect == ZebraSpec => []ZebraTypeOK
<1>1. ZebraInv => ZebraTypeOK
  BY Zenon DEF ZebraInv, ZebraTypeOK, Holds, IsQueue, Queues, N
<1> QED
  BY <1>1, ZebraInvariant, PTL

(* A slab is queued exactly once, in the queue its state names: no slab is *)
(* handed out twice or forgotten, for any number of slabs and any ratio.   *)
THEOREM SlabQueuesAlwaysAgree == ZebraSpec => []SlabQueuesAgree
<1>1. ZebraInv => SlabQueuesAgree
  BY Zenon DEF ZebraInv, SlabQueuesAgree, Holds, InState, N
<1> QED
  BY <1>1, ZebraInvariant, PTL

(* The zebra heap is a first-in first-out pool, for any number of slabs:   *)
(* the circular queues never lose, repeat or reorder a slab.               *)
THEOREM ZebraImplementsPool == ZebraSpec => ImplementsSlabPool
<1>1. ZebraInv /\ [ZebraNext]_zebraVars => [Pool!PoolNext]_(Pool!poolVars)
  BY NotFull, ZebraNextRefines, Zenon
<1> QED
  BY <1>1, ZebraInitRefines, ZebraInvariant, PTL DEF ZebraSpec, ImplementsSlabPool

-----------------------------------------------------------------------------
(* The manager's inductive invariant holds in every state.                 *)
LEMMA HeapInvariant == Spec => []HeapInv
<1>1. HeapInv /\ [Next]_vars => HeapInv'
  <2> SUFFICES ASSUME HeapInv, [Next]_vars PROVE HeapInv'  OBVIOUS
  <2>1. ManagerInv' /\ [ZebraNext]_zebraVars  BY NextKeeps, Zenon
  <2>2. ZebraInv  BY Parts, Zenon
  <2>3. ZebraInv'  BY <2>1, <2>2, NotFull, ZebraNextInv, Zenon
  <2> QED  BY <2>1, <2>3, Zenon DEF HeapInv
<1> QED
  BY <1>1, InitHolds, PTL DEF Spec

(* No block is lost or freed twice, for any number of threads, heaps,      *)
(* blocks and shards, whatever the races on size_ do: a quarantined block  *)
(* is in one list or in the hands of one thread.                           *)
THEOREM BlocksAreAlwaysConserved == Spec => []BlocksAreConserved
<1>1. HeapInv => BlocksAreConserved  BY InvariantSays, Zenon
<1> QED
  BY <1>1, HeapInvariant, PTL

(* The shared quarantine holds no block of a heap that is gone, as long as *)
(* no two heaps have been destroyed at once.                               *)
THEOREM QuarantinedHeapsAreAlwaysAlive == Spec => []QuarantinedHeapsAreAlive
<1>1. HeapInv => QuarantinedHeapsAreAlive  BY InvariantSays, Zenon
<1> QED
  BY <1>1, HeapInvariant, PTL

(* A protected block of a heap that uses the shared quarantine is          *)
(* quarantined: no free block is protected.                                *)
THEOREM SharedProtectedIsAlwaysQuarantined == Spec => []SharedProtectedIsQuarantined
<1>1. HeapInv => SharedProtectedIsQuarantined  BY InvariantSays, Zenon
<1> QED
  BY <1>1, HeapInvariant, PTL

(* The manager uses the zebra heap as the zebra heap expects: it frees no  *)
(* slab that is quarantined.  So what holds of the zebra heap alone holds  *)
(* of it in the manager.                                                   *)
THEOREM ManagerUsesZebraHeap == Spec => ZebraSpec
<1>1. Init => ZebraInit  BY Zenon DEF Init
<1>2. HeapInv /\ [Next]_vars => [ZebraNext]_zebraVars  BY NextKeeps, Zenon
<1> QED
  BY <1>1, <1>2, HeapInvariant, PTL DEF Spec, ZebraSpec

=============================================================================
