-------------------------- MODULE BlockHeapManager --------------------------
(***************************************************************************)
(* The Asan runtime's heap manager: the life of a block from Allocate      *)
(* through Free and a quarantine back to its heap, in several threads, and *)
(* the destruction of a heap whose blocks share a quarantine with those of *)
(* other heaps.                                                            *)
(*                                                                         *)
(* A block stands for its address, its header and its trailer.  The heaps  *)
(* other than the zebra heap hand out any block of theirs that is not in   *)
(* use.  A client frees a block that it has allocated, and may free it a   *)
(* second time while it is quarantined; it uses no heap while destroying   *)
(* it.                                                                     *)
(***************************************************************************)
EXTENDS ShardedQuarantine, ZebraBlockHeap, Functions

CONSTANTS
  ProcessHeap, ZebraHeap,   \* the heaps that live as long as the manager
  CreatedHeaps,             \* identities of the heaps CreateHeap returns
  HeapOf,                   \* the heap of each block
  QuarantineSizes,          \* values of the parameter quarantine_size
  Tuners                    \* the threads that call set_parameters

VARIABLES
  header,     \* the state in each block's header
  inUse,      \* the blocks that are allocated in the underlying heaps
  protected,  \* the blocks whose pages are protected
  heaps,      \* the entry of each heap in heaps_
  thread,     \* what each thread is doing
  clashed     \* whether two heaps have been destroyed at once so far

heapVars == <<heaps, clashed>>
managerVars == <<header, inUse, protected, heapVars, thread>>
vars == <<quarantineVars, zebraVars, managerVars>>

AllBlocks == Blocks \union Slabs
AllHeaps == {ProcessHeap, ZebraHeap} \union CreatedHeaps
GetHeap(x) == IF x \in Slabs THEN ZebraHeap ELSE HeapOf[x]
GetQuarantine(h) == IF h = ZebraHeap THEN "zebra" ELSE "shared"
IsValidHeapId(h) == heaps[h] = "live"

(* The identities of blocks, of heaps and of nothing do not clash.         *)
ASSUME HeapAssumption ==
  /\ Blocks \intersect Slabs = {} /\ None \notin AllBlocks
  /\ HeapOf \in [Blocks -> {ProcessHeap} \union CreatedHeaps]
  /\ ZebraHeap \notin {ProcessHeap} \union CreatedHeaps
  /\ None \notin CreatedHeaps

(* A call: its next step, the heap it destroys, its block, the blocks to   *)
(* reinsert and to free, the quarantine it works on, and whether it goes   *)
(* on to trim the zebra heap.                                              *)
NoWork == [pc |-> "idle", heap |-> None, block |-> None, todo |-> << >>,
           vec |-> {}, q |-> "shared", more |-> FALSE]

Set(t, work) == thread' = [thread EXCEPT ![t] = work]
Goto(t, pc) == Set(t, [thread[t] EXCEPT !.pc = pc])
At(t, pc) == thread[t].pc = pc
On(t, q) == thread[t].q = q

BlockProtectNone(X) == protected' = protected \ X
BlockProtectAll(x) == protected' = protected \union {x}
SetHeader(x, state) == header' = [header EXCEPT ![x] = state]

-----------------------------------------------------------------------------
CreateHeap(h) ==
  /\ h \in CreatedHeaps /\ heaps[h] = "none"
  /\ heaps' = [heaps EXCEPT ![h] = "live"]
  /\ UNCHANGED <<quarantineVars, zebraVars, header, inUse, protected, thread, clashed>>

(* Allocate tries the zebra heap for a request that may use it, and falls  *)
(* back on the given heap.  BlockProtectRedzones unprotects the block; the *)
(* pages of its redzones are left out.                                     *)
Allocate(t, h, x) ==
  /\ At(t, "idle") /\ IsValidHeapId(h) /\ h # ZebraHeap
  /\ \/ /\ x \in Slabs /\ ZebraAllocate(x)
        /\ UNCHANGED inUse
     \/ /\ x \in Blocks \ inUse /\ HeapOf[x] = h
        /\ inUse' = inUse \union {x}
        /\ UNCHANGED zebraVars
  /\ SetHeader(x, "ALLOCATED_BLOCK")
  /\ BlockProtectNone({x})
  /\ UNCHANGED <<quarantineVars, heapVars, thread>>

(* FreePristineBlock gives a block back to its heap.  It does not ask      *)
(* whether the heap still exists: if another thread has destroyed it, the  *)
(* code writes to memory that is gone, of which the model says nothing.    *)
FreePristineBlock(x) ==
  /\ BlockProtectNone({x})
  /\ SetHeader(x, "FREED_BLOCK")
  /\ IF x \in Slabs THEN ZebraFree(x) /\ UNCHANGED inUse
     ELSE inUse' = inUse \ {x} /\ UNCHANGED zebraVars

-----------------------------------------------------------------------------
(* Free looks at the header, marks the block as quarantined and pushes it  *)
(* into the quarantine of its heap.  Two threads that free one block at    *)
(* once may both find it allocated; such clients are left out.             *)
Free(t, x) ==
  /\ At(t, "idle") /\ IsValidHeapId(GetHeap(x))
  /\ header[x] # "FREED_BLOCK"
  /\ \A u \in Threads : ~(At(u, "mark") /\ thread[u].block = x)
  /\ BlockProtectNone({x})
  /\ IF header[x] = "QUARANTINED_BLOCK" THEN UNCHANGED thread  \* DOUBLE_FREE
     ELSE Set(t, [NoWork EXCEPT !.pc = "mark", !.block = x,
                                !.q = GetQuarantine(GetHeap(x))])
  /\ UNCHANGED <<quarantineVars, zebraVars, header, inUse, heapVars>>

Mark(t) ==
  /\ At(t, "mark")
  /\ SetHeader(thread[t].block, "QUARANTINED_BLOCK")
  /\ Goto(t, "push")
  /\ UNCHANGED <<quarantineVars, zebraVars, inUse, protected, heapVars>>

(* Where a push leads, in Free and in DestroyHeap.                         *)
Destroying(t) == thread[t].heap # None

Pushed(t) == Goto(t, IF Destroying(t) THEN "reinsert" ELSE "trim")

(* Mutant: a block that cannot be reinserted is forgotten.                 *)
NotReinsertedLeaks(t) == Goto(t, "reinsert")

(* "Avoid memory leak": DestroyHeap frees the block with those of the heap *)
NotReinserted(t) ==
  Set(t, [thread[t] EXCEPT !.pc = "reinsert", !.vec = @ \union {thread[t].block}])

(* ... and Free frees it at once.                                          *)
NotPushed(t) ==
  IF Destroying(t)
  THEN NotReinserted(t) /\ UNCHANGED <<header, inUse, protected, zebraVars>>
  ELSE FreePristineBlock(thread[t].block) /\ Set(t, NoWork)

PushShared(t) ==
  LET x == thread[t].block IN
  /\ At(t, "push") /\ On(t, "shared")
  /\ \/ /\ PushBegins(t, x) /\ Goto(t, "pushing")
        /\ UNCHANGED <<header, inUse, protected, zebraVars>>
     \/ PushFails(t, x) /\ NotPushed(t)
  /\ UNCHANGED heapVars

(* Mutant: the shard is unlocked before the block is protected.            *)
PushedThenProtected(t) ==
  /\ At(t, "pushing")
  /\ PushEnds(t, thread[t].block)
  /\ Goto(t, "protect")
  /\ UNCHANGED <<zebraVars, header, inUse, protected, heapVars>>

(* The block is protected before the shard is unlocked.                    *)
PushedShared(t) ==
  /\ At(t, "pushing")
  /\ PushEnds(t, thread[t].block) /\ BlockProtectAll(thread[t].block)
  /\ Pushed(t)
  /\ UNCHANGED <<zebraVars, header, inUse, heapVars>>

(* The zebra heap's Lock(id) does nothing, so it is protected later.       *)
PushZebra(t) ==
  LET x == thread[t].block IN
  /\ At(t, "push") /\ On(t, "zebra")
  /\ IF CanPush(x)
     THEN /\ ZebraPush(x) /\ Goto(t, "protect")
          /\ UNCHANGED <<header, inUse, protected>>
     ELSE NotPushed(t)
  /\ UNCHANGED <<quarantineVars, heapVars>>

ProtectZebra(t) ==
  /\ At(t, "protect")
  /\ BlockProtectAll(thread[t].block)
  /\ Pushed(t)
  /\ UNCHANGED <<quarantineVars, zebraVars, header, inUse, heapVars>>

-----------------------------------------------------------------------------
(* TrimQuarantine collects the blocks to free, and frees them at the end.  *)
Collect(t, X, pc) == Set(t, [thread[t] EXCEPT !.pc = pc, !.vec = @ \union X])

TrimQuarantine(t) ==
  /\ At(t, "trim")
  /\ IF maxSize # 0 THEN Goto(t, "pop") /\ UNCHANGED zebraVars
     ELSE IF On(t, "shared") THEN Goto(t, "empty") /\ UNCHANGED zebraVars
     ELSE \E S \in SUBSET Slabs : ZebraEmpty(S) /\ Collect(t, S, "free")
  /\ UNCHANGED <<quarantineVars, header, inUse, protected, heapVars>>

PopZebra(t) ==
  /\ At(t, "pop") /\ On(t, "zebra")
  /\ \/ \E s \in Slabs : ZebraPop(s) /\ Collect(t, {s}, "pop")
     \/ QuarantineInvariantIsSatisfied /\ Goto(t, "free") /\ UNCHANGED zebraVars
  /\ UNCHANGED <<quarantineVars, header, inUse, protected, heapVars>>

PopShared(t) ==
  /\ At(t, "pop") /\ On(t, "shared")
  /\ \/ PopRefuses(t) /\ Goto(t, "free")
     \/ PopFindsNothing(t) /\ Goto(t, "free")
     \/ \E b \in Blocks : PopEnds(t, b) /\ Collect(t, {b}, "pop")
     \/ /\ PopBegins(t) \/ PopScans(t) \/ PopTakes(t) \/ PopLoads(t)
        /\ UNCHANGED thread
  /\ UNCHANGED <<zebraVars, header, inUse, protected, heapVars>>

(* Empty, for TrimQuarantine and for DestroyHeapContents, which goes       *)
(* through the blocks and unprotects them.                                 *)
EmptyShared(t) ==
  LET taken == call[t].taken IN
  /\ At(t, "empty")
  /\ \/ EmptyBegins(t) /\ UNCHANGED <<thread, protected>>
     \/ EmptyShard(t) /\ UNCHANGED <<thread, protected>>
     \/ /\ EmptyEnds(t)
        /\ IF Destroying(t)
           THEN /\ Set(t, [thread[t] EXCEPT !.pc = "reinsert", !.todo = taken])
                /\ BlockProtectNone(Range(taken))
           ELSE Collect(t, Range(taken), "free") /\ UNCHANGED protected
  /\ UNCHANGED <<zebraVars, header, inUse, heapVars>>

FreeBlockVector(t) ==
  /\ At(t, "free")
  /\ \E x \in thread[t].vec :
       FreePristineBlock(x) /\ Set(t, [thread[t] EXCEPT !.vec = @ \ {x}])
  /\ UNCHANGED <<quarantineVars, heapVars>>

(* FreeBlockVector returns to DestroyHeap, to PropagateParameters with the *)
(* zebra heap still to be trimmed, or to a call that is done.              *)
FreeBlockVectorReturns(t) ==
  /\ At(t, "free") /\ thread[t].vec = {}
  /\ Set(t, IF Destroying(t) THEN [thread[t] EXCEPT !.pc = "erase"]
            ELSE IF thread[t].more THEN [NoWork EXCEPT !.pc = "trim", !.q = "zebra"]
            ELSE NoWork)
  /\ UNCHANGED <<quarantineVars, zebraVars, header, inUse, protected, heapVars>>

(* set_parameters and PropagateParameters: parameters_.quarantine_size and *)
(* the maximum that the quarantine copies from it are one variable.        *)
SetParameters(t, n) ==
  /\ t \in Tuners /\ At(t, "idle") /\ n # maxSize
  /\ SetMaxQuarantineSize(n)
  /\ Set(t, IF n < maxSize THEN [NoWork EXCEPT !.pc = "trim", !.more = TRUE]
            ELSE [NoWork EXCEPT !.pc = "trim", !.q = "zebra"])
  /\ UNCHANGED <<zebraVars, header, inUse, protected, heapVars>>

-----------------------------------------------------------------------------
(* The heap of the block that a client is freeing in thread u.             *)
UsesHeap(u) ==
  IF Destroying(u) \/ thread[u].block = None THEN None ELSE GetHeap(thread[u].block)

(* Mutant: the heap is erased with its blocks in the quarantine.           *)
DestroyHeapOnly(t, h) ==
  /\ At(t, "idle") /\ h \in CreatedHeaps /\ IsValidHeapId(h)
  /\ \A u \in Threads : UsesHeap(u) # h
  /\ heaps' = [heaps EXCEPT ![h] = "dying"]
  /\ clashed' = (clashed \/ \E u \in Threads : Destroying(u))
  /\ Set(t, [NoWork EXCEPT !.pc = "erase", !.heap = h])
  /\ UNCHANGED <<quarantineVars, zebraVars, header, inUse, protected>>

(* DestroyHeap empties the shared quarantine, puts the blocks of other     *)
(* heaps back one by one, frees those of the heap and erases it.           *)
DestroyHeap(t, h) ==
  /\ At(t, "idle") /\ h \in CreatedHeaps /\ IsValidHeapId(h)
  /\ \A u \in Threads : UsesHeap(u) # h
  /\ heaps' = [heaps EXCEPT ![h] = "dying"]
  /\ clashed' = (clashed \/ \E u \in Threads : Destroying(u))
  /\ Set(t, [NoWork EXCEPT !.pc = "empty", !.heap = h])
  /\ UNCHANGED <<quarantineVars, zebraVars, header, inUse, protected>>

(* The next of the blocks that were in the quarantine: one of the heap is  *)
(* to be freed, one of another heap is pushed.                             *)
Reinsert(t) ==
  LET todo == thread[t].todo IN
  /\ At(t, "reinsert")
  /\ Set(t, IF todo = << >> THEN [thread[t] EXCEPT !.pc = "free", !.block = None]
            ELSE IF GetHeap(Head(todo)) = thread[t].heap
            THEN [thread[t] EXCEPT !.vec = @ \union {Head(todo)}, !.todo = Tail(todo)]
            ELSE [thread[t] EXCEPT !.pc = "push", !.block = Head(todo),
                                   !.todo = Tail(todo)])
  /\ UNCHANGED <<quarantineVars, zebraVars, header, inUse, protected, heapVars>>

(* The heap is deleted, and its memory with it: its blocks count as freed  *)
(* and unprotected, since none of them can be touched any more.            *)
DestroyHeapResources(t) ==
  LET h == thread[t].heap
      mine == {x \in Blocks : HeapOf[x] = h} IN
  /\ At(t, "erase")
  /\ heaps' = [heaps EXCEPT ![h] = "dead"]
  /\ header' = [x \in AllBlocks |-> IF x \in mine THEN "FREED_BLOCK" ELSE header[x]]
  /\ inUse' = inUse \ mine
  /\ BlockProtectNone(mine)
  /\ Set(t, NoWork)
  /\ UNCHANGED <<quarantineVars, zebraVars, clashed>>

-----------------------------------------------------------------------------
Call(t) ==
  \/ \E h \in AllHeaps, x \in AllBlocks : Allocate(t, h, x)
  \/ \E x \in AllBlocks : Free(t, x)
  \/ \E h \in AllHeaps : DestroyHeap(t, h)
  \/ \E n \in QuarantineSizes : SetParameters(t, n)

Step(t) ==
  \/ Mark(t) \/ PushShared(t) \/ PushedShared(t) \/ PushZebra(t) \/ ProtectZebra(t)
  \/ TrimQuarantine(t) \/ PopZebra(t) \/ PopShared(t) \/ EmptyShared(t)
  \/ FreeBlockVector(t) \/ FreeBlockVectorReturns(t)
  \/ Reinsert(t) \/ DestroyHeapResources(t)

Init ==
  /\ ZebraInit
  /\ \E n \in QuarantineSizes : QuarantineInit(n)
  /\ header = [x \in AllBlocks |-> "FREED_BLOCK"]
  /\ inUse = {} /\ protected = {}
  /\ heaps = [h \in AllHeaps |-> IF h \in CreatedHeaps THEN "none" ELSE "live"]
  /\ thread = [t \in Threads |-> NoWork]
  /\ clashed = FALSE

Next ==
  \/ \E t \in Threads : Call(t) \/ Step(t)
  \/ \E h \in AllHeaps : CreateHeap(h)

Spec == Init /\ [][Next]_vars

(* As long as threads are inside calls one of them keeps running.  A step  *)
(* changes where its thread is, in the manager or in the quarantine.       *)
FairSpec == Spec /\ WF_<<thread, call>>(\E t \in Threads : Step(t))

-----------------------------------------------------------------------------
(* Properties.                                                             *)

Steps == {"idle", "mark", "push", "pushing", "protect", "trim", "pop", "empty",
          "free", "reinsert", "erase"}

(* The type of every variable.                                             *)
WorkSet == [pc : Steps, heap : CreatedHeaps \union {None}, block : AllBlocks \union {None},
            todo : Seq(Blocks), vec : SUBSET AllBlocks, q : {"shared", "zebra"},
            more : BOOLEAN]

TypeOK ==
  /\ ZebraTypeOK /\ QuarantineTypeOK /\ maxSize \in QuarantineSizes
  /\ header \in [AllBlocks -> {"FREED_BLOCK", "ALLOCATED_BLOCK", "QUARANTINED_BLOCK"}]
  /\ inUse \subseteq Blocks /\ protected \subseteq AllBlocks
  /\ heaps \in [AllHeaps -> {"none", "live", "dying", "dead"}] /\ clashed \in BOOLEAN
  /\ thread \in [Threads -> WorkSet]

(* The places that hold block x: in a list, or in the hands of a thread.   *)
InShards(x) == {p \in UNION {{i} \X DOMAIN shards[i] : i \in Shards} :
                  shards[p[1]][p[2]] = x}
InZebra(x) == {i \in Occupied(quarantine, SlabCount) : quarantine.buffer[i] = x}
Pushing(x) == {t \in Threads : thread[t].pc \in {"push", "pushing"} /\ thread[t].block = x}
Popping(x) == {t \in Threads : call[t].op \in {"load", "subtract"} /\ call[t].block = x}
Emptying(x) == {t \in Threads : x \in Range(call[t].taken)}
Reinserting(x) == {t \in Threads : x \in Range(thread[t].todo)}
Freeing(x) == {t \in Threads : x \in thread[t].vec}

Places(x) ==
  ({"shards"} \X InShards(x)) \union ({"zebra"} \X InZebra(x))
    \union ({"push"} \X Pushing(x)) \union ({"pop"} \X Popping(x))
    \union ({"empty"} \X Emptying(x)) \union ({"reinsert"} \X Reinserting(x))
    \union ({"free"} \X Freeing(x))

Alive(x) == heaps[GetHeap(x)] # "dead"

(* No block of a heap that exists is lost or freed twice, whatever the     *)
(* lost updates of size_ do: a quarantined block is in exactly one list or *)
(* in the hands of exactly one thread; a block in neither is used by the   *)
(* client or free, and the header and the underlying heap agree on which.  *)
(* Nothing is said of a block whose heap has been destroyed, which another *)
(* thread that is trimming may still hold.                                 *)
BlocksAreConserved ==
  /\ TypeOK
  /\ \A x \in AllBlocks : Alive(x) =>
       /\ LET P == Places(x) IN
          IF header[x] = "QUARANTINED_BLOCK" THEN \E p \in P : P = {p} ELSE P = {}
       /\ header[x] = "FREED_BLOCK" <=>
            IF x \in Slabs THEN slab_info[x] = "kFreeSlab" ELSE x \notin inUse

Total == FoldFunction(LAMBDA b, n : SizeOf[b] + n, 0,
                 FoldFunction(LAMBDA s, r : s \o r, << >>, shards))

(* size_ is the total size of the quarantined blocks whenever no operation *)
(* is under way, as long as no two operations have ever overlapped.        *)
SizeIsExact == ~raced /\ (\A t \in Threads : ~Updating(t)) => size = Total

(* The shared quarantine never holds a block of a heap that is gone, for   *)
(* which GetHeapFromId would use a stale entry, as long as no two heaps    *)
(* have been destroyed at once: a DestroyHeap that has emptied the         *)
(* quarantine puts the blocks of another dying heap back.                  *)
QuarantinedHeapsAreAlive ==
  ~clashed => \A i \in Shards : \A x \in Range(shards[i]) : Alive(x)

(* "We could end up protecting a free block": the shard's lock, held over  *)
(* Push and BlockProtectAll, prevents it in the shared quarantine, save    *)
(* for a block of a dead heap that such a clash has put back.              *)
SharedProtectedIsQuarantined ==
  \A x \in protected \intersect Blocks :
    Alive(x) \/ ~clashed => header[x] = "QUARANTINED_BLOCK"

(* The same for every heap.                                                *)
ProtectedIsQuarantined == \A x \in protected : header[x] = "QUARANTINED_BLOCK"

(* No thread begins a call.                                                *)
NobodyCalls == \A t \in Threads : At(t, "idle") => thread'[t].pc = "idle"

(* However wrong size_ has become, the loops of TrimQuarantine, of Pop and *)
(* of DestroyHeap end: once nobody begins another call, every call that is *)
(* under way returns.                                                      *)
CallsReturn == <>[][NobodyCalls]_thread => <>[](\A t \in Threads : At(t, "idle"))

=============================================================================
