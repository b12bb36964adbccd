------------------------------ MODULE Session ------------------------------
(***************************************************************************)
(* One trace::service::Session of the call trace service: the shared       *)
(* memory buffers of one client process, the RPC threads that hand them    *)
(* out and take them back, and the writer thread (the message loop of the  *)
(* SessionTraceFileWriter) that writes them to the trace file and recycles *)
(* them.  Every critical section of Session::lock_ is one action;          *)
(* ConditionVariable::Wait ends one and its return begins another.         *)
(***************************************************************************)
EXTENDS Naturals, Sequences, FiniteSets, Functions

CONSTANTS
  Threads,          \* RPC threads serving the client's calls
  Buffers,          \* identities of the buffers that can ever be allocated
  NoBuffer,         \* the NULL buffer pointer
  Records,          \* what a client can put in a buffer, each at most once
  Empty,            \* a zeroed segment header: WriteRecord skips it
  Ended,            \* the TRACE_PROCESS_ENDED segment
  Requests,         \* the minimum sizes clients ask for; 0 is GetNextBuffer
  BufferSize,       \* Service::buffer_size_in_bytes
  BlockSize,        \* BufferConsumer::block_size
  EventSize,        \* bytes of the process ended segment
  NumIncremental,   \* Service::num_incremental_buffers
  MaxPending,       \* Service::max_buffers_pending_write
  Serialized,       \* calls to the session are serialized by the RPC runtime
  Failures          \* the system calls that may fail in this instance

ASSUME SessionAssumption ==
  /\ IsFiniteSet(Buffers) /\ IsFiniteSet(Threads)
  /\ NoBuffer \notin Buffers
  /\ Empty \notin Records /\ Ended \notin Records /\ Empty # Ended
  /\ Requests \subseteq Nat
  /\ BufferSize \in Nat \ {0} /\ BlockSize \in Nat \ {0}
  /\ EventSize \in 1 .. BufferSize
  /\ NumIncremental \in Nat \ {0} /\ MaxPending \in Nat \ {0}
  /\ Serialized \in BOOLEAN
  /\ Failures \subseteq {"alloc", "map", "write"}

VARIABLES
  bufs,         \* the buffer book-keeping, all of it under lock_
  is_closing_,
  waiting,      \* buffer_requests_waiting_for_recycle_
  pc,           \* where each RPC thread is in its call
  arg,          \* the buffer a committing thread is returning
  exchange,     \* whether that call is to exchange the buffer for another
  held,         \* the buffers each client thread has been handed
  unused,       \* the records no client has written yet
  content,      \* what the shared memory of each buffer holds
  queue,        \* WriteBuffer tasks posted to the writer's message loop
  writer,       \* the buffer the writer has written and not yet recycled
  file          \* the segments in the trace file

vars == <<bufs, is_closing_, waiting, pc, arg, exchange, held, unused,
          content, queue, writer, file>>

BufferState == {"kAvailable", "kInUse", "kPendingWrite"}

(* A buffer outside buffers_ is "none" before its pool is allocated and    *)
(* "deleted" once its pool is.                                             *)
Allocated(p) == {b \in Buffers : p.state[b] \in BufferState}
Fresh(p) == {b \in Buffers : p.state[b] = "none"}
InState(p, s) == {b \in Buffers : p.state[b] = s}

AlignUp(value, alignment) ==
  ((value + alignment - 1) \div alignment) * alignment

-----------------------------------------------------------------------------
(* The buffer book-keeping.  Each operator is one of the session's private *)
(* methods: the book-keeping before the call to the book-keeping after it. *)

(* Mutant: the count of the old state is left alone.                       *)
ChangeBufferStateMiscounted(p, new_state, b) ==
  [p EXCEPT !.state[b] = new_state, !.counts[new_state] = @ + 1]

ChangeBufferState(p, new_state, b) ==
  [state     |-> [p.state EXCEPT ![b] = new_state],
   size      |-> p.size,
   counts    |-> [p.counts EXCEPT ![p.state[b]] = @ - 1, ![new_state] = @ + 1],
   available |-> p.available]

AllocateBuffers(p, pool, size) ==
  [state     |-> [b \in Buffers |-> IF b \in Range(pool) THEN "kAvailable"
                                    ELSE p.state[b]],
   size      |-> [b \in Buffers |-> IF b \in Range(pool)
                                    THEN AlignUp(size, BlockSize)
                                    ELSE p.size[b]],
   counts    |-> [p.counts EXCEPT !["kAvailable"] = @ + Len(pool)],
   available |-> p.available \o pool]

AllocateBufferForImmediateUse(p, b, size) ==
  [state     |-> [p.state EXCEPT ![b] = "kInUse"],
   size      |-> [p.size EXCEPT ![b] = AlignUp(size, BlockSize)],
   counts    |-> [p.counts EXCEPT !["kInUse"] = @ + 1],
   available |-> p.available]

TakeAvailable(p) ==
  ChangeBufferState([p EXCEPT !.available = Tail(@)], "kInUse",
                    Head(p.available))

MakeAvailable(p, b) ==
  ChangeBufferState([p EXCEPT !.available = <<b>> \o @], "kAvailable", b)

DestroySingletonBuffer(p, b) ==
  [state     |-> [p.state EXCEPT ![b] = "deleted"],
   size      |-> p.size,
   counts    |-> [p.counts EXCEPT !["kPendingWrite"] = @ - 1],
   available |-> p.available]

IsSingleton(p, b) == p.size[b] > AlignUp(BufferSize, BlockSize)

FlushInUse(p) ==
  LET n == Cardinality(InState(p, "kInUse"))
  IN  [state     |-> [b \in Buffers |-> IF p.state[b] = "kInUse"
                                        THEN "kPendingWrite" ELSE p.state[b]],
       size      |-> p.size,
       counts    |-> [p.counts EXCEPT !["kInUse"] = @ - n,
                                      !["kPendingWrite"] = @ + n],
       available |-> p.available]

(* The buffers of a new pool, in the order of their offsets.  Creating the *)
(* pool can fail, and does once every identity in Buffers has been used.   *)
NewPools(n) == {pool \in [1 .. n -> Fresh(bufs)] : IsInjective(pool)}
AllocationFails(n) == "alloc" \in Failures \/ NewPools(n) = {}

-----------------------------------------------------------------------------
(* buffer_is_available_: threads at "wait" are blocked in Wait.            *)

Waiters == {t \in Threads : pc[t] = "wait"}

(* The threads that n calls of Signal release.                             *)
Released(n) ==
  {W \in SUBSET Waiters : \/ Cardinality(W) = n
                          \/ W = Waiters /\ Cardinality(W) < n}

Wake(W) ==
  pc' = [u \in Threads |-> IF u \in W THEN "woken" ELSE pc[u]]

GoTo(t, where, W) ==
  pc' = [u \in Threads |-> IF u = t THEN where
                           ELSE IF u \in W THEN "woken" ELSE pc[u]]

(* The number of write-pending buffers above the back-pressure threshold.  *)
BuffersForceRecyclable ==
  IF bufs.counts["kPendingWrite"] > MaxPending
  THEN bufs.counts["kPendingWrite"] - MaxPending ELSE 0

-----------------------------------------------------------------------------
(* The client side of the calls.                                           *)

Idle == \A t \in Threads : pc[t] = "idle"

(* The last reference is gone: the service's since Close, the callers',    *)
(* and the one each posted task holds.                                     *)
Destroyed == is_closing_ /\ Idle /\ queue = <<>> /\ writer = NoBuffer

CanCall(t) ==
  /\ pc[t] = "idle"
  /\ IF Serialized THEN ~is_closing_ /\ Idle ELSE ~Destroyed

Deliver(t, p, b, W) ==
  /\ bufs' = p
  /\ held' = [held EXCEPT ![t] = @ \union {b}]
  /\ GoTo(t, "idle", W)

Refuse(t) == GoTo(t, "idle", {}) /\ UNCHANGED <<bufs, held>>

(* Mutant: one request too many waits.                                     *)
MustWaitOffByOne(w) == w <= BuffersForceRecyclable

(* A request waits rather than allocate while the requests that wait are   *)
(* fewer than the buffers that can be forced to be recycled.               *)
MustWait(w) == w < BuffersForceRecyclable

StartWaiting(t, w) ==
  /\ GoTo(t, "wait", {})
  /\ waiting' = w + 1
  /\ UNCHANGED <<bufs, held>>

(* One pass of the loop under the lock, w requests waiting before it.      *)
GetNextBufferUnlocked(t, w) ==
  \/ /\ bufs.available # <<>>
     /\ Deliver(t, TakeAvailable(bufs), Head(bufs.available), {})
     /\ waiting' = w
  \/ /\ bufs.available = <<>>
     /\ MustWait(w)
     /\ StartWaiting(t, w)
  \/ /\ bufs.available = <<>>
     /\ ~MustWait(w)
     /\ \/ \E pool \in NewPools(NumIncremental), W \in Released(NumIncremental) :
             Deliver(t, TakeAvailable(AllocateBuffers(bufs, pool, BufferSize)),
                     Head(pool), W)
        \/ AllocationFails(NumIncremental) /\ Refuse(t)
     /\ waiting' = w

(* The part of GetBuffer after the check of is_closing_.                   *)
GetBufferOfSize(t, minimum_size) ==
  \/ /\ minimum_size <= BufferSize
     /\ GetNextBufferUnlocked(t, waiting)
  \/ /\ minimum_size > BufferSize
     /\ \/ \E b \in Fresh(bufs) :
             Deliver(t, AllocateBufferForImmediateUse(bufs, b, minimum_size),
                     b, {})
        \/ AllocationFails(1) /\ Refuse(t)
     /\ UNCHANGED waiting

GetBuffer(t, minimum_size) ==
  \/ is_closing_ /\ Refuse(t) /\ UNCHANGED waiting
  \/ ~is_closing_ /\ GetBufferOfSize(t, minimum_size)

UnchangedButBuffers ==
  UNCHANGED <<is_closing_, arg, exchange, unused, content, queue, writer, file>>

-----------------------------------------------------------------------------
(* The RPC entry points.                                                   *)

AllocateBuffer(t) ==
  /\ CanCall(t)
  /\ \E n \in Requests : GetBuffer(t, n)
  /\ UnchangedButBuffers

WakeUp(t) ==
  /\ pc[t] = "woken"
  /\ GetNextBufferUnlocked(t, waiting - 1)
  /\ UnchangedButBuffers

SpuriousWakeup(t) ==
  /\ pc[t] = "wait"
  /\ GoTo(t, "woken", {})
  /\ UNCHANGED <<bufs, waiting, held>>
  /\ UnchangedButBuffers

(* CommitAndExchangeBuffer up to and with FindBuffer.                      *)
FindBuffer(t) ==
  /\ CanCall(t)
  /\ \E b \in held[t] :
       /\ held' = [held EXCEPT ![t] = @ \ {b}]
       /\ \/ /\ b \in Allocated(bufs)
             /\ GoTo(t, "return", {})
             /\ arg' = [arg EXCEPT ![t] = b]
             /\ \E ex \in BOOLEAN : exchange' = [exchange EXCEPT ![t] = ex]
          \/ b \notin Allocated(bufs) /\ UNCHANGED <<pc, arg, exchange>>
  /\ UNCHANGED <<bufs, is_closing_, waiting, unused, content, queue, writer,
                 file>>

(* What CommitAndExchangeBuffer does once ReturnBuffer has returned.       *)
EndReturn(t) ==
  /\ GoTo(t, IF exchange[t] THEN "exchange" ELSE "idle", {})
  /\ arg' = [arg EXCEPT ![t] = NoBuffer]
  /\ exchange' = [exchange EXCEPT ![t] = FALSE]

(* Mutant: the buffer is returned although the session is closing.         *)
ReturnBufferUnguarded(t) ==
  /\ pc[t] = "return"
  /\ bufs' = ChangeBufferState(bufs, "kPendingWrite", arg[t])
  /\ GoTo(t, "consume", {})
  /\ UNCHANGED <<is_closing_, waiting, arg, exchange, held, unused, content,
                 queue, writer, file>>

(* Mutant: the buffer stays in use while it is written.                    *)
ReturnBufferUnmarked(t) ==
  /\ pc[t] = "return"
  /\ IF is_closing_ THEN EndReturn(t)
     ELSE GoTo(t, "consume", {}) /\ UNCHANGED <<arg, exchange>>
  /\ UNCHANGED <<bufs, is_closing_, waiting, held, unused, content, queue,
                 writer, file>>

ReturnBuffer(t) ==
  /\ pc[t] = "return"
  /\ \/ is_closing_ /\ EndReturn(t) /\ UNCHANGED bufs
     \/ /\ ~is_closing_
        /\ bufs' = ChangeBufferState(bufs, "kPendingWrite", arg[t])
        /\ GoTo(t, "consume", {})
        /\ UNCHANGED <<arg, exchange>>
  /\ UNCHANGED <<is_closing_, waiting, held, unused, content, queue, writer,
                 file>>

(* Mutant: the buffer never reaches the consumer.                          *)
ConsumeBufferForgets(t) ==
  /\ pc[t] = "consume"
  /\ EndReturn(t)
  /\ UNCHANGED <<bufs, is_closing_, waiting, held, unused, content, queue,
                 writer, file>>

(* ReturnBuffer hands the buffer to the consumer after releasing the lock. *)
ConsumeBuffer(t) ==
  /\ pc[t] = "consume"
  /\ queue' = Append(queue, arg[t])
  /\ EndReturn(t)
  /\ UNCHANGED <<bufs, is_closing_, waiting, held, unused, content, writer,
                 file>>

ExchangeBuffer(t) ==
  /\ pc[t] = "exchange"
  /\ GetBuffer(t, 0)
  /\ UnchangedButBuffers

(* The client fills a buffer it has been handed, whether or not the        *)
(* session has been closed since.                                          *)
Fill(t) ==
  /\ \E b \in held[t], r \in unused :
       /\ content[b] = Empty
       /\ content' = [content EXCEPT ![b] = r]
       /\ unused' = unused \ {r}
  /\ UNCHANGED <<bufs, is_closing_, waiting, pc, arg, exchange, held, queue,
                 writer, file>>

-----------------------------------------------------------------------------
(* Closing the session.                                                    *)

(* Mutant: the event's buffer is never handed to the consumer.             *)
WriteEndedEventForgets(p, q) ==
  /\ bufs' = TakeAvailable(p)
  /\ content' = [content EXCEPT ![Head(p.available)] = Ended]
  /\ queue' = q

(* Mutant: the event is posted ahead of the outstanding buffers.           *)
WriteEndedEventFirst(p, q) ==
  LET b == Head(p.available)
  IN  /\ bufs' = ChangeBufferState(TakeAvailable(p), "kPendingWrite", b)
      /\ content' = [content EXCEPT ![b] = Ended]
      /\ queue' = <<b>> \o q

(* The rest of CreateProcessEndedEvent and of Close, p the book-keeping    *)
(* with a buffer available and q the tasks posted so far.                  *)
WriteEndedEvent(p, q) ==
  LET b == Head(p.available)
  IN  \/ /\ bufs' = ChangeBufferState(TakeAvailable(p), "kPendingWrite", b)
         /\ content' = [content EXCEPT ![b] = Ended]
         /\ queue' = Append(q, b)
      \/ /\ "map" \in Failures
         /\ bufs' = TakeAvailable(p)
         /\ queue' = q
         /\ UNCHANGED content

CreateProcessEndedEvent(p, q) ==
  \/ /\ p.available # <<>>
     /\ WriteEndedEvent(p, q)
     /\ UNCHANGED pc
  \/ /\ p.available = <<>>
     /\ \E pool \in NewPools(1), W \in Released(1) :
          /\ WriteEndedEvent(AllocateBuffers(p, pool, EventSize), q)
          /\ Wake(W)
  \/ /\ p.available = <<>>
     /\ AllocationFails(1)
     /\ bufs' = p
     /\ queue' = q
     /\ UNCHANGED <<content, pc>>

(* Called by CloseSession, the rundown of the client's handle and          *)
(* Service::Stop; it does nothing when the session is closing already.     *)
Close ==
  /\ ~is_closing_
  /\ Serialized => Idle
  /\ is_closing_' = TRUE
  /\ LET inUse == InState(bufs, "kInUse")
     IN  \E order \in Bijection(1 .. Cardinality(inUse), inUse) :
           CreateProcessEndedEvent(FlushInUse(bufs), queue \o order)
  /\ UNCHANGED <<waiting, arg, exchange, held, unused, writer, file>>

-----------------------------------------------------------------------------
(* The writer thread.                                                      *)

(* WriteRecord skips an empty segment and can fail.                        *)
WriteRecord(record) ==
  \/ record = Empty /\ UNCHANGED file
  \/ record # Empty /\ file' = Append(file, record)
  \/ "write" \in Failures /\ UNCHANGED file

(* Mutant: the header is not cleared.                                      *)
WriteBufferUncleared ==
  /\ writer = NoBuffer
  /\ queue # <<>>
  /\ queue' = Tail(queue)
  /\ writer' = Head(queue)
  /\ WriteRecord(content[Head(queue)])
  /\ UNCHANGED <<bufs, is_closing_, waiting, pc, arg, exchange, held, unused,
                 content>>

(* Mutant: a buffer with nothing to write is not recycled.                 *)
WriteBufferSkipsEmpty ==
  /\ writer = NoBuffer
  /\ queue # <<>>
  /\ queue' = Tail(queue)
  /\ writer' = IF content[Head(queue)] = Empty THEN NoBuffer ELSE Head(queue)
  /\ content' = [content EXCEPT ![Head(queue)] = Empty]
  /\ WriteRecord(content[Head(queue)])
  /\ UNCHANGED <<bufs, is_closing_, waiting, pc, arg, exchange, held, unused>>

(* WriteBuffer up to and with clearing the header.  The buffer stays       *)
(* behind if it cannot be mapped; the record is lost if it cannot be       *)
(* written.                                                                *)
WriteBuffer ==
  /\ writer = NoBuffer
  /\ queue # <<>>
  /\ queue' = Tail(queue)
  /\ LET b == Head(queue)
     IN  \/ /\ writer' = b
            /\ content' = [content EXCEPT ![b] = Empty]
            /\ WriteRecord(content[b])
         \/ "map" \in Failures /\ UNCHANGED <<writer, content, file>>
  /\ UNCHANGED <<bufs, is_closing_, waiting, pc, arg, exchange, held, unused>>

(* Mutant: nobody is told that a buffer is available.                      *)
RecycleBufferSilently ==
  /\ writer # NoBuffer
  /\ writer' = NoBuffer
  /\ bufs' = IF IsSingleton(bufs, writer)
             THEN DestroySingletonBuffer(bufs, writer)
             ELSE MakeAvailable(bufs, writer)
  /\ UNCHANGED <<is_closing_, waiting, pc, arg, exchange, held, unused, content,
                 queue, file>>

RecycleBuffer ==
  /\ writer # NoBuffer
  /\ writer' = NoBuffer
  /\ \/ /\ IsSingleton(bufs, writer)
        /\ bufs' = DestroySingletonBuffer(bufs, writer)
        /\ UNCHANGED pc
     \/ /\ ~IsSingleton(bufs, writer)
        /\ bufs' = MakeAvailable(bufs, writer)
        /\ \E W \in Released(1) : Wake(W)
  /\ UNCHANGED <<is_closing_, waiting, arg, exchange, held, unused, content,
                 queue, file>>

-----------------------------------------------------------------------------
NoBuffers ==
  [state     |-> [b \in Buffers |-> "none"],
   size      |-> [b \in Buffers |-> 0],
   counts    |-> [s \in BufferState |-> 0],
   available |-> <<>>]

Init ==
  /\ bufs = NoBuffers
  /\ is_closing_ = FALSE
  /\ waiting = 0
  /\ pc = [t \in Threads |-> "idle"]
  /\ arg = [t \in Threads |-> NoBuffer]
  /\ exchange = [t \in Threads |-> FALSE]
  /\ held = [t \in Threads |-> {}]
  /\ unused = Records
  /\ content = [b \in Buffers |-> Empty]
  /\ queue = <<>>
  /\ writer = NoBuffer
  /\ file = <<>>

(* The session is gone; nothing is left to happen.                         *)
Done == Destroyed /\ UNCHANGED vars

Next ==
  \/ \E t \in Threads : \/ AllocateBuffer(t)
                        \/ WakeUp(t)
                        \/ SpuriousWakeup(t)
                        \/ FindBuffer(t)
                        \/ ReturnBuffer(t)
                        \/ ConsumeBuffer(t)
                        \/ ExchangeBuffer(t)
                        \/ Fill(t)
  \/ Close
  \/ WriteBuffer
  \/ RecycleBuffer
  \/ Done

Spec == Init /\ [][Next]_vars

(* The writer's message loop runs every task posted to it, and an RPC      *)
(* thread inside a call keeps running unless it is blocked in Wait.        *)
Fairness ==
  /\ WF_vars(WriteBuffer) /\ WF_vars(RecycleBuffer)
  /\ \A t \in Threads : /\ WF_vars(WakeUp(t)) /\ WF_vars(ReturnBuffer(t))
                        /\ WF_vars(ConsumeBuffer(t)) /\ WF_vars(ExchangeBuffer(t))

FairSpec == Spec /\ Fairness

-----------------------------------------------------------------------------
(* Properties.                                                             *)

Pointer == Buffers \union {NoBuffer}

Bookkeeping ==
  [state     : [Buffers -> BufferState \union {"none", "deleted"}],
   size      : [Buffers -> Nat],
   counts    : [BufferState -> Nat],
   available : Seq(Buffers)]

(* The type of every variable of the session.                              *)
TypeOK ==
  /\ bufs \in Bookkeeping
  /\ is_closing_ \in BOOLEAN
  /\ waiting \in Nat
  /\ pc \in [Threads -> {"idle", "wait", "woken", "return", "consume", "exchange"}]
  /\ arg \in [Threads -> Pointer]
  /\ exchange \in [Threads -> BOOLEAN]
  /\ held \in [Threads -> SUBSET Buffers]
  /\ unused \in SUBSET Records
  /\ content \in [Buffers -> Records \union {Empty, Ended}]
  /\ queue \in Seq(Buffers)
  /\ writer \in Pointer
  /\ file \in Seq(Records \union {Ended})

(* The buffers in each stage of their way through the session.             *)
Held == {b \in Buffers : \E t \in Threads : b \in held[t]}
At(where) == {t \in Threads : pc[t] = where}
Returning == {arg[t] : t \in At("return")}
Consuming == {arg[t] : t \in At("consume")}
Writing == {writer} \ {NoBuffer}

IsConsistent(p) ==
  /\ \A s \in BufferState : p.counts[s] = Cardinality(InState(p, s))
  /\ IsInjective(p.available)
  /\ Range(p.available) = InState(p, "kAvailable")

(* BufferBookkeepingIsConsistent and the DCHECKs of RecycleBuffer, made    *)
(* exact: each count is the number of buffers in that state, and           *)
(* buffers_available_ lists every available buffer exactly once.           *)
BookkeepingIsConsistent == IsConsistent(bufs)

(* Whatever fails, a buffer that a thread is about to post, a posted task  *)
(* or the writer refers to is write-pending, and only one of them refers   *)
(* to it: no buffer is written or recycled twice, nor recycled while a     *)
(* task still refers to it.                                                *)
TasksAreDistinct ==
  /\ IsInjective(queue)
  /\ \A t, u \in At("consume") : arg[t] = arg[u] => t = u
  /\ Range(queue) \intersect (Consuming \union Writing) = {}
  /\ Consuming \intersect Writing = {}
  /\ Range(queue) \union Consuming \union Writing \subseteq
       InState(bufs, "kPendingWrite")

(* Unless a buffer cannot be mapped, every write-pending buffer is in the  *)
(* hands of exactly one of them: none is forgotten.                        *)
PendingWriteHasOneTask ==
  /\ TasksAreDistinct
  /\ "map" \notin Failures =>
       InState(bufs, "kPendingWrite") = Range(queue) \union Consuming \union Writing

(* Until the session closes, a buffer in use belongs to exactly one client *)
(* thread: two threads never write events into the same shared memory.     *)
InUseHasOneClient ==
  ~is_closing_ =>
    /\ InState(bufs, "kInUse") = Held \union Returning
    /\ Held \intersect Returning = {}
    /\ \A t, u \in Threads : t # u => held[t] \intersect held[u] = {}
    /\ \A t, u \in At("return") : arg[t] = arg[u] => t = u

(* "There can only be as many of them as there are buffers to be recycled  *)
(* until we fall below the back-pressure cap" (session.h): every request   *)
(* blocked in Wait has a write-pending buffer of its own above the cap, so *)
(* that a recycled buffer is still to come for it.                         *)
WaitersAreCovered == Cardinality(Waiters) <= BuffersForceRecyclable

(* ~Session expects every buffer to be available and none outstanding.     *)
DestroyedWithAllAvailable ==
  Destroyed => Allocated(bufs) = InState(bufs, "kAvailable")

(* The process ended event closes the trace: every segment that is written *)
(* precedes it in the file.                                                *)
EndedIsLast ==
  \A i \in DOMAIN file : file[i] = Ended => i = Len(file)

(* The DCHECK of ChangeBufferState: a buffer only moves from available to  *)
(* in use to write-pending and back, apart from its allocation and the     *)
(* deletion of a singleton that has been written.  Only Close takes a      *)
(* buffer and makes it write-pending in one step.                          *)
BufferStatesCycle ==
  [][\A b \in Buffers :
       <<bufs.state[b], bufs'.state[b]>> \in
         {<<s, s>> : s \in BufferState \union {"none", "deleted"}} \union
         {<<"none", "kAvailable">>, <<"none", "kInUse">>,
          <<"kAvailable", "kInUse">>, <<"kInUse", "kPendingWrite">>,
          <<"kPendingWrite", "kAvailable">>, <<"kPendingWrite", "deleted">>} \union
         (IF is_closing_' # is_closing_
          THEN {<<"none", "kPendingWrite">>, <<"kAvailable", "kPendingWrite">>}
          ELSE {})]_vars

(* Whatever fails, no segment is written to the trace file twice: the      *)
(* header of a buffer is cleared before the buffer is recycled.            *)
WrittenAtMostOnce == IsInjective(file)

(* A request that applies back-pressure is eventually answered.            *)
WaitersReturn == \A t \in Threads : pc[t] = "wait" ~> pc[t] = "idle"

(* "The session that owns the buffer will be notified when the consumption *)
(* has completed via a call to Session::RecycleBuffer" (buffer_consumer.h) *)
PendingWriteIsRecycled ==
  \A b \in Buffers :
    bufs.state[b] = "kPendingWrite" ~> bufs.state[b] # "kPendingWrite"

(* A session that is closed is eventually destroyed, which Service::Stop   *)
(* waits for.                                                              *)
ClosedIsDestroyed == is_closing_ ~> Destroyed

(* The session implements TraceLog: a segment is accepted when its buffer  *)
(* becomes write-pending and stays so until the writer takes it.           *)
Unwritten ==
  {content[b] : b \in Range(queue) \union Consuming} \ {Empty}

Log == INSTANCE TraceLog WITH Segments <- Records \union {Ended},
                              accepted <- Unwritten, log <- file

(* Every segment returned to the session, or outstanding when it closes,   *)
(* is eventually written to the trace file, and exactly once.              *)
ImplementsFairTraceLog == Log!FairSpec
=============================================================================
