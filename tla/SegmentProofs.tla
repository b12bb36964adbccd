--------------------------- MODULE SegmentProofs ----------------------------
(***************************************************************************)
(* Module Session for every value of its constants, from the invariants    *)
(* and the cycle of module SessionProofs: the segments of the trace file,  *)
(* the refinement of TraceLog, and back-pressure.                          *)
(***************************************************************************)
EXTENDS SessionProofs

-----------------------------------------------------------------------------
(***************************************************************************)
(* The segments of the trace file: none is written twice.  When the calls  *)
(* are serialised the process ended event is the last, and the session     *)
(* leaves no buffer behind.                                                *)
(***************************************************************************)

(* A segment is in one place: still to be written by the client, in one    *)
(* buffer, or in the file once.  The process ended event is nowhere before *)
(* the session closes.                                                     *)
SegmentsAreOnce ==
  /\ IsInjective(file)
  /\ unused \intersect Range(file) = {}
  /\ \A b \in Buffers : content[b] # Empty =>
       /\ content[b] \notin unused /\ content[b] \notin Range(file)
       /\ \A c \in Buffers : content[c] = content[b] => c = b
  /\ ~is_closing_ => Ended \notin Range(file) /\ \A b \in Buffers : content[b] # Ended

(* A new session has no segment in a buffer or in the file.                *)
LEMMA SegmentsInit == Init => SegmentsAreOnce
<1> SUFFICES ASSUME Init PROVE SegmentsAreOnce  BY Zenon
<1>1. Range(file) = {} /\ IsInjective(file)  BY DEF Init, Range, IsInjective
<1> QED  BY <1>1, SessionAssumption, Zenon DEF Init, SegmentsAreOnce

(* A step that touches neither the segments nor is_closing_.               *)
LEMMA SegmentsStay ==
  ASSUME SegmentsAreOnce, unused' = unused, content' = content, file' = file,
         is_closing_' = is_closing_
  PROVE  SegmentsAreOnce'
  BY Zenon DEF SegmentsAreOnce

(* The client takes a segment that was nowhere else.                       *)
LEMMA FillKeepsSegments ==
  ASSUME SessionInv, SegmentsAreOnce, NEW t \in Threads, Fill(t)
  PROVE  SegmentsAreOnce'
<1>1. PICK b \in Buffers, r \in unused :
        content[b] = Empty /\ content' = [content EXCEPT ![b] = r] /\ unused' = unused \ {r}
  BY Zenon DEF Fill, SessionInv, TypeOK
<1>2. file' = file /\ is_closing_' = is_closing_  BY Zenon DEF Fill
<1>3. r # Empty /\ r # Ended /\ r \notin unused'
  BY <1>1, SessionAssumption, Zenon DEF SessionInv, TypeOK
<1>4. content'[b] = r /\ \A c \in Buffers \ {b} : content'[c] = content[c]
  BY <1>1, Zenon DEF SessionInv, TypeOK
<1>5. \A c \in Buffers : content[c] # r  BY <1>3, Zenon DEF SegmentsAreOnce
<1>6. ASSUME NEW c \in Buffers, content'[c] # Empty
      PROVE  /\ content'[c] \notin unused' /\ content'[c] \notin Range(file')
             /\ \A d \in Buffers : content'[d] = content'[c] => d = c
  <2>1. CASE c = b  BY <1>1, <1>2, <1>3, <1>4, <1>5, <2>1, Zenon DEF SegmentsAreOnce
  <2>2. CASE c # b
    <3>1. content'[c] = content[c]  BY <1>4, <2>2, Zenon
    <3>2. /\ content[c] \notin unused /\ content[c] \notin Range(file)
          /\ \A d \in Buffers : content[d] = content[c] => d = c
      BY <1>6, <3>1, Zenon DEF SegmentsAreOnce
    <3>3. \A d \in Buffers : content'[d] = content[c] => d = c
      BY <1>4, <1>5, <3>2, Zenon
    <3> QED  BY <1>1, <1>2, <3>1, <3>2, <3>3
  <2> QED  BY <2>1, <2>2, Zenon
<1> QED  BY <1>1, <1>2, <1>3, <1>4, <1>6, Zenon DEF SegmentsAreOnce

(* The writer empties the buffer whose segment it writes.                  *)
LEMMA WriteBufferKeepsSegments ==
  ASSUME SessionInv, SegmentsAreOnce, WriteBuffer
  PROVE  SegmentsAreOnce'
<1>1. unused' = unused /\ is_closing_' = is_closing_  BY Zenon DEF WriteBuffer
<1>2. PICK b : b = Head(queue)  BY Zenon
<1>3. b \in Buffers  BY <1>2 DEF WriteBuffer, SessionInv, TypeOK
<1>4. CASE content' = content /\ file' = file
  BY <1>1, <1>4, SegmentsStay, Zenon
<1>5. CASE content' = [content EXCEPT ![b] = Empty] /\ WriteRecord(content[b])
  <2>1. content'[b] = Empty /\ \A c \in Buffers \ {b} : content'[c] = content[c]
    BY <1>3, <1>5, Zenon DEF SessionInv, TypeOK
  <2>2. \A c \in Buffers : content'[c] # Empty => c # b /\ content'[c] = content[c]
    BY <2>1, Zenon
  <2>3. CASE file' = file
    BY <1>1, <2>2, <2>3, SessionAssumption, Zenon DEF SegmentsAreOnce
  <2>4. CASE content[b] # Empty /\ file' = Append(file, content[b])
    <3>1. PICK r : r = content[b]  BY Zenon
    <3>2. PICK S : S = Records \union {Ended}  BY Zenon
    <3>3. r \in S /\ file \in Seq(S) /\ IsInjective(file) /\ r \notin Range(file)
      BY <1>3, <2>4, <3>1, <3>2, Zenon DEF SessionInv, TypeOK, SegmentsAreOnce
    <3>4. IsInjective(file') /\ Range(file') = Range(file) \union {r}
      BY <2>4, <3>1, <3>3, AppendIsInjective
    <3>5. r \notin unused /\ \A c \in Buffers \ {b} : content[c] # r
      BY <1>3, <2>4, <3>1, Zenon DEF SegmentsAreOnce
    <3>6. ~is_closing_ => r # Ended  BY <1>3, <3>1, Zenon DEF SegmentsAreOnce
    <3> QED
      BY <1>1, <2>2, <3>4, <3>5, <3>6, SessionAssumption, Zenon DEF SegmentsAreOnce
  <2> QED  BY <1>5, <2>3, <2>4, Zenon DEF WriteRecord
<1> QED  BY <1>2, <1>4, <1>5, Zenon DEF WriteBuffer

-----------------------------------------------------------------------------
(* What Close does, for what follows: q the tasks once the buffers in use  *)
(* are posted.                                                             *)
Posts(q) ==
  \/ queue' = q /\ content' = content
  \/ \E b \in Buffers :
       /\ bufs.state[b] \notin {"kInUse", "kPendingWrite"}
       /\ queue' = Append(q, b)
       /\ content' = [content EXCEPT ![b] = Ended]

(* The process ended event goes to a buffer that was available.            *)
LEMMA EventEffect ==
  ASSUME NEW p \in Bookkeeping, IsConsistent(p), p.available # <<>>, NEW q,
         WriteEndedEvent(p, q)
  PROVE  \/ queue' = q /\ content' = content /\ "map" \in Failures
         \/ \E b \in InState(p, "kAvailable") :
              /\ queue' = Append(q, b) /\ content' = [content EXCEPT ![b] = Ended]
              /\ InState(bufs', "kInUse") = InState(p, "kInUse")
<1>1. PICK b, r : b = Head(p.available) /\ r = TakeAvailable(p)  BY Zenon
<1>2. /\ r \in Bookkeeping /\ IsConsistent(r) /\ b \in InState(p, "kAvailable")
      /\ b \notin InState(p, "kInUse")
      /\ InState(r, "kInUse") = InState(p, "kInUse") \union {b}
  BY <1>1, TakeAvailableConsistent, Zenon
<1>3. CASE /\ bufs' = ChangeBufferState(r, "kPendingWrite", b)
           /\ content' = [content EXCEPT ![b] = Ended]
           /\ queue' = Append(q, b)
  <2>1. b \in InState(r, "kInUse")  BY <1>2, Zenon
  <2>2. InState(bufs', "kInUse") = InState(r, "kInUse") \ {b}
    BY <1>2, <1>3, <2>1, ReturnConsistent, SMTT(30)
  <2>3. InState(bufs', "kInUse") = InState(p, "kInUse")  BY <1>2, <2>2, Zenon
  <2> QED  BY <1>2, <1>3, <2>3, Zenon
<1> QED  BY <1>1, <1>3, Zenon DEF WriteEndedEvent

(* Close posts the buffers in use and then the event, and wakes at most a  *)
(* request that waits.                                                     *)
LEMMA CloseEffect ==
  ASSUME SessionInv, Close
  PROVE  /\ is_closing_' = TRUE /\ unused' = unused /\ file' = file /\ arg' = arg
         /\ writer' = writer
         /\ \A t \in Threads : pc'[t] = pc[t] \/ (pc[t] = "wait" /\ pc'[t] = "woken")
         /\ \E q \in Seq(Buffers) :
              /\ Range(q) = Range(queue) \union InState(bufs, "kInUse") /\ IsInjective(q)
              /\ Posts(q)
         /\ "map" \notin Failures => InState(bufs', "kInUse") = {}
<1>1. /\ is_closing_' = TRUE /\ unused' = unused /\ file' = file /\ arg' = arg
      /\ writer' = writer
  BY Zenon DEF Close
<1>2. bufs \in Bookkeeping /\ IsConsistent(bufs) /\ queue \in Seq(Buffers)
  BY Zenon DEF SessionInv, TypeOK, BookkeepingIsConsistent
<1>3. TasksAreDistinct  BY Zenon DEF SessionInv, PendingWriteHasOneTask
<1>4. PICK inUse, n : inUse = InState(bufs, "kInUse") /\ n = Cardinality(inUse)
  BY Zenon
<1>5. PICK order \in Bijection(1 .. n, inUse) :
        CreateProcessEndedEvent(FlushInUse(bufs), queue \o order)
  BY <1>4, Zenon DEF Close
<1>6. PICK p, q : p = FlushInUse(bufs) /\ q = queue \o order  BY Zenon
<1>7. /\ p \in Bookkeeping /\ IsConsistent(p)
      /\ p.state = [b \in Buffers |-> IF bufs.state[b] = "kInUse"
                                      THEN "kPendingWrite" ELSE bufs.state[b]]
  BY <1>2, <1>6, FlushInUseConsistent, Zenon
<1>8. /\ InState(p, "kInUse") = {} /\ inUse \subseteq Buffers
      /\ InState(bufs, "kPendingWrite") \intersect inUse = {} /\ Fresh(p) = Fresh(bufs)
      /\ \A b \in Buffers : p.state[b] \in {"none", "kAvailable"} =>
           bufs.state[b] \notin {"kInUse", "kPendingWrite"}
  BY <1>4, <1>7, Zenon DEF InState, Fresh
<1>9. order \in Seq(Buffers) /\ IsInjective(order) /\ Range(order) = inUse
  <2>1. /\ order \in [1 .. n -> inUse] /\ IsInjective(order)
        /\ \A b \in inUse : \E i \in 1 .. n : order[i] = b
    BY Zenon DEF Bijection, Injection, Surjection
  <2>2. n \in Nat  BY <1>4, InStateFinite, Zenon
  <2>3. order \in Seq(Buffers)  BY <1>8, <2>1, <2>2
  <2> QED  BY <2>1, <2>3, Zenon DEF Range
<1>10. q \in Seq(Buffers) /\ IsInjective(q) /\ Range(q) = Range(queue) \union inUse
  <2>1. IsInjective(queue) /\ Range(queue) \intersect Range(order) = {}
    BY <1>3, <1>8, <1>9, Zenon DEF TasksAreDistinct
  <2>2. IsInjective(q)  BY <1>2, <1>6, <1>9, <2>1, ConcatInjective, Zenon
  <2>3. Range(q) = Range(queue) \union inUse  BY <1>2, <1>6, <1>9, RangeConcatenation
  <2>4. q \in Seq(Buffers)  BY <1>2, <1>6, <1>9, ConcatProperties, Zenon
  <2> QED  BY <2>2, <2>3, <2>4, Zenon
<1>11. CreateProcessEndedEvent(p, q)  BY <1>5, <1>6, Zenon
<1>12. \A W : W \in SUBSET Waiters /\ Wake(W) =>
         \A t \in Threads : pc'[t] = pc[t] \/ (pc[t] = "wait" /\ pc'[t] = "woken")
  BY Zenon DEF Wake, Waiters
<1>13. ASSUME NEW r \in Bookkeeping, IsConsistent(r), r.available # <<>>,
              InState(r, "kInUse") = {}, WriteEndedEvent(r, q),
              \A b \in InState(r, "kAvailable") : p.state[b] \in {"none", "kAvailable"}
       PROVE  Posts(q) /\ ("map" \notin Failures => InState(bufs', "kInUse") = {})
  <2>1. \A b \in InState(r, "kAvailable") :
          b \in Buffers /\ bufs.state[b] \notin {"kInUse", "kPendingWrite"}
    BY <1>8, <1>13, Zenon DEF InState
  <2>2. \/ queue' = q /\ content' = content /\ "map" \in Failures
        \/ \E b \in InState(r, "kAvailable") :
             /\ queue' = Append(q, b) /\ content' = [content EXCEPT ![b] = Ended]
             /\ InState(bufs', "kInUse") = InState(r, "kInUse")
    BY <1>13, EventEffect, Zenon
  <2> QED  BY <1>13, <2>1, <2>2, Zenon DEF Posts
<1>14. CASE p.available # <<>> /\ WriteEndedEvent(p, q) /\ UNCHANGED pc
  <2>1. \A b \in InState(p, "kAvailable") : p.state[b] \in {"none", "kAvailable"}
    BY Zenon DEF InState
  <2>2. Posts(q) /\ ("map" \notin Failures => InState(bufs', "kInUse") = {})
    BY <1>7, <1>8, <1>13, <1>14, <2>1, Zenon
  <2> QED  BY <1>1, <1>4, <1>10, <1>14, <2>2, Zenon
<1>15. CASE \E pool \in NewPools(1), W \in Released(1) :
              WriteEndedEvent(AllocateBuffers(p, pool, EventSize), q) /\ Wake(W)
  <2>1. PICK pool \in NewPools(1), W \in Released(1) :
          WriteEndedEvent(AllocateBuffers(p, pool, EventSize), q) /\ Wake(W)
    BY <1>15, Zenon
  <2>2. PICK r : r = AllocateBuffers(p, pool, EventSize)  BY Zenon
  <2>3. r \in Bookkeeping /\ IsConsistent(r) /\ r.available # <<>>
    BY <1>7, <1>8, <2>2, NewEventBuffer, Zenon
  <2>4. pool \in PoolsOf(p, 1)  BY <1>8, Zenon DEF NewPools, PoolsOf
  <2>5. Adds(p, r)  BY <1>7, <2>2, <2>4, AllocateBuffersAdds, Zenon
  <2>6. /\ InState(r, "kInUse") = {}
        /\ \A b \in InState(r, "kAvailable") : p.state[b] \in {"none", "kAvailable"}
    BY <1>8, <2>5, Zenon DEF Adds, InState
  <2>7. Posts(q) /\ ("map" \notin Failures => InState(bufs', "kInUse") = {})
    BY <1>13, <2>1, <2>2, <2>3, <2>6, Zenon
  <2>8. W \in SUBSET Waiters  BY ReleasedAreWaiters, Zenon
  <2> QED  BY <1>1, <1>4, <1>10, <1>12, <2>1, <2>7, <2>8, Zenon
<1>16. CASE bufs' = p /\ queue' = q /\ UNCHANGED <<content, pc>>
  BY <1>1, <1>4, <1>8, <1>10, <1>16, Zenon DEF Posts
<1> QED  BY <1>11, <1>14, <1>15, <1>16, Zenon DEF CreateProcessEndedEvent

(* Close adds the process ended event, which was nowhere.                  *)
LEMMA CloseKeepsSegments ==
  ASSUME SessionInv, SegmentsAreOnce, Close
  PROVE  SegmentsAreOnce'
<1>1. is_closing_' = TRUE /\ unused' = unused /\ file' = file  BY CloseEffect, Zenon
<1>2. PICK q : Posts(q)  BY CloseEffect, Zenon
<1>3. ~is_closing_  BY Zenon DEF Close
<1>4. CASE content' = content
  BY <1>1, <1>4, Zenon DEF SegmentsAreOnce
<1>5. CASE \E b \in Buffers : content' = [content EXCEPT ![b] = Ended]
  <2>1. PICK b \in Buffers : content' = [content EXCEPT ![b] = Ended]  BY <1>5, Zenon
  <2>2. content'[b] = Ended /\ \A c \in Buffers \ {b} : content'[c] = content[c]
    BY <2>1, Zenon DEF SessionInv, TypeOK
  <2>3. Ended \notin unused  BY SessionAssumption, Zenon DEF SessionInv, TypeOK
  <2>4. Ended \notin Range(file) /\ \A c \in Buffers : content[c] # Ended
    BY <1>3, Zenon DEF SegmentsAreOnce
  <2> QED  BY <1>1, <2>2, <2>3, <2>4, Zenon DEF SegmentsAreOnce
<1> QED  BY <1>2, <1>4, <1>5, Zenon DEF Posts

(* Every step of the session.                                              *)
LEMMA NextKeepsSegments ==
  ASSUME SessionInv, SegmentsAreOnce, [Next]_vars PROVE SegmentsAreOnce'
<1>1. CASE UNCHANGED vars
  BY <1>1, SegmentsStay, Zenon DEF vars
<1>2. ASSUME NEW t \in Threads, AllocateBuffer(t) \/ ExchangeBuffer(t) \/ WakeUp(t)
      PROVE  SegmentsAreOnce'
  BY <1>2, SegmentsStay, Zenon DEF AllocateBuffer, ExchangeBuffer, WakeUp, UnchangedButBuffers
<1>3. ASSUME NEW t \in Threads, SpuriousWakeup(t) \/ FindBuffer(t) PROVE SegmentsAreOnce'
  BY <1>3, SegmentsStay, Zenon DEF SpuriousWakeup, FindBuffer, UnchangedButBuffers
<1>4. ASSUME NEW t \in Threads, ReturnBuffer(t) \/ ConsumeBuffer(t) PROVE SegmentsAreOnce'
  BY <1>4, SegmentsStay, Zenon DEF ReturnBuffer, ConsumeBuffer
<1>5. CASE RecycleBuffer
  BY <1>5, SegmentsStay, Zenon DEF RecycleBuffer
<1> QED
  BY <1>1, <1>2, <1>3, <1>4, <1>5, FillKeepsSegments, CloseKeepsSegments,
     WriteBufferKeepsSegments, Zenon DEF Next, Done

(* Segments are in one place in every reachable state.                     *)
LEMMA SegmentInvariant == Spec => []SegmentsAreOnce
  BY SegmentsInit, NextKeepsSegments, SessionInvariant, PTL DEF Spec

(* The header of a buffer is cleared before the buffer is recycled, so     *)
(* that, whatever fails, no segment is written to the trace file twice.    *)
THEOREM WrittenOnce == Spec => []WrittenAtMostOnce
<1>1. SegmentsAreOnce => WrittenAtMostOnce  BY Zenon DEF SegmentsAreOnce, WrittenAtMostOnce
<1> QED  BY <1>1, SegmentInvariant, PTL

-----------------------------------------------------------------------------
(* Calls that the RPC runtime serialises: once the session is closed no    *)
(* thread is inside a call, the process ended event is the last of the     *)
(* tasks, and unless a buffer cannot be mapped none is left in use.        *)
ClosedForGood ==
  /\ is_closing_ => Idle
  /\ \A i \in DOMAIN queue : content[queue[i]] = Ended => i = Len(queue)
  /\ Ended \in Range(file) => queue = <<>>
  /\ EndedIsLast
  /\ is_closing_ /\ "map" \notin Failures => InState(bufs, "kInUse") = {}

SerialInv == Serialized => ClosedForGood

(* An open session has no process ended event anywhere.                    *)
LEMMA OpenSession ==
  ASSUME SessionInv', SegmentsAreOnce', ~is_closing_' PROVE ClosedForGood'
<1>1. Ended \notin Range(file') /\ \A b \in Buffers : content'[b] # Ended
  BY Zenon DEF SegmentsAreOnce
<1>2. \A i \in DOMAIN queue' : queue'[i] \in Buffers
  BY DEF SessionInv, TypeOK
<1>3. \A i \in DOMAIN file' : file'[i] # Ended  BY <1>1, Zenon DEF Range
<1> QED  BY <1>1, <1>2, <1>3, Zenon DEF ClosedForGood, EndedIsLast

(* A new session.                                                          *)
LEMMA SerialInit == Init => SerialInv
<1> SUFFICES ASSUME Init PROVE ClosedForGood  BY Zenon DEF SerialInv
<1>1. DOMAIN queue = {} /\ DOMAIN file = {}  BY DEF Init
<1>2. ~is_closing_ /\ queue = <<>>  BY Zenon DEF Init
<1> QED  BY <1>1, <1>2, Zenon DEF ClosedForGood, EndedIsLast, Range

(* Close finds no call in progress and posts the event last.               *)
LEMMA CloseIsForGood ==
  ASSUME SessionInv, SegmentsAreOnce, Serialized, Close
  PROVE  ClosedForGood'
<1>1. Idle /\ ~is_closing_  BY Zenon DEF Close
<1>2. /\ file' = file
      /\ \A t \in Threads : pc'[t] = pc[t] \/ (pc[t] = "wait" /\ pc'[t] = "woken")
      /\ "map" \notin Failures => InState(bufs', "kInUse") = {}
  BY CloseEffect, Zenon
<1>3. Idle'  BY <1>1, <1>2 DEF Idle
<1>4. Ended \notin Range(file) /\ \A b \in Buffers : content[b] # Ended
  BY <1>1, Zenon DEF SegmentsAreOnce
<1>5. \A i \in DOMAIN file : file[i] # Ended  BY <1>4, Zenon DEF Range
<1>6. PICK q \in Seq(Buffers) :
        Range(q) = Range(queue) \union InState(bufs, "kInUse") /\ Posts(q)
  BY CloseEffect, Zenon
<1>7. \A i \in DOMAIN q : q[i] \in Buffers /\ q[i] \in Range(q)
  BY DEF Range
<1>8. \A i \in DOMAIN queue' : content'[queue'[i]] = Ended => i = Len(queue')
  <2>1. CASE queue' = q /\ content' = content
    BY <1>4, <1>7, <2>1, Zenon
  <2>2. CASE \E b \in Buffers :
               /\ bufs.state[b] \notin {"kInUse", "kPendingWrite"}
               /\ queue' = Append(q, b)
               /\ content' = [content EXCEPT ![b] = Ended]
    <3>1. PICK b \in Buffers :
            /\ bufs.state[b] \notin {"kInUse", "kPendingWrite"}
            /\ queue' = Append(q, b)
            /\ content' = [content EXCEPT ![b] = Ended]
      BY <2>2, Zenon
    <3>2. Range(queue) \subseteq InState(bufs, "kPendingWrite")
      BY Zenon DEF SessionInv, PendingWriteHasOneTask, TasksAreDistinct
    <3>3. b \notin Range(q)  BY <1>6, <3>1, <3>2, Zenon DEF InState
    <3>4. \A i \in DOMAIN q : content'[q[i]] # Ended
      BY <1>4, <1>7, <3>1, <3>3, Zenon DEF SessionInv, TypeOK
    <3>5. /\ Len(queue') = Len(q) + 1 /\ DOMAIN queue' = 1 .. Len(q) + 1
          /\ Len(q) \in Nat /\ DOMAIN q = 1 .. Len(q)
          /\ \A i \in 1 .. Len(q) : queue'[i] = q[i]
      BY <3>1
    <3> QED  BY <3>4, <3>5
  <2> QED  BY <1>6, <2>1, <2>2, Zenon DEF Posts
<1> QED  BY <1>2, <1>3, <1>4, <1>5, <1>8, Zenon DEF ClosedForGood, EndedIsLast

(* The writer takes the event last and writes nothing after it.            *)
LEMMA WriteBufferIsForGood ==
  ASSUME SessionInv, ClosedForGood, WriteBuffer
  PROVE  ClosedForGood'
<1>1. /\ is_closing_' = is_closing_ /\ pc' = pc /\ bufs' = bufs
      /\ queue # <<>> /\ queue' = Tail(queue)
  BY Zenon DEF WriteBuffer
<1>2. PICK b : b = Head(queue)  BY Zenon
<1>3. /\ Len(queue) \in Nat \ {0} /\ b \in Buffers /\ b = queue[1] /\ 1 \in DOMAIN queue
      /\ Len(queue') = Len(queue) - 1 /\ DOMAIN queue' = 1 .. Len(queue) - 1
      /\ \A i \in DOMAIN queue' : i + 1 \in DOMAIN queue /\ queue'[i] = queue[i + 1]
                                  /\ queue'[i] \in Buffers
  BY <1>1, <1>2 DEF SessionInv, TypeOK
<1>4. Ended \notin Range(file) /\ \A i \in DOMAIN file : file[i] # Ended
  BY <1>1, Zenon DEF ClosedForGood, Range
<1>5. \A c \in Buffers : content'[c] = Ended => content[c] = Ended
  <2>1. content' = content \/ content' = [content EXCEPT ![b] = Empty]
    BY <1>2, Zenon DEF WriteBuffer
  <2> QED  BY <2>1, SessionAssumption, Zenon DEF SessionInv, TypeOK
<1>6. \A i \in DOMAIN queue' : content'[queue'[i]] = Ended => i = Len(queue')
  <2>1. \A i \in DOMAIN queue' : content'[queue'[i]] = Ended => i + 1 = Len(queue)
    <3> SUFFICES ASSUME NEW i \in DOMAIN queue', content'[queue'[i]] = Ended
                 PROVE  i + 1 = Len(queue)
      BY Zenon
    <3>1. PICK j : j = i + 1  BY Zenon
    <3>2. j \in DOMAIN queue /\ queue'[i] = queue[j] /\ queue'[i] \in Buffers
      BY <1>3, <3>1
    <3>3. content[queue'[i]] = Ended  BY <1>5, <3>2, Zenon
    <3> QED  BY <3>1, <3>2, <3>3 DEF ClosedForGood
  <2> QED  BY <1>3, <2>1
<1>7. (Ended \in Range(file') => queue' = <<>>) /\ EndedIsLast'
  <2>1. CASE file' = file  BY <1>4, <2>1, Zenon DEF EndedIsLast
  <2>2. CASE file' = Append(file, content[b])
    <3>1. PICK r, S : r = content[b] /\ S = Records \union {Ended}  BY Zenon
    <3>2. /\ Len(file) \in Nat /\ DOMAIN file = 1 .. Len(file)
          /\ Len(file') = Len(file) + 1 /\ DOMAIN file' = 1 .. Len(file) + 1
          /\ file'[Len(file) + 1] = r /\ \A i \in 1 .. Len(file) : file'[i] = file[i]
      <4>1. file \in Seq(S) /\ file' = Append(file, r)
        BY <2>2, <3>1, Zenon DEF SessionInv, TypeOK
      <4> QED  BY <4>1
    <3>3. \A i \in DOMAIN file' : file'[i] = Ended => i = Len(file') /\ r = Ended
      BY <1>4, <3>2
    <3>4. r = Ended => queue' = <<>>
      <4>1. r = Ended => 1 = Len(queue)  BY <1>3, <3>1, Zenon DEF ClosedForGood
      <4>2. queue' \in Seq(Buffers)  BY <1>1 DEF SessionInv, TypeOK
      <4>3. Len(queue') = Len(queue) - 1 /\ 1 - 1 = 0  BY <1>3
      <4>4. r = Ended => Len(queue') = 0  BY <4>1, <4>3, Zenon
      <4> QED  BY <4>2, <4>4, EmptySeq, Zenon
    <3> QED  BY <3>3, <3>4, Zenon DEF EndedIsLast, Range
  <2> QED  BY <1>2, <2>1, <2>2, Zenon DEF WriteBuffer, WriteRecord
<1> QED  BY <1>1, <1>6, <1>7, Zenon DEF ClosedForGood, Idle

(* The writer recycles a buffer that was write-pending, and no request is  *)
(* waiting for it.                                                         *)
LEMMA RecycleIsForGood ==
  ASSUME SessionInv, ClosedForGood, is_closing_, RecycleBuffer
  PROVE  ClosedForGood'
<1>1. is_closing_' = is_closing_ /\ queue' = queue /\ content' = content /\ file' = file
  BY Zenon DEF RecycleBuffer
<1>2. Idle  BY Zenon DEF ClosedForGood
<1>3. Idle'
  <2>1. Waiters = {}  BY <1>2 DEF Idle, Waiters
  <2>2. \A n : \A W \in Released(n) : W = {}  BY <2>1, ReleasedAreWaiters, Zenon
  <2>3. CASE UNCHANGED pc  BY <1>2, <2>3, Zenon DEF Idle
  <2>4. CASE \E W \in Released(1) : Wake(W)  BY <1>2, <2>2, <2>4, Zenon DEF Idle, Wake
  <2> QED  BY <2>3, <2>4, Zenon DEF RecycleBuffer
<1>4. InState(bufs', "kInUse") = InState(bufs, "kInUse")
  <2>1. bufs \in Bookkeeping  BY Zenon DEF SessionInv, TypeOK
  <2>2. writer \in InState(bufs, "kPendingWrite")
    BY Zenon DEF RecycleBuffer, SessionInv, PendingWriteHasOneTask, TasksAreDistinct, Writing
  <2>3. PICK s \in {"kAvailable", "deleted"} : bufs'.state = [bufs.state EXCEPT ![writer] = s]
    BY DEF RecycleBuffer, DestroySingletonBuffer, MakeAvailable, ChangeBufferState
  <2>4. Puts(bufs, bufs', writer, s)  BY <2>1, <2>2, <2>3, Zenon DEF Puts, Bookkeeping
  <2> QED  BY <2>2, <2>4 DEF Puts, InState
<1> QED  BY <1>1, <1>3, <1>4, Zenon DEF ClosedForGood, EndedIsLast

(* A late write of the client is not of the event.                         *)
LEMMA FillIsForGood ==
  ASSUME SessionInv, ClosedForGood, NEW t \in Threads, Fill(t)
  PROVE  ClosedForGood'
<1>1. /\ is_closing_' = is_closing_ /\ pc' = pc /\ bufs' = bufs /\ queue' = queue
      /\ file' = file
  BY Zenon DEF Fill
<1>2. \A c \in Buffers : content'[c] = Ended => content[c] = Ended
  <2>1. PICK b \in Buffers, r \in unused : content' = [content EXCEPT ![b] = r]
    BY Zenon DEF Fill, SessionInv, TypeOK
  <2>2. r # Ended  BY SessionAssumption, Zenon DEF SessionInv, TypeOK
  <2> QED  BY <2>1, <2>2, Zenon DEF SessionInv, TypeOK
<1>3. \A i \in DOMAIN queue : queue[i] \in Buffers  BY DEF SessionInv, TypeOK
<1> QED  BY <1>1, <1>2, <1>3, Zenon DEF ClosedForGood, EndedIsLast, Idle

(* Every step of the session.                                              *)
LEMMA NextIsSerial ==
  ASSUME SessionInv, SegmentsAreOnce, SerialInv, [Next]_vars, SessionInv', SegmentsAreOnce'
  PROVE  SerialInv'
<1> SUFFICES ASSUME Serialized PROVE ClosedForGood'  BY Zenon DEF SerialInv
<1>1. ClosedForGood  BY Zenon DEF SerialInv
<1>2. CASE ~is_closing_'  BY <1>2, OpenSession, Zenon
<1>3. CASE ~is_closing_ /\ is_closing_'
  <2>1. Close
    BY <1>3, Zenon DEF Next, vars, Done, AllocateBuffer, WakeUp, SpuriousWakeup, FindBuffer,
       ReturnBuffer, ConsumeBuffer, ExchangeBuffer, Fill, WriteBuffer, RecycleBuffer,
       UnchangedButBuffers
  <2> QED  BY <2>1, CloseIsForGood, Zenon
<1>4. CASE is_closing_
  <2>1. Idle  BY <1>1, <1>4, Zenon DEF ClosedForGood
  <2>2. ASSUME NEW t \in Threads
        PROVE  /\ ~AllocateBuffer(t) /\ ~FindBuffer(t)
               /\ ~WakeUp(t) /\ ~SpuriousWakeup(t) /\ ~ReturnBuffer(t) /\ ~ConsumeBuffer(t)
               /\ ~ExchangeBuffer(t)
    <3>1. pc[t] = "idle" /\ ~CanCall(t)  BY <1>4, <2>1, Zenon DEF Idle, CanCall
    <3> QED
      BY <3>1, Zenon DEF AllocateBuffer, FindBuffer, WakeUp, SpuriousWakeup, ReturnBuffer,
         ConsumeBuffer, ExchangeBuffer
  <2>3. CASE UNCHANGED vars
    BY <1>1, <2>3, Zenon DEF vars, ClosedForGood, EndedIsLast, Idle
  <2> QED
    BY <1>1, <1>4, <2>2, <2>3, FillIsForGood, WriteBufferIsForGood, RecycleIsForGood, Zenon
    DEF Next, Done, Close
<1> QED  BY <1>2, <1>3, <1>4, Zenon

(* The invariant of serialised calls holds in every reachable state.       *)
LEMMA SerialInvariant == Spec => []SerialInv
  BY SerialInit, NextIsSerial, SessionInvariant, SegmentInvariant, PTL DEF Spec

(* When the calls are serialised, the process ended event that Close posts *)
(* is the last segment of the trace file, whatever fails.                  *)
THEOREM EndedIsAlwaysLast == Spec => [](Serialized => EndedIsLast)
<1>1. SerialInv => (Serialized => EndedIsLast)  BY Zenon DEF SerialInv, ClosedForGood
<1> QED  BY <1>1, SerialInvariant, PTL

(* When the calls are serialised and every buffer can be mapped, ~Session  *)
(* finds every buffer available.                                           *)
THEOREM DestroyedAlwaysWithAllAvailable ==
  Spec => [](Serialized /\ "map" \notin Failures => DestroyedWithAllAvailable)
<1>1. SessionInv /\ SerialInv =>
        (Serialized /\ "map" \notin Failures => DestroyedWithAllAvailable)
  <2> SUFFICES ASSUME SessionInv, SerialInv, Serialized, "map" \notin Failures, Destroyed
               PROVE  Allocated(bufs) = InState(bufs, "kAvailable")
    BY Zenon DEF DestroyedWithAllAvailable
  <2>1. is_closing_ /\ Idle /\ queue = <<>> /\ writer = NoBuffer  BY Zenon DEF Destroyed
  <2>2. Range(queue) = {} /\ Consuming = {} /\ Writing = {}
    BY <2>1 DEF Range, Consuming, Writing, At, Idle
  <2>3. InState(bufs, "kPendingWrite") = {}
    BY <2>2, Zenon DEF SessionInv, PendingWriteHasOneTask
  <2>4. InState(bufs, "kInUse") = {}  BY <2>1, Zenon DEF SerialInv, ClosedForGood
  <2> QED  BY <2>3, <2>4, Zenon DEF Allocated, InState, BufferState
<1> QED  BY <1>1, SessionInvariant, SerialInvariant, PTL

-----------------------------------------------------------------------------
(* The session implements TraceLog when every buffer can be mapped and     *)
(* every write succeeds.                                                   *)
Tasks == Range(queue) \union Consuming

(* The segments accepted are those of the tasks.                           *)
LEMMA UnwrittenIs ==
  \A r : r \in Unwritten <=> r # Empty /\ \E b \in Tasks : r = content[b]
  BY Zenon DEF Unwritten, Tasks

(* A task refers to a buffer.                                              *)
LEMMA TasksAreBuffers ==
  ASSUME SessionInv PROVE Tasks \subseteq Buffers
  BY Zenon DEF SessionInv, PendingWriteHasOneTask, TasksAreDistinct, Tasks, InState

(* A step that forgets no task and no segment of one accepts whatever      *)
(* segments it adds.                                                       *)
LEMMA AcceptStep ==
  ASSUME SessionInv, SessionInv', SegmentsAreOnce', file' = file, Tasks \subseteq Tasks',
         \A b \in Tasks : content[b] # Empty => content'[b] = content[b]
  PROVE  Log!Next
<1>1. PICK S : S = Unwritten' \ Unwritten  BY Zenon
<1>2. \A r : r \in Unwritten' <=> r # Empty /\ \E b \in Tasks' : r = content'[b]
  BY Zenon DEF Unwritten, Tasks
<1>3. Unwritten \subseteq Unwritten'  BY <1>2, UnwrittenIs, Zenon
<1>4. Tasks' \subseteq Buffers
  BY Zenon DEF SessionInv, PendingWriteHasOneTask, TasksAreDistinct, Tasks, InState
<1>5. \A r \in Unwritten' : r \in Records \union {Ended} /\ r \notin Range(file)
  <2> SUFFICES ASSUME NEW r \in Unwritten'
               PROVE  r \in Records \union {Ended} /\ r \notin Range(file)
    BY Zenon
  <2>1. PICK b \in Buffers : r = content'[b] /\ r # Empty  BY <1>2, <1>4, Zenon
  <2>2. content'[b] \notin Range(file')  BY <2>1, Zenon DEF SegmentsAreOnce
  <2>3. content'[b] \in Records \union {Ended, Empty}  BY Zenon DEF SessionInv, TypeOK
  <2> QED  BY <2>1, <2>2, <2>3, Zenon
<1>6. S \in SUBSET (Records \union {Ended})  BY <1>1, <1>5, Zenon
<1>7. Log!Range(file) = Range(file)  BY Zenon DEF Log!Range, Range
<1>8. Log!Accept(S)  BY <1>1, <1>3, <1>5, <1>7, Zenon DEF Log!Accept
<1> QED  BY <1>6, <1>8, Zenon DEF Log!Next

(* The writer takes one task and writes its segment, if it has one.        *)
LEMMA WriteBufferRefines ==
  ASSUME SessionInv, SegmentsAreOnce, WriteBuffer, "map" \notin Failures,
         "write" \notin Failures
  PROVE  [Log!Next]_(Log!logVars)
<1>1. PICK b : b = Head(queue)  BY Zenon
<1>2. /\ queue # <<>> /\ queue' = Tail(queue) /\ pc' = pc /\ arg' = arg
      /\ content' = [content EXCEPT ![b] = Empty] /\ WriteRecord(content[b])
  BY <1>1, Zenon DEF WriteBuffer
<1>3. /\ IsInjective(queue) /\ queue \in Seq(Buffers)
      /\ Range(queue) \intersect Consuming = {}
  BY Zenon DEF SessionInv, TypeOK, PendingWriteHasOneTask, TasksAreDistinct
<1>4. b \in Range(queue) /\ Range(queue') = Range(queue) \ {b}
  BY <1>1, <1>2, <1>3, TailInjective, Zenon
<1>5. Consuming' = Consuming  BY <1>2, Zenon DEF Consuming, At
<1>6. b \in Tasks /\ Tasks' = Tasks \ {b}  BY <1>3, <1>4, <1>5, Zenon DEF Tasks
<1>7. b \in Buffers /\ Tasks \subseteq Buffers  BY <1>6, TasksAreBuffers, Zenon
<1>8. \A c \in Tasks' : content'[c] = content[c]
  BY <1>2, <1>6, <1>7, Zenon DEF SessionInv, TypeOK
<1>9. \A r : r \in Unwritten' <=> r # Empty /\ \E c \in Tasks' : r = content'[c]
  BY Zenon DEF Unwritten, Tasks
<1>10. \A r : r \in Unwritten' <=> r # Empty /\ \E c \in Tasks \ {b} : r = content[c]
  BY <1>6, <1>8, <1>9
<1>11. CASE content[b] = Empty /\ file' = file
  <2>1. Unwritten' = Unwritten  BY <1>10, <1>11, UnwrittenIs, Zenon
  <2> QED  BY <1>11, <2>1, Zenon DEF Log!logVars
<1>12. CASE content[b] # Empty /\ file' = Append(file, content[b])
  <2>1. PICK r : r = content[b]  BY Zenon
  <2>2. r \in Unwritten /\ r \in Records \union {Ended}
    BY <1>6, <1>7, <1>12, <2>1, UnwrittenIs, Zenon DEF SessionInv, TypeOK
  <2>3. \A c \in Tasks \ {b} : content[c] # r
    BY <1>7, <1>12, <2>1, Zenon DEF SegmentsAreOnce
  <2>4. Unwritten' = Unwritten \ {r}
    BY <1>10, <2>1, <2>3, UnwrittenIs, Zenon
  <2>5. Log!Write(r)  BY <1>12, <2>1, <2>2, <2>4, Zenon DEF Log!Write
  <2> QED  BY <2>2, <2>5, Zenon DEF Log!Next
<1> QED  BY <1>2, <1>11, <1>12, Zenon DEF WriteRecord

(* The calls that hand out buffers leave the tasks alone.                  *)
LEMMA GetBufferKeepsTasks ==
  ASSUME SessionInv, NEW t \in Threads, AllocateBuffer(t) \/ ExchangeBuffer(t) \/ WakeUp(t)
  PROVE  Tasks' = Tasks /\ content' = content /\ file' = file
<1>1. /\ queue' = queue /\ arg' = arg /\ content' = content /\ file' = file
      /\ pc[t] \notin {"return", "consume"} /\ TypeOK
  BY Zenon DEF AllocateBuffer, ExchangeBuffer, WakeUp, UnchangedButBuffers, CanCall, SessionInv
<1>2. \E where \in {"idle", "wait"}, W \in SUBSET Waiters : GoTo(t, where, W)
  BY ReleasedAreWaiters, Zenon
  DEF AllocateBuffer, ExchangeBuffer, WakeUp, GetBuffer, GetBufferOfSize,
      GetNextBufferUnlocked, Deliver, StartWaiting, Refuse
<1>3. At("consume")' = At("consume")  BY <1>1, <1>2, GoToEffect, Zenon
<1> QED  BY <1>1, <1>3, Zenon DEF Tasks, Consuming

(* A returned buffer becomes a task, and is one until it is written.       *)
LEMMA ReturnKeepsTasks ==
  ASSUME SessionInv, NEW t \in Threads, ReturnBuffer(t) \/ ConsumeBuffer(t)
  PROVE  Tasks \subseteq Tasks' /\ content' = content /\ file' = file
<1>1. content' = content /\ file' = file  BY Zenon DEF ReturnBuffer, ConsumeBuffer
<1>2. \A u \in Threads \ {t} : pc'[u] = pc[u] /\ arg'[u] = arg[u]
  BY Zenon DEF ReturnBuffer, ConsumeBuffer, EndReturn, GoTo, SessionInv, TypeOK
<1>3. CASE ReturnBuffer(t)
  <2>1. queue' = queue /\ pc[t] = "return"  BY <1>3, Zenon DEF ReturnBuffer
  <2>2. Consuming \subseteq Consuming'  BY <1>2, <2>1 DEF Consuming, At
  <2> QED  BY <1>1, <2>1, <2>2, Zenon DEF Tasks
<1>4. CASE ConsumeBuffer(t)
  <2>1. queue' = Append(queue, arg[t]) /\ pc[t] = "consume"  BY <1>4, Zenon DEF ConsumeBuffer
  <2>2. PICK b : b = arg[t]  BY Zenon
  <2>3. queue \in Seq(Buffers) /\ b \in Buffers /\ IsInjective(queue) /\ b \notin Range(queue)
    <3>1. b \in Consuming  BY <2>1, <2>2, Zenon DEF Consuming, At
    <3>2. queue \in Seq(Buffers) /\ b \in Buffers
      BY <2>1, <2>2, Zenon DEF SessionInv, TypeOK, ArgsAreBuffers
    <3> QED
      BY <3>1, <3>2, Zenon DEF SessionInv, PendingWriteHasOneTask, TasksAreDistinct
  <2>4. Range(queue') = Range(queue) \union {b}
    BY <2>1, <2>2, <2>3, AppendIsInjective
  <2>5. Consuming \subseteq Consuming' \union {b}  BY <1>2, <2>2 DEF Consuming, At
  <2> QED  BY <1>1, <2>4, <2>5, Zenon DEF Tasks
<1> QED  BY <1>3, <1>4, Zenon

(* Close forgets no task, and writes to a buffer that is not one.          *)
LEMMA CloseKeepsTasks ==
  ASSUME SessionInv, Close
  PROVE  /\ Tasks \subseteq Tasks' /\ file' = file
         /\ \A b \in Tasks : content'[b] = content[b]
<1>1. /\ file' = file /\ arg' = arg
      /\ \A t \in Threads : pc'[t] = pc[t] \/ (pc[t] = "wait" /\ pc'[t] = "woken")
  BY CloseEffect, Zenon
<1>2. Consuming \subseteq Consuming'  BY <1>1 DEF Consuming, At
<1>3. PICK q \in Seq(Buffers) :
        /\ Range(q) = Range(queue) \union InState(bufs, "kInUse") /\ IsInjective(q)
        /\ Posts(q)
  BY CloseEffect, Zenon
<1>4. Tasks \subseteq InState(bufs, "kPendingWrite")
  BY Zenon DEF SessionInv, PendingWriteHasOneTask, TasksAreDistinct, Tasks
<1>5. CASE queue' = q /\ content' = content
  BY <1>1, <1>2, <1>3, <1>5, Zenon DEF Tasks
<1>6. CASE \E b \in Buffers : /\ bufs.state[b] \notin {"kInUse", "kPendingWrite"}
                              /\ queue' = Append(q, b)
                              /\ content' = [content EXCEPT ![b] = Ended]
  <2>1. PICK b \in Buffers : /\ bufs.state[b] \notin {"kInUse", "kPendingWrite"}
                             /\ queue' = Append(q, b)
                             /\ content' = [content EXCEPT ![b] = Ended]
    BY <1>6, Zenon
  <2>2. b \notin Tasks  BY <1>4, <2>1, Zenon DEF InState
  <2>3. \A c \in Tasks : content'[c] = content[c]
    BY <1>4, <2>1, <2>2, Zenon DEF SessionInv, TypeOK, InState
  <2>4. Range(queue) \subseteq InState(bufs, "kPendingWrite")
    BY <1>4, Zenon DEF Tasks
  <2>5. b \notin Range(q)  BY <1>3, <2>1, <2>4, Zenon DEF InState
  <2>6. Range(queue') = Range(q) \union {b}
    BY <1>3, <2>1, <2>5, AppendIsInjective
  <2> QED  BY <1>1, <1>2, <1>3, <2>3, <2>6, Zenon DEF Tasks
<1> QED  BY <1>3, <1>5, <1>6, Zenon DEF Posts

(* Every step of the session is a step of the trace log or none.           *)
LEMMA NextRefines ==
  ASSUME SessionInv, SessionInv', SegmentsAreOnce, SegmentsAreOnce', [Next]_vars,
         "map" \notin Failures, "write" \notin Failures
  PROVE  [Log!Next]_(Log!logVars)
<1>1. CASE UNCHANGED vars
  BY <1>1, Zenon DEF vars, Log!logVars, Unwritten, Consuming, At
<1>2. ASSUME NEW t \in Threads, AllocateBuffer(t) \/ ExchangeBuffer(t) \/ WakeUp(t)
      PROVE  Log!Next
  BY <1>2, GetBufferKeepsTasks, AcceptStep, Zenon
<1>3. ASSUME NEW t \in Threads, SpuriousWakeup(t) \/ FindBuffer(t) PROVE Log!Next
  <2>1. queue' = queue /\ content' = content /\ file' = file
    BY <1>3, Zenon DEF SpuriousWakeup, FindBuffer, UnchangedButBuffers
  <2>2. /\ pc[t] # "consume"
        /\ \A u \in Threads \ {t} : pc'[u] = pc[u] /\ arg'[u] = arg[u]
    BY <1>3, Zenon
    DEF SpuriousWakeup, FindBuffer, UnchangedButBuffers, GoTo, CanCall, SessionInv, TypeOK
  <2>3. Consuming \subseteq Consuming'  BY <2>2 DEF Consuming, At
  <2> QED  BY <2>1, <2>3, AcceptStep, Zenon DEF Tasks
<1>4. ASSUME NEW t \in Threads, ReturnBuffer(t) \/ ConsumeBuffer(t) PROVE Log!Next
  BY <1>4, ReturnKeepsTasks, AcceptStep, Zenon
<1>5. ASSUME NEW t \in Threads, Fill(t) PROVE Log!Next
  <2>1. queue' = queue /\ pc' = pc /\ arg' = arg /\ file' = file  BY <1>5, Zenon DEF Fill
  <2>2. Tasks' = Tasks  BY <2>1, Zenon DEF Tasks, Consuming, At
  <2>3. \A b \in Buffers : content[b] # Empty => content'[b] = content[b]
    BY <1>5, Zenon DEF Fill, SessionInv, TypeOK
  <2> QED  BY <2>1, <2>2, <2>3, TasksAreBuffers, AcceptStep, Zenon
<1>6. CASE Close  BY <1>6, CloseKeepsTasks, AcceptStep, Zenon
<1>7. CASE RecycleBuffer
  <2>1. queue' = queue /\ arg' = arg /\ content' = content /\ file' = file
    BY <1>7, Zenon DEF RecycleBuffer
  <2>2. \A u \in Threads : pc[u] = "consume" => pc'[u] = "consume"
    BY <1>7, ReleasedAreWaiters, Zenon DEF RecycleBuffer, Wake, Waiters
  <2>3. Consuming \subseteq Consuming'  BY <2>1, <2>2 DEF Consuming, At
  <2> QED  BY <2>1, <2>3, AcceptStep, Zenon DEF Tasks
<1> QED
  BY <1>1, <1>2, <1>3, <1>4, <1>5, <1>6, <1>7, WriteBufferRefines, Zenon DEF Next, Done

(* When every buffer can be mapped and every write succeeds, the session   *)
(* implements the trace log whether or not the calls are serialised: only  *)
(* segments that were returned to it, or outstanding when it closed, are   *)
(* appended to the file, each once, and none of them is dropped.           *)
THEOREM SessionImplementsTraceLog ==
  ASSUME "map" \notin Failures, "write" \notin Failures
  PROVE  Spec => Log!Spec
<1>1. Init => Log!Init
  <2> SUFFICES ASSUME Init PROVE Unwritten = {} /\ file = <<>>  BY Zenon DEF Log!Init
  <2>1. Range(queue) = {} /\ Consuming = {}  BY DEF Init, Range, Consuming, At
  <2> QED  BY <2>1, Zenon DEF Init, Unwritten
<1>2. SessionInv /\ SessionInv' /\ SegmentsAreOnce /\ SegmentsAreOnce' /\ [Next]_vars
        => [Log!Next]_(Log!logVars)
  BY NextRefines, Zenon
<1> QED  BY <1>1, <1>2, SessionInvariant, SegmentInvariant, PTL DEF Spec, Log!Spec

-----------------------------------------------------------------------------
(* Back-pressure when no request is for more than an ordinary buffer, so   *)
(* that no buffer is destroyed instead of recycled.                        *)
OrdinaryRequests ==
  \A n \in Requests : AlignUp(n, BlockSize) <= AlignUp(BufferSize, BlockSize)

SizesFit(p) == \A b \in Buffers : p.size[b] <= AlignUp(BufferSize, BlockSize)

CoveredInv == OrdinaryRequests => SizesFit(bufs) /\ WaitersAreCovered

(* AlignUp is monotone.                                                    *)
LEMMA AlignUpMonotone ==
  ASSUME NEW m \in Nat, NEW n \in Nat, m <= n
  PROVE  AlignUp(m, BlockSize) <= AlignUp(n, BlockSize)
<1>1. PICK a \in Nat : a = BlockSize /\ a > 0  BY SessionAssumption
<1>2. PICK x \in Nat, y \in Nat : x = m + a - 1 /\ y = n + a - 1 /\ x <= y  BY <1>1
<1>3. x \div a \in Nat /\ y \div a \in Nat  BY <1>1
<1>4. x \div a <= y \div a
  <2>1. a * (x \div a) <= x /\ y < a * (y \div a) + a  BY <1>1
  <2> SUFFICES ASSUME x \div a >= (y \div a) + 1 PROVE FALSE  BY <1>3
  <2>2. a * (x \div a) >= a * ((y \div a) + 1)  BY <1>1, <1>3
  <2>3. a * ((y \div a) + 1) = a * (y \div a) + a  BY <1>1, <1>3
  <2> QED  BY <1>1, <1>2, <1>3, <2>1, <2>2, <2>3
<1> QED  BY <1>1, <1>2, <1>3, <1>4 DEF AlignUp

(* The operators of the book-keeping on the sizes of the buffers.          *)
LEMMA SizesKept ==
  ASSUME NEW p, SizesFit(p)
  PROVE  /\ SizesFit(TakeAvailable(p)) /\ SizesFit(FlushInUse(p))
         /\ \A s, b : SizesFit(ChangeBufferState(p, s, b)) /\ SizesFit(MakeAvailable(p, b))
                      /\ SizesFit(DestroySingletonBuffer(p, b))
         /\ \A pool : \A n \in {BufferSize, EventSize} : SizesFit(AllocateBuffers(p, pool, n))
<1>1. \A q : q.size = p.size => SizesFit(q)  BY Zenon DEF SizesFit
<1>2. /\ TakeAvailable(p).size = p.size /\ FlushInUse(p).size = p.size
      /\ \A s, b : /\ ChangeBufferState(p, s, b).size = p.size
                   /\ MakeAvailable(p, b).size = p.size
                   /\ DestroySingletonBuffer(p, b).size = p.size
  BY DEF TakeAvailable, FlushInUse, ChangeBufferState, MakeAvailable, DestroySingletonBuffer
<1>3. \A n \in {BufferSize, EventSize} : AlignUp(n, BlockSize) <= AlignUp(BufferSize, BlockSize)
  <2>1. /\ BufferSize \in Nat /\ EventSize \in Nat /\ BufferSize <= BufferSize
        /\ EventSize <= BufferSize
    BY SessionAssumption
  <2> QED  BY <2>1, AlignUpMonotone, Zenon
<1>4. \A pool : \A n \in {BufferSize, EventSize} : SizesFit(AllocateBuffers(p, pool, n))
  <2> SUFFICES ASSUME NEW pool, NEW n \in {BufferSize, EventSize}, NEW b \in Buffers
               PROVE  AllocateBuffers(p, pool, n).size[b] <= AlignUp(BufferSize, BlockSize)
    BY Zenon DEF SizesFit
  <2>1. PICK z : z = AllocateBuffers(p, pool, n).size  BY Zenon
  <2>2. z[b] = AlignUp(n, BlockSize) \/ z[b] = p.size[b]  BY <2>1, Zenon DEF AllocateBuffers
  <2>3. z[b] <= AlignUp(BufferSize, BlockSize)  BY <1>3, <2>2, Zenon DEF SizesFit
  <2> QED  BY <2>1, <2>3, Zenon
<1> QED  BY <1>1, <1>2, <1>4, Zenon

(* Close leaves the write-pending buffers write-pending.                   *)
LEMMA CloseKeepsPending ==
  ASSUME SessionInv, Close
  PROVE  InState(bufs, "kPendingWrite") \subseteq InState(bufs', "kPendingWrite")
<1> SUFFICES ASSUME NEW c \in Buffers, bufs.state[c] = "kPendingWrite"
             PROVE  bufs'.state[c] = "kPendingWrite"
  BY Zenon DEF InState
<1>1. bufs \in Bookkeeping /\ IsConsistent(bufs)
  BY Zenon DEF SessionInv, TypeOK, BookkeepingIsConsistent
<1>2. PICK p, q : p = FlushInUse(bufs) /\ CreateProcessEndedEvent(p, q)  BY Zenon DEF Close
<1>3. /\ p \in Bookkeeping /\ IsConsistent(p)
      /\ p.state = [b \in Buffers |-> IF bufs.state[b] = "kInUse"
                                      THEN "kPendingWrite" ELSE bufs.state[b]]
  BY <1>1, <1>2, FlushInUseConsistent, Zenon
<1>4. p.state[c] = "kPendingWrite" /\ Fresh(p) = Fresh(bufs)  BY <1>3 DEF Fresh
<1>5. ASSUME NEW r \in Bookkeeping, IsConsistent(r), r.available # <<>>,
             Adds(p, r), WriteEndedEvent(r, q)
      PROVE  bufs'.state[c] = "kPendingWrite"
  <2>1. PICK b \in Buffers, s \in {"kInUse", "kPendingWrite"} :
          r.state[b] = "kAvailable" /\ Puts(r, bufs', b, s)
    BY <1>5, EndedEventPuts, Zenon
  <2>2. r.state[c] = "kPendingWrite"  BY <1>4, <1>5 DEF Adds
  <2> QED  BY <2>1, <2>2 DEF Puts
<1>6. CASE p.available # <<>> /\ WriteEndedEvent(p, q)
  BY <1>3, <1>5, <1>6, Zenon DEF Adds
<1>7. CASE \E pool \in NewPools(1) : WriteEndedEvent(AllocateBuffers(p, pool, EventSize), q)
  <2>1. PICK pool \in NewPools(1) : WriteEndedEvent(AllocateBuffers(p, pool, EventSize), q)
    BY <1>7, Zenon
  <2>2. PICK r : r = AllocateBuffers(p, pool, EventSize)  BY Zenon
  <2>3. r \in Bookkeeping /\ IsConsistent(r) /\ r.available # <<>>
    BY <1>3, <1>4, <2>2, NewEventBuffer, Zenon
  <2>4. pool \in PoolsOf(p, 1)  BY <1>4, Zenon DEF NewPools, PoolsOf
  <2>5. Adds(p, r)  BY <1>3, <2>2, <2>4, AllocateBuffersAdds, Zenon
  <2> QED  BY <1>5, <2>1, <2>2, <2>3, <2>5, Zenon
<1> QED  BY <1>2, <1>4, <1>6, <1>7, Zenon DEF CreateProcessEndedEvent

(* A step that allocates ordinary buffers only.                            *)
LEMMA NextKeepsSizes ==
  ASSUME SessionInv, OrdinaryRequests, SizesFit(bufs), [Next]_vars
  PROVE  SizesFit(bufs')
<1>1. CASE bufs' = bufs  BY <1>1, Zenon
<1>2. ASSUME NEW t, NEW w, GetNextBufferUnlocked(t, w) PROVE SizesFit(bufs')
  <2>1. PICK p \in {bufs} \union {AllocateBuffers(bufs, pool, BufferSize) :
                                    pool \in NewPools(NumIncremental)} :
          bufs' = p \/ bufs' = TakeAvailable(p)
    BY <1>2, Zenon DEF GetNextBufferUnlocked, Deliver, StartWaiting, Refuse
  <2>2. SizesFit(p)  BY <2>1, SizesKept, Zenon
  <2> QED  BY <2>1, <2>2, SizesKept, Zenon
<1>3. ASSUME NEW t, NEW n \in Requests, GetBuffer(t, n) PROVE SizesFit(bufs')
  <2>1. CASE GetNextBufferUnlocked(t, waiting)  BY <1>2, <2>1, Zenon
  <2>2. CASE \E b \in Fresh(bufs) : bufs' = AllocateBufferForImmediateUse(bufs, b, n)
    <3>1. PICK b \in Buffers : bufs' = AllocateBufferForImmediateUse(bufs, b, n)
      BY <2>2, Zenon DEF Fresh
    <3>2. bufs'.size = [bufs.size EXCEPT ![b] = AlignUp(n, BlockSize)]
      BY <3>1, Zenon DEF AllocateBufferForImmediateUse
    <3>3. bufs.size \in [Buffers -> Nat]  BY Zenon DEF SessionInv, TypeOK, Bookkeeping
    <3> QED  BY <3>2, <3>3, Zenon DEF SizesFit, OrdinaryRequests
  <2> QED  BY <1>1, <1>3, <2>1, <2>2, Zenon DEF GetBuffer, GetBufferOfSize, Deliver, Refuse
<1>4. ASSUME NEW t \in Threads, ExchangeBuffer(t) PROVE SizesFit(bufs')
  <2>1. ~(0 > BufferSize)  BY SessionAssumption
  <2> QED
    BY <1>1, <1>2, <1>4, <2>1, Zenon DEF ExchangeBuffer, GetBuffer, GetBufferOfSize, Refuse
<1>5. ASSUME NEW t \in Threads, ReturnBuffer(t) PROVE SizesFit(bufs')
  BY <1>1, <1>5, SizesKept, Zenon DEF ReturnBuffer
<1>6. CASE RecycleBuffer  BY <1>6, SizesKept, Zenon DEF RecycleBuffer
<1>7. CASE Close
  <2>1. PICK p, q : p = FlushInUse(bufs) /\ CreateProcessEndedEvent(p, q)
    BY <1>7, Zenon DEF Close
  <2>2. SizesFit(p)  BY <2>1, SizesKept, Zenon
  <2>3. ASSUME NEW r, SizesFit(r), WriteEndedEvent(r, q) PROVE SizesFit(bufs')
    <3>1. SizesFit(TakeAvailable(r))  BY <2>3, SizesKept, Zenon
    <3> QED  BY <2>3, <3>1, SizesKept, Zenon DEF WriteEndedEvent
  <2>4. \A pool : SizesFit(AllocateBuffers(p, pool, EventSize))  BY <2>2, SizesKept, Zenon
  <2> QED  BY <2>1, <2>2, <2>3, <2>4, Zenon DEF CreateProcessEndedEvent
<1> QED
  BY <1>1, <1>2, <1>3, <1>4, <1>5, <1>6, <1>7, Zenon
  DEF Next, vars, Done, AllocateBuffer, WakeUp, SpuriousWakeup, FindBuffer, ConsumeBuffer,
      Fill, WriteBuffer, UnchangedButBuffers

(* The requests that wait are finitely many.                               *)
LEMMA WaitersFinite ==
  \A S \in SUBSET Threads : IsFiniteSet(S) /\ Cardinality(S) \in Nat
  BY SessionAssumption, FS_Subset, FS_CardinalityType, Zenon

(* The number of write-pending buffers is their count.                     *)
LEMMA PendingCount ==
  ASSUME SessionInv
  PROVE  /\ bufs.counts["kPendingWrite"] = Cardinality(InState(bufs, "kPendingWrite"))
         /\ bufs.counts["kPendingWrite"] \in Nat /\ MaxPending \in Nat
<1>1. MaxPending \in Nat  BY SessionAssumption
<1>2. "kPendingWrite" \in BufferState  BY Zenon DEF BufferState
<1> QED
  BY <1>1, <1>2, Zenon DEF SessionInv, TypeOK, Bookkeeping, BookkeepingIsConsistent, IsConsistent

(* No request begins to wait and no buffer is recycled.                    *)
LEMMA FewerWaiters ==
  ASSUME SessionInv, SessionInv', WaitersAreCovered, Waiters' \subseteq Waiters,
         InState(bufs, "kPendingWrite") \subseteq InState(bufs', "kPendingWrite")
  PROVE  WaitersAreCovered'
<1>1. PICK m, n : m = Cardinality(Waiters) /\ n = Cardinality(Waiters')  BY Zenon
<1>2. PICK c, d : c = bufs.counts["kPendingWrite"] /\ d = bufs'.counts["kPendingWrite"]
  BY Zenon
<1>3. Waiters \in SUBSET Threads  BY Zenon DEF Waiters
<1>4. m \in Nat /\ n \in Nat /\ n <= m
  BY <1>1, <1>3, WaitersFinite, FS_Subset, Zenon
<1>5. c \in Nat /\ d \in Nat /\ c <= d /\ MaxPending \in Nat
  <2>1. "kPendingWrite" \in BufferState  BY Zenon DEF BufferState
  <2>2. d = Cardinality(InState(bufs', "kPendingWrite")) /\ d \in Nat
    BY <1>2, <2>1, Zenon
    DEF SessionInv, TypeOK, Bookkeeping, BookkeepingIsConsistent, IsConsistent
  <2>3. c = Cardinality(InState(bufs, "kPendingWrite")) /\ c \in Nat /\ MaxPending \in Nat
    BY <1>2, PendingCount, Zenon
  <2>4. PICK S, T : S = InState(bufs, "kPendingWrite") /\ T = InState(bufs', "kPendingWrite")
    BY Zenon
  <2>5. IsFiniteSet(T) /\ S \in SUBSET T  BY <2>4, InStateFinite, Zenon
  <2> QED  BY <2>2, <2>3, <2>4, <2>5, FS_Subset, Zenon
<1>6. m <= IF c > MaxPending THEN c - MaxPending ELSE 0
  BY <1>1, <1>2, Zenon DEF WaitersAreCovered, BuffersForceRecyclable
<1>7. n <= IF d > MaxPending THEN d - MaxPending ELSE 0  BY <1>4, <1>5, <1>6
<1> QED  BY <1>1, <1>2, <1>7, Zenon DEF WaitersAreCovered, BuffersForceRecyclable

(* A request begins to wait, w others waiting or woken before it.          *)
LEMMA StartWaitingCovered ==
  ASSUME SessionInv, NEW t \in Threads, NEW w, w = Cardinality(InWait \ {t}),
         MustWait(w), StartWaiting(t, w)
  PROVE  WaitersAreCovered'
<1>1. bufs' = bufs /\ Waiters' = (Waiters \ {t}) \union {t}
  BY Zenon DEF StartWaiting, GoTo, Waiters
<1>2. PICK S, T : S = Waiters \ {t} /\ T = InWait \ {t}  BY Zenon
<1>3. S \in SUBSET T /\ T \in SUBSET Threads /\ t \notin S
  BY <1>2, Zenon DEF Waiters, InWait, At
<1>4. /\ Cardinality(S) \in Nat /\ w \in Nat /\ Cardinality(S) <= w
      /\ Cardinality(S \union {t}) = Cardinality(S) + 1
  BY <1>2, <1>3, WaitersFinite, FS_Subset, FS_AddElement, Zenon
<1>5. w < BuffersForceRecyclable /\ BuffersForceRecyclable \in Nat
  BY PendingCount DEF MustWait, BuffersForceRecyclable
<1>6. Cardinality(S \union {t}) <= BuffersForceRecyclable  BY <1>4, <1>5
<1> QED  BY <1>1, <1>2, <1>6, Zenon DEF WaitersAreCovered, BuffersForceRecyclable

(* Handing out a buffer leaves the write-pending ones alone.               *)
LEMMA GetNextBufferCovered ==
  ASSUME SessionInv, SessionInv', WaitersAreCovered, NEW t \in Threads,
         NEW w, w = Cardinality(InWait \ {t}), GetNextBufferUnlocked(t, w)
  PROVE  WaitersAreCovered'
<1>1. CASE MustWait(w) /\ StartWaiting(t, w)  BY <1>1, StartWaitingCovered, Zenon
<1>2. CASE \E W \in SUBSET Waiters : GoTo(t, "idle", W)
  <2>1. Waiters' \subseteq Waiters  BY <1>2 DEF GoTo, Waiters
  <2>2. bufs \in Bookkeeping /\ IsConsistent(bufs)
    BY Zenon DEF SessionInv, TypeOK, BookkeepingIsConsistent
  <2>3. CASE bufs' = bufs  BY <2>1, <2>3, FewerWaiters, Zenon
  <2>4. ASSUME NEW p \in Bookkeeping, IsConsistent(p), p.available # <<>>, Adds(bufs, p),
               bufs' = TakeAvailable(p)
        PROVE  WaitersAreCovered'
    <3>1. PICK b \in Buffers : p.state[b] = "kAvailable" /\ Puts(p, bufs', b, "kInUse")
      BY <2>4, TakeAvailablePuts, Zenon
    <3>2. \A c \in Buffers : bufs.state[c] = "kPendingWrite" => bufs'.state[c] = "kPendingWrite"
      BY <2>4, <3>1 DEF Adds, Puts
    <3>3. InState(bufs, "kPendingWrite") \subseteq InState(bufs', "kPendingWrite")
      BY <3>2, Zenon DEF InState
    <3> QED  BY <2>1, <3>3, FewerWaiters, Zenon
  <2>5. CASE bufs.available # <<>> /\ bufs' = TakeAvailable(bufs)
    BY <2>2, <2>4, <2>5, Zenon DEF Adds
  <2>6. CASE \E pool \in NewPools(NumIncremental) :
               bufs' = TakeAvailable(AllocateBuffers(bufs, pool, BufferSize))
    <3>1. PICK pool \in NewPools(NumIncremental) :
            bufs' = TakeAvailable(AllocateBuffers(bufs, pool, BufferSize))
      BY <2>6, Zenon
    <3>2. PICK p : p = AllocateBuffers(bufs, pool, BufferSize)  BY Zenon
    <3>3. /\ NumIncremental \in Nat \ {0} /\ BufferSize \in Nat
          /\ pool \in PoolsOf(bufs, NumIncremental)
      BY SessionAssumption, Zenon DEF NewPools, PoolsOf
    <3>4. p \in Bookkeeping /\ IsConsistent(p) /\ p.available # <<>>
      BY <2>2, <3>2, <3>3, AllocateBuffersConsistent, Zenon
    <3>5. Adds(bufs, p)  BY <2>2, <3>2, <3>3, AllocateBuffersAdds, Zenon
    <3> QED  BY <2>4, <3>1, <3>2, <3>4, <3>5, Zenon
  <2> QED
    BY <1>2, <2>3, <2>5, <2>6, StartWaitingCovered, Zenon
    DEF GetNextBufferUnlocked, Deliver, StartWaiting, Refuse
<1> QED
  BY <1>1, <1>2, ReleasedAreWaiters, Zenon DEF GetNextBufferUnlocked, Deliver, Refuse

(* The calls that hand out buffers.                                        *)
LEMMA GetBufferCovered ==
  ASSUME SessionInv, SessionInv', WaitersAreCovered, NEW t \in Threads,
         AllocateBuffer(t) \/ ExchangeBuffer(t) \/ WakeUp(t)
  PROVE  WaitersAreCovered'
<1>1. TypeOK /\ IsFiniteSet(InWait) /\ waiting = Cardinality(InWait)
  BY InWaitFinite, Zenon DEF SessionInv, WaitingIsCounted
<1>2. CASE WakeUp(t)
  <2>1. t \in InWait  BY <1>2, Zenon DEF WakeUp, InWait, At
  <2>2. waiting - 1 = Cardinality(InWait \ {t})  BY <1>1, <2>1, FS_RemoveElement, Zenon
  <2> QED  BY <1>2, <2>2, GetNextBufferCovered, Zenon DEF WakeUp
<1>3. CASE \E n : GetBuffer(t, n) /\ pc[t] \in {"idle", "exchange"}
  <2>1. PICK n : GetBuffer(t, n) /\ pc[t] \in {"idle", "exchange"}  BY <1>3, Zenon
  <2>2. InWait \ {t} = InWait  BY <2>1 DEF InWait, At
  <2>3. CASE GetNextBufferUnlocked(t, waiting)
    BY <1>1, <2>2, <2>3, GetNextBufferCovered, Zenon
  <2>4. CASE GoTo(t, "idle", {}) /\ bufs' = bufs
    <3>1. Waiters' \subseteq Waiters  BY <2>4 DEF GoTo, Waiters
    <3> QED  BY <2>4, <3>1, FewerWaiters, Zenon
  <2>5. CASE /\ GoTo(t, "idle", {})
             /\ \E b \in Fresh(bufs) : bufs' = AllocateBufferForImmediateUse(bufs, b, n)
    <3>1. Waiters' \subseteq Waiters  BY <2>5 DEF GoTo, Waiters
    <3>2. PICK b \in Fresh(bufs) : bufs' = AllocateBufferForImmediateUse(bufs, b, n)
      BY <2>5, Zenon
    <3>3. bufs'.state = [bufs.state EXCEPT ![b] = "kInUse"]
      BY <3>2, Zenon DEF AllocateBufferForImmediateUse
    <3>4. b \in Buffers /\ bufs.state[b] = "none"  BY Zenon DEF Fresh
    <3>5. bufs \in Bookkeeping  BY Zenon DEF SessionInv, TypeOK
    <3>6. InState(bufs, "kPendingWrite") \subseteq InState(bufs', "kPendingWrite")
      BY <3>3, <3>4, <3>5 DEF InState, Bookkeeping
    <3> QED  BY <3>1, <3>6, FewerWaiters, Zenon
  <2> QED
    BY <2>1, <2>3, <2>4, <2>5, Zenon DEF GetBuffer, GetBufferOfSize, Deliver, Refuse
<1> QED  BY <1>2, <1>3, Zenon DEF AllocateBuffer, ExchangeBuffer, CanCall

(* A buffer is recycled, and a request that waits for it is woken.         *)
LEMMA RecycleCovered ==
  ASSUME SessionInv, SessionInv', WaitersAreCovered, SizesFit(bufs), RecycleBuffer
  PROVE  WaitersAreCovered'
<1>1. bufs \in Bookkeeping /\ IsConsistent(bufs)
  BY Zenon DEF SessionInv, TypeOK, BookkeepingIsConsistent
<1>2. PICK b : b = writer  BY Zenon
<1>3. b \in Buffers /\ bufs.state[b] = "kPendingWrite" /\ b \in InState(bufs, "kPendingWrite")
  BY <1>2, Zenon
  DEF RecycleBuffer, SessionInv, PendingWriteHasOneTask, TasksAreDistinct, Writing, InState
<1>4. ~IsSingleton(bufs, b)
  <2>1. bufs.size[b] \in Nat /\ AlignUp(BufferSize, BlockSize) \in Nat
    <3>1. BufferSize \in Nat  BY SessionAssumption
    <3> QED  BY <1>1, <1>3, <3>1, AlignUpIsNat, Zenon DEF Bookkeeping
  <2> QED  BY <1>3, <2>1 DEF IsSingleton, SizesFit
<1>5. bufs' = MakeAvailable(bufs, b) /\ \E W \in Released(1) : Wake(W)
  BY <1>2, <1>4, Zenon DEF RecycleBuffer
<1>6. PICK W \in Released(1) : Wake(W)  BY <1>5, Zenon
<1>7. PICK c, d, m, n : /\ c = bufs.counts["kPendingWrite"] /\ d = bufs'.counts["kPendingWrite"]
                        /\ m = Cardinality(Waiters) /\ n = Cardinality(Waiters')
  BY Zenon
<1>8. c \in Nat /\ MaxPending \in Nat  BY <1>7, PendingCount, Zenon
<1>9. d = c - 1
  BY <1>1, <1>3, <1>5, <1>7 DEF MakeAvailable, ChangeBufferState, Bookkeeping, BufferState
<1>10. c # 0
  BY <1>3, <1>7, PendingCount, InStateFinite, FS_EmptySet, Zenon
<1>11. Waiters' = Waiters \ W /\ Waiters \in SUBSET Threads /\ W \in SUBSET Waiters
  BY <1>6, ReleasedAreWaiters DEF Wake, Waiters
<1>12. m \in Nat /\ n \in Nat /\ IsFiniteSet(Waiters) /\ IsFiniteSet(W) /\ Cardinality(W) \in Nat
  BY <1>7, <1>11, WaitersFinite, FS_Subset, FS_CardinalityType, Zenon
<1>13. n = 0 \/ n = m - 1
  <2>1. CASE Cardinality(W) = 1
    <3>1. PICK x : W = {x}  BY <1>12, <2>1, FS_Singleton, Zenon
    <3>2. x \in Waiters /\ Waiters' = Waiters \ {x}  BY <1>11, <3>1, Zenon
    <3> QED  BY <1>7, <1>12, <3>2, FS_RemoveElement, Zenon
  <2>2. CASE W = Waiters
    <3>1. Waiters' = {}  BY <1>11, <2>2, Zenon
    <3> QED  BY <1>7, <3>1, FS_EmptySet, Zenon
  <2> QED  BY <1>6, <2>1, <2>2, Zenon DEF Released
<1>14. m <= IF c > MaxPending THEN c - MaxPending ELSE 0
  BY <1>7, Zenon DEF WaitersAreCovered, BuffersForceRecyclable
<1>15. n <= IF d > MaxPending THEN d - MaxPending ELSE 0
  BY <1>8, <1>9, <1>10, <1>12, <1>13, <1>14
<1> QED  BY <1>7, <1>15, Zenon DEF WaitersAreCovered, BuffersForceRecyclable

(* A returned buffer becomes write-pending.                                *)
LEMMA ReturnPends ==
  ASSUME SessionInv, NEW t \in Threads, ReturnBuffer(t), ~is_closing_
  PROVE  InState(bufs, "kPendingWrite") \subseteq InState(bufs', "kPendingWrite")
<1>1. bufs \in Bookkeeping /\ IsConsistent(bufs)
  BY Zenon DEF SessionInv, TypeOK, BookkeepingIsConsistent
<1>2. PICK b : b = arg[t]  BY Zenon
<1>3. b \in InState(bufs, "kInUse")
  BY <1>2, Zenon DEF ReturnBuffer, SessionInv, InUseHasOneClient, Returning, At
<1>4. bufs' = ChangeBufferState(bufs, "kPendingWrite", b)  BY <1>2, Zenon DEF ReturnBuffer
<1>5. InState(bufs', "kPendingWrite") = InState(bufs, "kPendingWrite") \union {b}
  BY <1>1, <1>3, <1>4, ReturnConsistent, SMTT(30)
<1> QED  BY <1>5, Zenon

(* Every step of the session.                                              *)
LEMMA NextKeepsCovered ==
  ASSUME SessionInv, SessionInv', CoveredInv, [Next]_vars PROVE CoveredInv'
<1> SUFFICES ASSUME OrdinaryRequests PROVE SizesFit(bufs') /\ WaitersAreCovered'
  BY Zenon DEF CoveredInv
<1>1. SizesFit(bufs) /\ WaitersAreCovered  BY Zenon DEF CoveredInv
<1>2. SizesFit(bufs')  BY <1>1, NextKeepsSizes, Zenon
<1>3. CASE bufs' = bufs /\ \A t \in Threads : pc'[t] = "wait" => pc[t] = "wait"
  <2>1. Waiters' \subseteq Waiters  BY <1>3, Zenon DEF Waiters
  <2> QED  BY <1>1, <1>2, <1>3, <2>1, FewerWaiters, Zenon
<1>4. ASSUME NEW t \in Threads, SpuriousWakeup(t) \/ FindBuffer(t) \/ ConsumeBuffer(t) \/ Fill(t)
      PROVE  bufs' = bufs /\ \A u \in Threads : pc'[u] = "wait" => pc[u] = "wait"
  BY <1>4 DEF SpuriousWakeup, FindBuffer, ConsumeBuffer, EndReturn, Fill, GoTo
<1>5. ASSUME NEW t \in Threads, ReturnBuffer(t) PROVE WaitersAreCovered'
  <2>1. \A u \in Threads : pc'[u] = "wait" => pc[u] = "wait"
    BY <1>5 DEF ReturnBuffer, EndReturn, GoTo
  <2>2. Waiters' \subseteq Waiters  BY <2>1, Zenon DEF Waiters
  <2>3. CASE bufs' = bufs  BY <1>1, <2>2, <2>3, FewerWaiters, Zenon
  <2>4. CASE ~is_closing_ /\ bufs' = ChangeBufferState(bufs, "kPendingWrite", arg[t])
    BY <1>1, <1>5, <2>2, <2>4, ReturnPends, FewerWaiters, Zenon
  <2> QED  BY <1>5, <2>3, <2>4, Zenon DEF ReturnBuffer
<1>6. CASE Close
  <2>1. \A t \in Threads : pc'[t] = pc[t] \/ (pc[t] = "wait" /\ pc'[t] = "woken")
    BY <1>6, CloseEffect, Zenon
  <2>2. Waiters' \subseteq Waiters  BY <2>1 DEF Waiters
  <2>3. InState(bufs, "kPendingWrite") \subseteq InState(bufs', "kPendingWrite")
    BY <1>6, CloseKeepsPending, Zenon
  <2> QED  BY <1>1, <1>2, <2>2, <2>3, FewerWaiters, Zenon
<1>7. CASE WriteBuffer \/ UNCHANGED vars
  BY <1>3, <1>7, Zenon DEF WriteBuffer, vars
<1> QED
  BY <1>1, <1>2, <1>3, <1>4, <1>5, <1>6, <1>7, GetBufferCovered, RecycleCovered, Zenon
  DEF Next, Done

(* When no request is for a large buffer, every request that applies       *)
(* back-pressure waits for a write-pending buffer of its own, as session.h *)
(* says, however the calls race with Close and the writer.                 *)
THEOREM WaitersAreAlwaysCovered == Spec => [](OrdinaryRequests => WaitersAreCovered)
<1>1. Init => CoveredInv
  <2> SUFFICES ASSUME Init PROVE SizesFit(bufs) /\ WaitersAreCovered  BY Zenon DEF CoveredInv
  <2>1. SizesFit(bufs)
    <3>1. BufferSize \in Nat  BY SessionAssumption
    <3>2. AlignUp(BufferSize, BlockSize) \in Nat  BY <3>1, AlignUpIsNat, Zenon
    <3> QED  BY <3>2 DEF Init, NoBuffers, SizesFit
  <2>2. Waiters = {}  BY DEF Init, Waiters
  <2>3. bufs.counts["kPendingWrite"] = 0  BY DEF Init, NoBuffers, BufferState
  <2>4. ~(0 > MaxPending) /\ 0 <= 0  BY SessionAssumption
  <2>5. BuffersForceRecyclable = 0  BY <2>3, <2>4, Zenon DEF BuffersForceRecyclable
  <2> QED  BY <2>1, <2>2, <2>4, <2>5, FS_EmptySet, Zenon DEF WaitersAreCovered
<1>2. SessionInv /\ SessionInv' /\ CoveredInv /\ [Next]_vars => CoveredInv'
  BY NextKeepsCovered, Zenon
<1>3. CoveredInv => (OrdinaryRequests => WaitersAreCovered)  BY Zenon DEF CoveredInv
<1> QED  BY <1>1, <1>2, <1>3, SessionInvariant, PTL DEF Spec

=============================================================================
