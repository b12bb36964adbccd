--------------------------- MODULE SessionProofs ----------------------------
(***************************************************************************)
(* Module Session for every value of its constants: the lemmas about the   *)
(* buffer book-keeping, the invariants of the buffers and the cycle of     *)
(* their states.                                                           *)
(***************************************************************************)
EXTENDS Session, FiniteSetTheorems, SequenceTheorems, TLAPS

-----------------------------------------------------------------------------
(***************************************************************************)
(* The buffer book-keeping.  Sequences without repetitions, and the        *)
(* operators of module Session on the book-keeping: each keeps it          *)
(* consistent, and what it does to the states of the buffers.              *)
(***************************************************************************)

(* The buffers in a state are finitely many, so that they can be counted.  *)
LEMMA InStateFinite ==
  ASSUME NEW p, NEW s
  PROVE  /\ IsFiniteSet(InState(p, s))
         /\ Cardinality(InState(p, s)) \in Nat
<1>1. InState(p, s) \in SUBSET Buffers
  BY Zenon DEF InState
<1> QED
  BY <1>1, SessionAssumption, FS_Subset, FS_CardinalityType, Zenon

(* The size that AlignUp gives a buffer is a natural number.               *)
LEMMA AlignUpIsNat ==
  ASSUME NEW n \in Nat
  PROVE  AlignUp(n, BlockSize) \in Nat
<1>1. BlockSize \in Nat /\ BlockSize > 0 /\ n + BlockSize - 1 \in Nat
  BY SessionAssumption
<1>2. (n + BlockSize - 1) \div BlockSize \in Nat
  BY <1>1
<1> QED
  BY <1>1, <1>2 DEF AlignUp

(* A sequence without repetitions whose head is removed, or that is        *)
(* extended by a new element at either end, has none either.               *)
LEMMA TailInjective ==
  ASSUME NEW S, NEW s \in Seq(S), s # <<>>, IsInjective(s)
  PROVE  /\ Head(s) \in Range(s)
         /\ IsInjective(Tail(s))
         /\ Range(Tail(s)) = Range(s) \ {Head(s)}
<1>1. Len(s) \in Nat /\ Len(s) > 0 /\ DOMAIN s = 1 .. Len(s) /\ Head(s) = s[1]
  BY EmptySeq, LenProperties
<1>2. /\ Tail(s) \in Seq(S) /\ Len(Tail(s)) = Len(s) - 1
      /\ DOMAIN Tail(s) = 1 .. (Len(s) - 1)
      /\ \A i \in 1 .. (Len(s) - 1) : Tail(s)[i] = s[i + 1]
  BY HeadTailProperties, LenProperties, Zenon
<1>3. \A i, j \in 1 .. Len(s) : s[i] = s[j] => i = j
  BY <1>1, Zenon DEF IsInjective
<1>4. IsInjective(Tail(s))
  BY <1>1, <1>2, <1>3 DEF IsInjective
<1>5. ASSUME NEW x \in Range(Tail(s)) PROVE x \in Range(s) \ {Head(s)}
  BY <1>1, <1>2, <1>3 DEF Range
<1>6. ASSUME NEW x \in Range(s) \ {Head(s)} PROVE x \in Range(Tail(s))
  <2>1. PICK i \in 1 .. Len(s) : x = s[i]
    BY <1>1, Zenon DEF Range
  <2>2. i - 1 \in 1 .. (Len(s) - 1) /\ Tail(s)[i - 1] = x
    BY <2>1, <1>1, <1>2
  <2> QED
    BY <2>2, <1>2, Zenon DEF Range
<1>7. Head(s) \in Range(s)
  BY <1>1 DEF Range
<1>8. Range(Tail(s)) = Range(s) \ {Head(s)}
  BY <1>5, <1>6, Zenon
<1> QED
  BY <1>4, <1>7, <1>8, Zenon

(* Two sequences without repetitions and with nothing in common, joined.   *)
LEMMA ConcatInjective ==
  ASSUME NEW S, NEW s \in Seq(S), NEW u \in Seq(S),
         IsInjective(s), IsInjective(u), Range(s) \intersect Range(u) = {}
  PROVE  IsInjective(s \o u)
<1>1. /\ Len(s) \in Nat /\ Len(u) \in Nat
      /\ DOMAIN s = 1 .. Len(s) /\ DOMAIN u = 1 .. Len(u)
  BY LenProperties, Zenon
<1>2. /\ DOMAIN (s \o u) = 1 .. Len(s) + Len(u)
      /\ \A i \in 1 .. Len(s) + Len(u) :
           (s \o u)[i] = IF i <= Len(s) THEN s[i] ELSE u[i - Len(s)]
  BY ConcatProperties, LenProperties
<1>3. \A i \in 1 .. Len(s), j \in 1 .. Len(u) : s[i] # u[j]
  BY <1>1, Zenon DEF Range
<1> SUFFICES ASSUME NEW i \in 1 .. Len(s) + Len(u), NEW j \in 1 .. Len(s) + Len(u),
                    (s \o u)[i] = (s \o u)[j]
             PROVE  i = j
  BY <1>2, Zenon DEF IsInjective
<1>4. \A a, b \in 1 .. Len(s) : s[a] = s[b] => a = b
  BY <1>1, Zenon DEF IsInjective
<1>5. \A a, b \in 1 .. Len(u) : u[a] = u[b] => a = b
  BY <1>1, Zenon DEF IsInjective
<1>6. i > Len(s) => i - Len(s) \in 1 .. Len(u)
  BY <1>1
<1>7. j > Len(s) => j - Len(s) \in 1 .. Len(u)
  BY <1>1
<1> QED
  BY <1>1, <1>2, <1>3, <1>4, <1>5, <1>6, <1>7

-----------------------------------------------------------------------------
(* The book-keeping operators keep the book-keeping consistent.            *)

(* ChangeBufferState keeps every count exact.                              *)
LEMMA ChangeBufferStateCounts ==
  ASSUME NEW p \in Bookkeeping, NEW new \in BufferState, NEW b \in Buffers,
         p.state[b] \in BufferState, p.state[b] # new,
         \A s \in BufferState : p.counts[s] = Cardinality(InState(p, s)),
         NEW q, q = ChangeBufferState(p, new, b)
  PROVE  /\ q \in Bookkeeping
         /\ q.state = [p.state EXCEPT ![b] = new]
         /\ q.available = p.available
         /\ \A s \in BufferState : q.counts[s] = Cardinality(InState(q, s))
<1> DEFINE old == p.state[b]
<1>1. /\ q.state = [p.state EXCEPT ![b] = new]
      /\ q.available = p.available
      /\ q.size = p.size
      /\ q = [state |-> q.state, size |-> q.size, counts |-> q.counts,
              available |-> q.available]
  BY Zenon DEF ChangeBufferState, Bookkeeping
<1>2. q.counts = [s \in BufferState |-> IF s = old THEN p.counts[s] - 1
                                        ELSE IF s = new THEN p.counts[s] + 1
                                        ELSE p.counts[s]]
  BY Zenon DEF ChangeBufferState, Bookkeeping
<1>3. /\ InState(q, old) = InState(p, old) \ {b}
      /\ InState(q, new) = InState(p, new) \union {b}
      /\ \A s \in BufferState \ {old, new} : InState(q, s) = InState(p, s)
      /\ b \in InState(p, old) /\ b \notin InState(p, new)
  BY <1>1 DEF InState, Bookkeeping
<1>4. /\ Cardinality(InState(q, old)) = Cardinality(InState(p, old)) - 1
      /\ Cardinality(InState(q, new)) = Cardinality(InState(p, new)) + 1
  <2>1. IsFiniteSet(InState(p, old)) /\ IsFiniteSet(InState(p, new))
    BY InStateFinite, Zenon
  <2>2. Cardinality(InState(p, old) \ {b}) = Cardinality(InState(p, old)) - 1
    BY <1>3, <2>1, FS_RemoveElement, Zenon
  <2>3. Cardinality(InState(p, new) \union {b}) = Cardinality(InState(p, new)) + 1
    BY <1>3, <2>1, FS_AddElement, Zenon
  <2> QED
    BY <1>3, <2>2, <2>3, Zenon
<1>5. \A s \in BufferState : q.counts[s] = Cardinality(InState(q, s))
  BY <1>2, <1>3, <1>4, Zenon
<1>6. q.counts \in [BufferState -> Nat]
  BY <1>2, <1>5, InStateFinite
<1>7. q.state \in [Buffers -> BufferState \union {"none", "deleted"}]
  BY <1>1, Zenon DEF Bookkeeping
<1>8. q \in Bookkeeping
  BY <1>1, <1>6, <1>7, Zenon DEF Bookkeeping
<1> QED
  BY <1>1, <1>5, <1>8, Zenon

(* The end of GetNextBufferUnlocked, which pops the free list.             *)
LEMMA TakeAvailableConsistent ==
  ASSUME NEW p \in Bookkeeping, IsConsistent(p), p.available # <<>>,
         NEW q, q = TakeAvailable(p),
         NEW b, b = Head(p.available)
  PROVE  /\ q \in Bookkeeping /\ IsConsistent(q)
         /\ b \in Buffers /\ b \in InState(p, "kAvailable")
         /\ b \notin InState(p, "kInUse") /\ b \notin InState(p, "kPendingWrite")
         /\ InState(q, "kInUse") = InState(p, "kInUse") \union {b}
         /\ InState(q, "kPendingWrite") = InState(p, "kPendingWrite")
<1>1. p.available \in Seq(Buffers)
  BY Zenon DEF Bookkeeping
<1>2. /\ b \in Range(p.available) /\ IsInjective(Tail(p.available))
      /\ Range(Tail(p.available)) = Range(p.available) \ {b}
  BY <1>1, TailInjective, Zenon DEF IsConsistent
<1>3. b \in Buffers /\ p.state[b] = "kAvailable"
  BY <1>2, Zenon DEF IsConsistent, InState
<1>4. PICK r : r = [p EXCEPT !.available = Tail(@)]
  BY Zenon
<1>5. /\ r \in Bookkeeping /\ r.state = p.state /\ r.counts = p.counts
      /\ r.available = Tail(p.available)
  BY <1>1, <1>4, HeadTailProperties, Zenon DEF Bookkeeping
<1>6. \A s \in BufferState : r.counts[s] = Cardinality(InState(r, s))
  BY <1>5 DEF IsConsistent, InState
<1>7. q = ChangeBufferState(r, "kInUse", b)
  BY <1>4, Zenon DEF TakeAvailable
<1>8. /\ q \in Bookkeeping /\ q.state = [p.state EXCEPT ![b] = "kInUse"]
      /\ q.available = Tail(p.available)
      /\ \A s \in BufferState : q.counts[s] = Cardinality(InState(q, s))
  <2>1. /\ r.state[b] \in BufferState /\ r.state[b] # "kInUse"
        /\ "kInUse" \in BufferState
    BY <1>3, <1>5, Zenon DEF BufferState
  <2> QED
    BY <2>1, <1>3, <1>5, <1>6, <1>7, ChangeBufferStateCounts
<1>9. q.state[b] = "kInUse" /\ \A x \in Buffers \ {b} : q.state[x] = p.state[x]
  BY <1>3, <1>8, Zenon DEF Bookkeeping
<1>10. /\ InState(q, "kAvailable") = InState(p, "kAvailable") \ {b}
       /\ InState(q, "kInUse") = InState(p, "kInUse") \union {b}
       /\ InState(q, "kPendingWrite") = InState(p, "kPendingWrite")
  BY <1>3, <1>9, Zenon DEF InState
<1>11. /\ b \in InState(p, "kAvailable") /\ b \notin InState(p, "kInUse")
       /\ b \notin InState(p, "kPendingWrite")
  BY <1>3, Zenon DEF InState
<1>12. IsConsistent(q)
  BY <1>2, <1>8, <1>10, Zenon DEF IsConsistent
<1> QED
  BY <1>3, <1>8, <1>10, <1>11, <1>12, Zenon

(* ReturnBuffer's change of the buffer's state.                            *)
LEMMA ReturnConsistent ==
  ASSUME NEW p \in Bookkeeping, IsConsistent(p), NEW b \in InState(p, "kInUse"),
         NEW q, q = ChangeBufferState(p, "kPendingWrite", b)
  PROVE  /\ q \in Bookkeeping /\ IsConsistent(q)
         /\ b \notin InState(p, "kPendingWrite")
         /\ InState(q, "kInUse") = InState(p, "kInUse") \ {b}
         /\ InState(q, "kPendingWrite") = InState(p, "kPendingWrite") \union {b}
<1>1. /\ b \in Buffers /\ p.state[b] = "kInUse"
      /\ p.state[b] \in BufferState /\ p.state[b] # "kPendingWrite"
      /\ "kPendingWrite" \in BufferState
  BY Zenon DEF BufferState, InState
<1>2. \A s \in BufferState : p.counts[s] = Cardinality(InState(p, s))
  BY Zenon DEF IsConsistent
<1>3. /\ q \in Bookkeeping /\ q.state = [p.state EXCEPT ![b] = "kPendingWrite"]
      /\ q.available = p.available
      /\ \A s \in BufferState : q.counts[s] = Cardinality(InState(q, s))
  BY <1>1, <1>2, ChangeBufferStateCounts
<1>4. /\ q.state[b] = "kPendingWrite"
      /\ \A x \in Buffers \ {b} : q.state[x] = p.state[x]
  BY <1>1, <1>3, Zenon DEF Bookkeeping
<1>5. /\ InState(q, "kAvailable") = InState(p, "kAvailable")
      /\ InState(q, "kInUse") = InState(p, "kInUse") \ {b}
      /\ InState(q, "kPendingWrite") = InState(p, "kPendingWrite") \union {b}
      /\ b \notin InState(p, "kPendingWrite")
  BY <1>1, <1>4, Zenon DEF InState
<1>6. IsConsistent(q)
  BY <1>3, <1>5, Zenon DEF IsConsistent
<1> QED
  BY <1>3, <1>5, <1>6, Zenon

(* RecycleBuffer, which puts the buffer at the front of the free list.     *)
LEMMA MakeAvailableConsistent ==
  ASSUME NEW p \in Bookkeeping, IsConsistent(p), NEW b \in Buffers,
         p.state[b] = "kPendingWrite",
         NEW q, q = MakeAvailable(p, b)
  PROVE  /\ q \in Bookkeeping /\ IsConsistent(q)
         /\ q.state = [p.state EXCEPT ![b] = "kAvailable"]
<1>1. PICK front : front = <<b>>
  BY Zenon
<1>2. /\ front \in Seq(Buffers) /\ p.available \in Seq(Buffers)
      /\ IsInjective(front) /\ Range(front) = {b}
  BY <1>1 DEF Bookkeeping, IsInjective, Range
<1>3. PICK available : available = front \o p.available
  BY Zenon
<1>4. /\ available \in Seq(Buffers)
      /\ Range(available) = {b} \union Range(p.available)
  BY <1>2, <1>3, ConcatProperties, RangeConcatenation
<1>5. IsInjective(available)
  <2>1. IsInjective(p.available) /\ b \notin Range(p.available)
    BY Zenon DEF IsConsistent, InState
  <2>2. Range(front) \intersect Range(p.available) = {}
    BY <1>2, <2>1, Zenon
  <2> QED
    BY <1>2, <1>3, <2>1, <2>2, ConcatInjective, Zenon
<1>6. PICK r : r = [p EXCEPT !.available = available]
  BY Zenon
<1>7. /\ r \in Bookkeeping /\ r.state = p.state /\ r.counts = p.counts
      /\ r.available = available
  BY <1>4, <1>6, Zenon DEF Bookkeeping
<1>8. \A s \in BufferState : r.counts[s] = Cardinality(InState(r, s))
  BY <1>7 DEF IsConsistent, InState
<1>9. /\ r.state[b] \in BufferState /\ r.state[b] # "kAvailable"
      /\ "kAvailable" \in BufferState
  BY <1>7, Zenon DEF BufferState
<1>10. q = ChangeBufferState(r, "kAvailable", b)
  BY <1>1, <1>3, <1>6, Zenon DEF MakeAvailable
<1>11. /\ q \in Bookkeeping /\ q.state = [p.state EXCEPT ![b] = "kAvailable"]
       /\ q.available = available
       /\ \A s \in BufferState : q.counts[s] = Cardinality(InState(q, s))
  BY <1>7, <1>8, <1>9, <1>10, ChangeBufferStateCounts
<1>12. InState(q, "kAvailable") = InState(p, "kAvailable") \union {b}
  BY <1>11 DEF InState, Bookkeeping
<1> QED
  BY <1>4, <1>5, <1>11, <1>12, Zenon DEF IsConsistent

(* AllocateBufferForImmediateUse, which bypasses the free list.            *)
LEMMA ImmediateUseConsistent ==
  ASSUME NEW p \in Bookkeeping, IsConsistent(p), NEW b \in Fresh(p),
         NEW size \in Nat,
         NEW q, q = AllocateBufferForImmediateUse(p, b, size)
  PROVE  /\ q \in Bookkeeping /\ IsConsistent(q)
         /\ q.state = [p.state EXCEPT ![b] = "kInUse"]
<1>1. b \in Buffers /\ p.state[b] = "none"
  BY Zenon DEF Fresh
<1>2. /\ q.state = [p.state EXCEPT ![b] = "kInUse"]
      /\ q.counts = [p.counts EXCEPT !["kInUse"] = @ + 1]
      /\ q.available = p.available
      /\ q \in Bookkeeping
  <2>1. PICK aligned \in Nat : aligned = AlignUp(size, BlockSize)
    BY AlignUpIsNat, Zenon
  <2> QED
    BY <1>1, <2>1
    DEF AllocateBufferForImmediateUse, Bookkeeping, BufferState
<1>3. /\ InState(q, "kInUse") = InState(p, "kInUse") \union {b}
      /\ b \notin InState(p, "kInUse")
      /\ InState(q, "kAvailable") = InState(p, "kAvailable")
      /\ InState(q, "kPendingWrite") = InState(p, "kPendingWrite")
  BY <1>1, <1>2 DEF InState, Bookkeeping
<1>4. Cardinality(InState(q, "kInUse")) = Cardinality(InState(p, "kInUse")) + 1
  <2>1. IsFiniteSet(InState(p, "kInUse"))
    BY InStateFinite, Zenon
  <2> QED
    BY <1>3, <2>1, FS_AddElement
<1>5. \A s \in BufferState : q.counts[s] = Cardinality(InState(q, s))
  BY <1>2, <1>3, <1>4, Zenon DEF IsConsistent, BufferState, Bookkeeping
<1> QED
  BY <1>2, <1>3, <1>5, Zenon DEF IsConsistent

(* DestroySingletonBuffer, which drops a write-pending buffer.             *)
LEMMA DestroySingletonConsistent ==
  ASSUME NEW p \in Bookkeeping, IsConsistent(p), NEW b \in Buffers,
         p.state[b] = "kPendingWrite",
         NEW q, q = DestroySingletonBuffer(p, b)
  PROVE  /\ q \in Bookkeeping /\ IsConsistent(q)
         /\ q.state = [p.state EXCEPT ![b] = "deleted"]
<1>1. /\ q.state = [p.state EXCEPT ![b] = "deleted"]
      /\ q.size = p.size
      /\ q.counts = [p.counts EXCEPT !["kPendingWrite"] = @ - 1]
      /\ q.available = p.available
  BY Zenon DEF DestroySingletonBuffer
<1>2. /\ InState(q, "kPendingWrite") = InState(p, "kPendingWrite") \ {b}
      /\ b \in InState(p, "kPendingWrite")
      /\ InState(q, "kAvailable") = InState(p, "kAvailable")
      /\ InState(q, "kInUse") = InState(p, "kInUse")
  BY <1>1 DEF InState, Bookkeeping
<1>3. Cardinality(InState(q, "kPendingWrite"))
        = Cardinality(InState(p, "kPendingWrite")) - 1
  <2>1. IsFiniteSet(InState(p, "kPendingWrite"))
    BY InStateFinite, Zenon
  <2> QED
    BY <1>2, <2>1, FS_RemoveElement, Zenon
<1>4. \A s \in BufferState : q.counts[s] = Cardinality(InState(q, s))
  BY <1>1, <1>2, <1>3, Zenon DEF IsConsistent, BufferState, Bookkeeping
<1>5. q.counts \in [BufferState -> Nat]
  <2>1. DOMAIN q.counts = BufferState
    BY <1>1, Zenon DEF Bookkeeping
  <2>2. \A s \in BufferState : q.counts[s] \in Nat
    BY <1>4, InStateFinite, Zenon
  <2> QED
    BY <1>1, <2>1, <2>2, Zenon DEF Bookkeeping
<1>6. q \in Bookkeeping
  BY <1>1, <1>5, Zenon DEF DestroySingletonBuffer, Bookkeeping
<1> QED
  BY <1>1, <1>2, <1>4, <1>6, Zenon DEF IsConsistent

(* The loop of Close over the buffers in use.                              *)
LEMMA FlushInUseConsistent ==
  ASSUME NEW p \in Bookkeeping, IsConsistent(p),
         NEW q, q = FlushInUse(p)
  PROVE  /\ q \in Bookkeeping /\ IsConsistent(q)
         /\ q.state = [b \in Buffers |-> IF p.state[b] = "kInUse"
                                         THEN "kPendingWrite" ELSE p.state[b]]
         /\ q.available = p.available
<1> DEFINE n == Cardinality(InState(p, "kInUse"))
           m == Cardinality(InState(p, "kPendingWrite"))
<1>1. /\ q.state = [b \in Buffers |-> IF p.state[b] = "kInUse"
                                      THEN "kPendingWrite" ELSE p.state[b]]
      /\ q.size = p.size
      /\ q.counts = [p.counts EXCEPT !["kInUse"] = @ - n,
                                     !["kPendingWrite"] = @ + n]
      /\ q.available = p.available
  BY Zenon DEF FlushInUse
<1>2. /\ InState(q, "kInUse") = {}
      /\ InState(q, "kPendingWrite")
           = InState(p, "kPendingWrite") \union InState(p, "kInUse")
      /\ InState(p, "kPendingWrite") \intersect InState(p, "kInUse") = {}
      /\ InState(q, "kAvailable") = InState(p, "kAvailable")
  BY <1>1 DEF InState
<1>3. /\ Cardinality(InState(q, "kInUse")) = 0
      /\ Cardinality(InState(q, "kPendingWrite")) = m + n
      /\ m \in Nat /\ n \in Nat
  <2>1. /\ IsFiniteSet(InState(p, "kPendingWrite")) /\ m \in Nat
        /\ IsFiniteSet(InState(p, "kInUse")) /\ n \in Nat
    BY InStateFinite, Zenon
  <2>2. Cardinality(InState(q, "kPendingWrite")) = m + n - Cardinality({})
    BY <1>2, <2>1, FS_Union
  <2>3. Cardinality({}) = 0
    BY FS_EmptySet, Zenon
  <2>4. Cardinality(InState(q, "kInUse")) = 0
    BY <1>2, <2>3, Zenon
  <2>5. Cardinality(InState(q, "kPendingWrite")) = m + n - 0
    BY <2>2, <2>3, Zenon
  <2> HIDE DEF n, m
  <2> QED
    BY <2>1, <2>4, <2>5
<1>4. \A s \in BufferState : q.counts[s] = Cardinality(InState(q, s))
  <2>1. /\ p.counts["kInUse"] = n /\ p.counts["kPendingWrite"] = m
        /\ p.counts["kAvailable"] = Cardinality(InState(p, "kAvailable"))
    BY Zenon DEF IsConsistent, BufferState
  <2>2. /\ q.counts["kInUse"] = n - n /\ q.counts["kPendingWrite"] = m + n
        /\ q.counts["kAvailable"] = p.counts["kAvailable"]
    BY <1>1, <2>1, Zenon DEF Bookkeeping, BufferState
  <2> HIDE DEF n, m
  <2> QED
    BY <1>2, <1>3, <2>1, <2>2 DEF BufferState
<1>5. q.counts \in [BufferState -> Nat]
  <2>1. \A s \in BufferState : q.counts[s] \in Nat
    BY <1>4, InStateFinite, Zenon
  <2> QED
    BY <1>1, <2>1, Zenon DEF Bookkeeping
<1>6. q.state \in [Buffers -> BufferState \union {"none", "deleted"}]
  BY <1>1 DEF Bookkeeping, BufferState
<1>7. q \in Bookkeeping
  BY <1>1, <1>5, <1>6, Zenon DEF FlushInUse, Bookkeeping
<1> QED
  BY <1>1, <1>2, <1>4, <1>7, Zenon DEF IsConsistent

(* The pools of n new buffers that the book-keeping p has room for.        *)
PoolsOf(p, n) == {pool \in [1 .. n -> Fresh(p)] : IsInjective(pool)}

(* AllocateBuffers, which appends a pool of new buffers to the free list.  *)
LEMMA AllocateBuffersConsistent ==
  ASSUME NEW p \in Bookkeeping, IsConsistent(p),
         NEW n \in Nat \ {0}, NEW size \in Nat,
         NEW pool \in PoolsOf(p, n),
         NEW q, q = AllocateBuffers(p, pool, size)
  PROVE  /\ q \in Bookkeeping /\ IsConsistent(q)
         /\ q.available # <<>>
         /\ p.available = <<>> => Head(q.available) = Head(pool)
         /\ InState(q, "kInUse") = InState(p, "kInUse")
         /\ InState(q, "kPendingWrite") = InState(p, "kPendingWrite")
<1>0. pool \in [1 .. n -> Fresh(p)] /\ IsInjective(pool)
  BY Zenon DEF PoolsOf
<1>1. /\ pool \in Seq(Buffers) /\ Len(pool) = n
      /\ p.available \in Seq(Buffers)
      /\ Range(pool) \subseteq Buffers
      /\ \A b \in Range(pool) : p.state[b] = "none"
  <2>1. Range(pool) \subseteq Fresh(p)
    BY <1>0, Zenon DEF Range
  <2>2. Fresh(p) \subseteq Buffers /\ \A b \in Fresh(p) : p.state[b] = "none"
    BY Zenon DEF Fresh
  <2>3. pool \in Seq(Buffers) /\ Len(pool) = n
    BY <1>0, <2>2
  <2> QED
    BY <2>1, <2>2, <2>3, Zenon DEF Bookkeeping
<1>2. PICK aligned \in Nat : aligned = AlignUp(size, BlockSize)
  BY AlignUpIsNat, Zenon
<1>3. PICK available : available = p.available \o pool
  BY Zenon
<1>4. /\ q.state = [b \in Buffers |-> IF b \in Range(pool) THEN "kAvailable"
                                      ELSE p.state[b]]
      /\ q.size = [b \in Buffers |-> IF b \in Range(pool) THEN aligned
                                     ELSE p.size[b]]
      /\ q.counts = [p.counts EXCEPT !["kAvailable"] = @ + n]
      /\ q.available = available
  BY <1>1, <1>2, <1>3, Zenon DEF AllocateBuffers
<1>5. /\ available \in Seq(Buffers)
      /\ Len(available) = Len(p.available) + n
      /\ Range(available) = Range(p.available) \union Range(pool)
  <2>1. Range(available) = Range(p.available) \union Range(pool)
    BY <1>1, <1>3, RangeConcatenation
  <2> QED
    BY <1>1, <1>3, <2>1, ConcatProperties, Zenon
<1>6. available # <<>>
  <2>1. Len(p.available) \in Nat
    BY <1>1, LenProperties, Zenon
  <2>2. Len(available) # 0
    BY <1>5, <2>1
  <2> QED
    BY <2>2, EmptySeq, Zenon
<1>7. /\ InState(q, "kAvailable") = InState(p, "kAvailable") \union Range(pool)
      /\ InState(p, "kAvailable") \intersect Range(pool) = {}
      /\ InState(q, "kInUse") = InState(p, "kInUse")
      /\ InState(q, "kPendingWrite") = InState(p, "kPendingWrite")
  BY <1>1, <1>4, Zenon DEF InState
<1>8. IsFiniteSet(Range(pool)) /\ Cardinality(Range(pool)) = n
  <2>1. pool \in Injection(1 .. n, Range(pool)) /\ pool \in Surjection(1 .. n, Range(pool))
    BY <1>0, Zenon DEF Injection, Surjection, Range
  <2>2. IsFiniteSet(1 .. n) /\ Cardinality(1 .. n) = n
    BY FS_Interval
  <2> QED
    BY <2>1, <2>2, FS_Surjection, Zenon
<1>9. Cardinality(InState(q, "kAvailable")) = Cardinality(InState(p, "kAvailable")) + n
  <2>1. /\ IsFiniteSet(InState(p, "kAvailable"))
        /\ Cardinality(InState(p, "kAvailable")) \in Nat
    BY InStateFinite, Zenon
  <2>2. Cardinality(InState(q, "kAvailable"))
          = Cardinality(InState(p, "kAvailable")) + n - Cardinality({})
    BY <1>7, <1>8, <2>1, FS_Union, Zenon
  <2>3. Cardinality({}) = 0
    BY FS_EmptySet, Zenon
  <2>4. Cardinality(InState(q, "kAvailable"))
          = Cardinality(InState(p, "kAvailable")) + n - 0
    BY <2>2, <2>3, Zenon
  <2> QED
    BY <2>1, <2>4
<1>10. \A s \in BufferState : q.counts[s] = Cardinality(InState(q, s))
  BY <1>4, <1>7, <1>9, Zenon DEF IsConsistent, BufferState, Bookkeeping
<1>11. IsInjective(available)
  <2>1. IsInjective(p.available) /\ Range(p.available) \intersect Range(pool) = {}
    BY <1>7, Zenon DEF IsConsistent
  <2> QED
    BY <1>0, <1>1, <1>3, <2>1, ConcatInjective, Zenon
<1>12. q.counts \in [BufferState -> Nat]
  BY <1>4 DEF Bookkeeping, BufferState
<1>13. q \in Bookkeeping
  <2>1. /\ q.state \in [Buffers -> BufferState \union {"none", "deleted"}]
        /\ q.size \in [Buffers -> Nat]
    BY <1>4 DEF Bookkeeping, BufferState
  <2>2. q = [state |-> q.state, size |-> q.size, counts |-> q.counts,
             available |-> q.available]
    BY Zenon DEF AllocateBuffers
  <2> QED
    BY <1>4, <1>5, <1>12, <2>1, <2>2, Zenon DEF Bookkeeping
<1>14. p.available = <<>> => Head(available) = Head(pool)
  <2> SUFFICES ASSUME p.available = <<>> PROVE available = pool
    BY Zenon
  <2> QED
    BY <1>1, <1>3, ConcatEmptySeq, Zenon
<1>15. IsConsistent(q)
  BY <1>4, <1>5, <1>7, <1>10, <1>11, Zenon DEF IsConsistent
<1> QED
  BY <1>4, <1>6, <1>7, <1>13, <1>14, <1>15, Zenon

-----------------------------------------------------------------------------
(***************************************************************************)
(* The safety invariants.                                                  *)
(***************************************************************************)

(* The requests inside Wait or on their way out of it are the ones that    *)
(* buffer_requests_waiting_for_recycle_ counts, so that it is a natural    *)
(* number when a request leaves.                                           *)
InWait == At("wait") \union At("woken")
WaitingIsCounted == waiting = Cardinality(InWait)

(* A thread that is returning a buffer has one.                            *)
ArgsAreBuffers ==
  \A t \in Threads : pc[t] \in {"return", "consume"} => arg[t] \in Buffers

(* The inductive invariant.                                                *)
SessionInv ==
  /\ TypeOK
  /\ WaitingIsCounted
  /\ ArgsAreBuffers
  /\ BookkeepingIsConsistent
  /\ PendingWriteHasOneTask
  /\ InUseHasOneClient

(* The requests that wait are finitely many, so that they can be counted.  *)
LEMMA InWaitFinite ==
  TypeOK => IsFiniteSet(InWait) /\ Cardinality(InWait) \in Nat
<1>1. InWait \in SUBSET Threads
  BY Zenon DEF InWait, At
<1> QED
  BY <1>1, SessionAssumption, FS_Subset, FS_CardinalityType, Zenon

(* A new session has no buffers and no calls: the invariant holds.         *)
LEMMA InitInv == Init => SessionInv
<1> SUFFICES ASSUME Init PROVE SessionInv
  BY Zenon
<1>1. /\ \A s : s \in BufferState => InState(bufs, s) = {}
      /\ Range(bufs.available) = {} /\ IsInjective(bufs.available)
      /\ bufs.counts = [s \in BufferState |-> 0]
  BY DEF Init, NoBuffers, InState, BufferState, Range, IsInjective
<1>2. Cardinality({}) = 0
  BY FS_EmptySet, Zenon
<1>3. BookkeepingIsConsistent
  <2>1. "kAvailable" \in BufferState
    BY Zenon DEF BufferState
  <2>2. ASSUME NEW s \in BufferState
        PROVE  bufs.counts[s] = Cardinality(InState(bufs, s))
    <3>1. Cardinality(InState(bufs, s)) = 0
      BY <1>1, <1>2, Zenon
    <3> QED
      BY <1>1, <3>1, Zenon
  <2> QED
    BY <1>1, <2>1, <2>2, Zenon DEF BookkeepingIsConsistent, IsConsistent
<1>4. TypeOK
  <2>1. bufs \in Bookkeeping
    BY DEF Init, Bookkeeping, NoBuffers
  <2>2. /\ is_closing_ \in BOOLEAN /\ waiting \in Nat
        /\ pc \in [Threads -> {"idle", "wait", "woken", "return", "consume",
                               "exchange"}]
        /\ arg \in [Threads -> Pointer] /\ exchange \in [Threads -> BOOLEAN]
        /\ held \in [Threads -> SUBSET Buffers]
        /\ writer \in Pointer
    BY Zenon DEF Init, Pointer
  <2>3. /\ unused \in SUBSET Records
        /\ content \in [Buffers -> Records \union {Empty, Ended}]
    BY Zenon DEF Init
  <2>4. queue \in Seq(Buffers) /\ file \in Seq(Records \union {Ended})
    BY DEF Init
  <2> QED
    BY <2>1, <2>2, <2>3, <2>4, Zenon DEF TypeOK
<1>5. WaitingIsCounted
  <2>1. InWait = {}
    BY Zenon DEF Init, InWait, At
  <2> QED
    BY <1>2, <2>1, Zenon DEF Init, WaitingIsCounted
<1>6. /\ ArgsAreBuffers
      /\ Consuming = {} /\ Returning = {} /\ Writing = {} /\ Held = {}
      /\ At("consume") = {} /\ At("return") = {}
      /\ Range(queue) = {} /\ IsInjective(queue)
  BY DEF Init, ArgsAreBuffers, Consuming, Returning, Writing, Held, At, Range,
         IsInjective
<1>7. PendingWriteHasOneTask
  BY <1>1, <1>6, Zenon DEF PendingWriteHasOneTask, TasksAreDistinct, BufferState
<1>8. InUseHasOneClient
  BY <1>1, <1>6, Zenon DEF InUseHasOneClient, BufferState, Init
<1> QED
  BY <1>3, <1>4, <1>5, <1>6, <1>7, <1>8, Zenon DEF SessionInv

-----------------------------------------------------------------------------
(* What the moves of the RPC threads do to the sets the invariants are     *)
(* about.                                                                  *)

(* A request that returns or starts to wait, and the waiters it releases.  *)
LEMMA GoToEffect ==
  ASSUME TypeOK, NEW t \in Threads, pc[t] \notin {"return", "consume"},
         NEW where \in {"idle", "wait"}, NEW W \in SUBSET Waiters,
         GoTo(t, where, W)
  PROVE  /\ pc' \in [Threads -> {"idle", "wait", "woken", "return", "consume",
                                 "exchange"}]
         /\ At("return")' = At("return") /\ At("consume")' = At("consume")
         /\ InWait' = IF where = "wait" THEN InWait \union {t} ELSE InWait \ {t}
  BY Zenon DEF TypeOK, GoTo, At, InWait, Waiters

(* Signal moves requests from waiting to woken, both of them counted.      *)
LEMMA WakeEffect ==
  ASSUME TypeOK, NEW W \in SUBSET Waiters, Wake(W)
  PROVE  /\ pc' \in [Threads -> {"idle", "wait", "woken", "return", "consume",
                                 "exchange"}]
         /\ At("return")' = At("return") /\ At("consume")' = At("consume")
         /\ InWait' = InWait
  BY Zenon DEF TypeOK, Wake, At, InWait, Waiters

(* The invariants after a step that hands buffer b to thread t.            *)
LEMMA DeliverStep ==
  ASSUME SessionInv, NEW t \in Threads, pc[t] \in {"idle", "woken", "exchange"},
         NEW p \in Bookkeeping, IsConsistent(p), NEW b \in Buffers,
         b \notin InState(bufs, "kInUse"), b \notin InState(bufs, "kPendingWrite"),
         InState(p, "kInUse") = InState(bufs, "kInUse") \union {b},
         InState(p, "kPendingWrite") = InState(bufs, "kPendingWrite"),
         NEW W \in SUBSET Waiters, Deliver(t, p, b, W),
         waiting' = Cardinality(InWait \ {t}), UnchangedButBuffers
  PROVE  SessionInv'
<1>1. TypeOK /\ pc[t] \notin {"return", "consume"} /\ GoTo(t, "idle", W)
  BY Zenon DEF SessionInv, Deliver
<1>2. /\ pc' \in [Threads -> {"idle", "wait", "woken", "return", "consume",
                              "exchange"}]
      /\ At("return")' = At("return") /\ At("consume")' = At("consume")
      /\ InWait' = InWait \ {t}
  BY <1>1, GoToEffect, Zenon
<1>3. /\ bufs' = p /\ held' = [held EXCEPT ![t] = @ \union {b}]
      /\ is_closing_' = is_closing_ /\ arg' = arg /\ queue' = queue
      /\ writer' = writer /\ exchange' = exchange /\ unused' = unused
      /\ content' = content /\ file' = file
  BY Zenon DEF Deliver, UnchangedButBuffers
<1>4. WaitingIsCounted'
  BY <1>2, Zenon DEF WaitingIsCounted
<1>5. waiting' \in Nat
  <2>1. IsFiniteSet(InWait)
    BY <1>1, InWaitFinite, Zenon
  <2>2. IsFiniteSet(InWait \ {t})
    BY <2>1, FS_RemoveElement, Zenon
  <2> QED
    BY <2>2, FS_CardinalityType, Zenon
<1>6. TypeOK'
  BY <1>1, <1>2, <1>3, <1>5, Zenon DEF TypeOK
<1>7. ArgsAreBuffers'
  BY <1>2, <1>3, Zenon DEF SessionInv, ArgsAreBuffers, At, TypeOK
<1>8. BookkeepingIsConsistent'
  BY <1>3, Zenon DEF BookkeepingIsConsistent
<1>9. Consuming' = Consuming /\ Returning' = Returning /\ Writing' = Writing
  BY <1>2, <1>3, Zenon DEF Consuming, Returning, Writing
<1>10. PendingWriteHasOneTask'
  BY <1>2, <1>3, <1>9 DEF SessionInv, PendingWriteHasOneTask, TasksAreDistinct
<1>11. Held' = Held \union {b}
  BY <1>1, <1>3, Zenon DEF Held, TypeOK
<1>12. InUseHasOneClient'
  <2> SUFFICES ASSUME ~is_closing_ PROVE InUseHasOneClient'
    BY <1>3, Zenon DEF InUseHasOneClient
  <2>1. /\ InState(bufs, "kInUse") = Held \union Returning
        /\ Held \intersect Returning = {}
        /\ \A u, v \in Threads : u # v => held[u] \intersect held[v] = {}
        /\ \A u, v \in At("return") : arg[u] = arg[v] => u = v
    BY Zenon DEF SessionInv, InUseHasOneClient
  <2>2. b \notin Held /\ b \notin Returning
    BY <2>1, Zenon
  <2>3. \A u \in Threads : b \notin held[u]
    BY <2>2, Zenon DEF Held
  <2>4. \A u, v \in Threads : u # v => held'[u] \intersect held'[v] = {}
    BY <1>1, <1>3, <2>1, <2>3 DEF TypeOK
  <2>5. InState(bufs, "kInUse")' = (Held \union Returning)'
    BY <1>3, <1>9, <1>11, <2>1, Zenon
  <2> QED
    BY <1>2, <1>3, <1>9, <1>11, <2>1, <2>2, <2>4, <2>5 DEF InUseHasOneClient
<1> QED
  BY <1>4, <1>6, <1>7, <1>8, <1>10, <1>12, Zenon DEF SessionInv

(* The invariants after a step that only moves threads and the count of    *)
(* waiting requests.                                                       *)
LEMMA MoveStep ==
  ASSUME SessionInv, UnchangedButBuffers, UNCHANGED <<bufs, held>>,
         pc' \in [Threads -> {"idle", "wait", "woken", "return", "consume",
                              "exchange"}],
         At("return")' = At("return"), At("consume")' = At("consume"),
         IsFiniteSet(InWait'), waiting' = Cardinality(InWait')
  PROVE  SessionInv'
<1>1. /\ bufs' = bufs /\ held' = held
      /\ is_closing_' = is_closing_ /\ arg' = arg /\ queue' = queue
      /\ writer' = writer /\ exchange' = exchange /\ unused' = unused
      /\ content' = content /\ file' = file
  BY Zenon DEF UnchangedButBuffers
<1>2. waiting' \in Nat
  BY FS_CardinalityType, Zenon
<1>3. TypeOK'
  BY <1>1, <1>2, Zenon DEF SessionInv, TypeOK
<1>4. ArgsAreBuffers'
  BY <1>1, <1>3, Zenon DEF SessionInv, ArgsAreBuffers, At, TypeOK
<1>5. BookkeepingIsConsistent'
  BY <1>1, Zenon DEF SessionInv, BookkeepingIsConsistent
<1>6. /\ Consuming' = Consuming /\ Returning' = Returning /\ Writing' = Writing
      /\ Held' = Held
  BY <1>1, Zenon DEF Consuming, Returning, Writing, Held
<1>7. PendingWriteHasOneTask'
  BY <1>1, <1>6 DEF SessionInv, PendingWriteHasOneTask, TasksAreDistinct
<1>8. InUseHasOneClient'
  BY <1>1, <1>6 DEF SessionInv, InUseHasOneClient
<1> QED
  BY <1>3, <1>4, <1>5, <1>7, <1>8, Zenon DEF SessionInv, WaitingIsCounted

(* A step that leaves the posted tasks, the threads about to post and the  *)
(* set of write-pending buffers alone leaves the claim about them alone.   *)
LEMMA TasksKept ==
  ASSUME PendingWriteHasOneTask, queue' = queue,
         InState(bufs', "kPendingWrite") = InState(bufs, "kPendingWrite"),
         At("consume")' = At("consume"),
         \A u \in At("consume") : arg'[u] = arg[u],
         Consuming' = Consuming, Writing' = Writing
  PROVE  PendingWriteHasOneTask'
<1>1. \A u, v \in At("consume")' : arg'[u] = arg'[v] => u = v
  <2>1. \A u, v \in At("consume") : arg[u] = arg[v] => u = v
    BY Zenon DEF PendingWriteHasOneTask, TasksAreDistinct
  <2> QED
    BY <2>1, Zenon
<1>2. TasksAreDistinct'
  BY <1>1, Zenon DEF PendingWriteHasOneTask, TasksAreDistinct
<1> QED
  BY <1>2, Zenon DEF PendingWriteHasOneTask

-----------------------------------------------------------------------------
(* The calls that ask for a buffer.                                        *)

(* A request that returns false.                                           *)
LEMMA RefuseStep ==
  ASSUME SessionInv, NEW t \in Threads, pc[t] \in {"idle", "woken", "exchange"},
         Refuse(t), waiting' = Cardinality(InWait \ {t}), UnchangedButBuffers
  PROVE  SessionInv'
<1>1. TypeOK /\ pc[t] \notin {"return", "consume"} /\ GoTo(t, "idle", {})
  BY Zenon DEF SessionInv, Refuse
<1>2. {} \in SUBSET Waiters
  BY Zenon
<1>3. /\ pc' \in [Threads -> {"idle", "wait", "woken", "return", "consume",
                              "exchange"}]
      /\ At("return")' = At("return") /\ At("consume")' = At("consume")
      /\ InWait' = InWait \ {t}
  BY <1>1, <1>2, GoToEffect, Zenon
<1>4. IsFiniteSet(InWait \ {t})
  <2>1. IsFiniteSet(InWait)
    BY <1>1, InWaitFinite, Zenon
  <2> QED
    BY <2>1, FS_RemoveElement, Zenon
<1>5. IsFiniteSet(InWait') /\ waiting' = Cardinality(InWait')
  BY <1>3, <1>4, Zenon
<1>6. UNCHANGED <<bufs, held>>
  BY Zenon DEF Refuse
<1> QED
  BY <1>3, <1>5, <1>6, MoveStep, Zenon

(* Signal releases only threads blocked in Wait.                           *)
LEMMA ReleasedAreWaiters ==
  ASSUME NEW n
  PROVE  Released(n) \subseteq SUBSET Waiters
  BY Zenon DEF Released

(* One pass of the loop of GetNextBufferUnlocked, however it ends.         *)
LEMMA GetNextBufferStep ==
  ASSUME SessionInv, NEW t \in Threads, pc[t] \in {"idle", "woken", "exchange"},
         NEW w, w = Cardinality(InWait \ {t}),
         GetNextBufferUnlocked(t, w), UnchangedButBuffers
  PROVE  SessionInv'
<1>1. bufs \in Bookkeeping /\ IsConsistent(bufs) /\ TypeOK
  BY Zenon DEF SessionInv, TypeOK, BookkeepingIsConsistent
<1>2. CASE /\ bufs.available # <<>>
           /\ Deliver(t, TakeAvailable(bufs), Head(bufs.available), {})
           /\ waiting' = w
  <2>1. PICK p, b : p = TakeAvailable(bufs) /\ b = Head(bufs.available)
    BY Zenon
  <2>2. bufs.available # <<>>
    BY <1>2, Zenon
  <2>3. /\ b \in Buffers /\ p \in Bookkeeping /\ IsConsistent(p)
        /\ b \notin InState(bufs, "kInUse") /\ b \notin InState(bufs, "kPendingWrite")
        /\ InState(p, "kInUse") = InState(bufs, "kInUse") \union {b}
        /\ InState(p, "kPendingWrite") = InState(bufs, "kPendingWrite")
    BY <1>1, <2>1, <2>2, TakeAvailableConsistent, Zenon
  <2>4. {} \in SUBSET Waiters /\ Deliver(t, p, b, {})
    BY <1>2, <2>1, Zenon
  <2>5. waiting' = Cardinality(InWait \ {t})
    BY <1>2, Zenon
  <2> QED
    BY <2>3, <2>4, <2>5, DeliverStep, Zenon
<1>3. CASE /\ bufs.available = <<>>
           /\ StartWaiting(t, w)
  <2>1. GoTo(t, "wait", {}) /\ waiting' = w + 1 /\ UNCHANGED <<bufs, held>>
    BY <1>3, Zenon DEF StartWaiting
  <2>2. {} \in SUBSET Waiters /\ pc[t] \notin {"return", "consume"}
    BY Zenon
  <2>3. /\ pc' \in [Threads -> {"idle", "wait", "woken", "return", "consume",
                                "exchange"}]
        /\ At("return")' = At("return") /\ At("consume")' = At("consume")
        /\ InWait' = InWait \union {t}
    BY <1>1, <2>1, <2>2, GoToEffect, Zenon
  <2>4. IsFiniteSet(InWait \ {t})
    BY <1>1, InWaitFinite, FS_RemoveElement, Zenon
  <2>5. PICK R : R = InWait \ {t}
    BY Zenon
  <2>6. InWait' = R \union {t} /\ t \notin R /\ IsFiniteSet(R)
    BY <2>3, <2>4, <2>5, Zenon
  <2>7. IsFiniteSet(InWait') /\ Cardinality(InWait') = Cardinality(R) + 1
    BY <2>6, FS_AddElement, Zenon
  <2>8. waiting' = Cardinality(InWait')
    BY <2>1, <2>5, <2>7, Zenon
  <2> QED
    BY <2>1, <2>3, <2>7, <2>8, MoveStep, Zenon
<1>4. CASE /\ bufs.available = <<>>
           /\ waiting' = w
           /\ \E pool \in NewPools(NumIncremental), W \in Released(NumIncremental) :
                Deliver(t, TakeAvailable(AllocateBuffers(bufs, pool, BufferSize)),
                        Head(pool), W)
  <2>1. PICK pool \in NewPools(NumIncremental), W \in Released(NumIncremental) :
          Deliver(t, TakeAvailable(AllocateBuffers(bufs, pool, BufferSize)),
                  Head(pool), W)
    BY <1>4, Zenon
  <2>2. PICK q : q = AllocateBuffers(bufs, pool, BufferSize)
    BY Zenon
  <2>3. /\ NumIncremental \in Nat \ {0} /\ BufferSize \in Nat
        /\ pool \in PoolsOf(bufs, NumIncremental)
    BY SessionAssumption, Zenon DEF NewPools, PoolsOf
  <2>4. bufs.available = <<>>
    BY <1>4, Zenon
  <2>5. /\ q \in Bookkeeping /\ IsConsistent(q)
        /\ q.available # <<>> /\ Head(q.available) = Head(pool)
        /\ InState(q, "kInUse") = InState(bufs, "kInUse")
        /\ InState(q, "kPendingWrite") = InState(bufs, "kPendingWrite")
    BY <1>1, <2>2, <2>3, <2>4, AllocateBuffersConsistent
  <2>6. PICK p, b : p = TakeAvailable(q) /\ b = Head(q.available)
    BY Zenon
  <2>7. /\ b \in Buffers /\ p \in Bookkeeping /\ IsConsistent(p)
        /\ b \notin InState(q, "kInUse") /\ b \notin InState(q, "kPendingWrite")
        /\ InState(p, "kInUse") = InState(q, "kInUse") \union {b}
        /\ InState(p, "kPendingWrite") = InState(q, "kPendingWrite")
    BY <2>5, <2>6, TakeAvailableConsistent
  <2>8. /\ b \notin InState(bufs, "kInUse") /\ b \notin InState(bufs, "kPendingWrite")
        /\ InState(p, "kInUse") = InState(bufs, "kInUse") \union {b}
        /\ InState(p, "kPendingWrite") = InState(bufs, "kPendingWrite")
    BY <2>5, <2>7, Zenon
  <2>9. W \in SUBSET Waiters /\ Deliver(t, p, b, W)
    BY <2>1, <2>2, <2>5, <2>6, ReleasedAreWaiters, Zenon
  <2>10. waiting' = Cardinality(InWait \ {t})
    BY <1>4, Zenon
  <2> QED
    BY <2>7, <2>8, <2>9, <2>10, DeliverStep, Zenon
<1>5. CASE Refuse(t) /\ waiting' = w
  BY <1>5, RefuseStep, Zenon
<1> QED
  BY <1>2, <1>3, <1>4, <1>5, Zenon DEF GetNextBufferUnlocked

(* GetBuffer: refused, from the common pool, or a buffer of its own.       *)
LEMMA GetBufferStep ==
  ASSUME SessionInv, NEW t \in Threads, pc[t] \in {"idle", "exchange"},
         NEW n \in Nat, GetBuffer(t, n), UnchangedButBuffers
  PROVE  SessionInv'
<1>1. bufs \in Bookkeeping /\ IsConsistent(bufs) /\ TypeOK
  BY Zenon DEF SessionInv, TypeOK, BookkeepingIsConsistent
<1>2. InWait = InWait \ {t} /\ pc[t] \in {"idle", "woken", "exchange"}
  BY Zenon DEF InWait, At
<1>3. waiting = Cardinality(InWait \ {t})
  BY <1>2, Zenon DEF SessionInv, WaitingIsCounted
<1>4. CASE Refuse(t) /\ UNCHANGED waiting
  <2>1. waiting' = Cardinality(InWait \ {t})
    BY <1>3, <1>4, Zenon
  <2> QED
    BY <1>2, <1>4, <2>1, RefuseStep, Zenon
<1>5. CASE GetNextBufferUnlocked(t, waiting)
  BY <1>2, <1>3, <1>5, GetNextBufferStep, Zenon
<1>6. CASE /\ UNCHANGED waiting
           /\ \E b \in Fresh(bufs) :
                Deliver(t, AllocateBufferForImmediateUse(bufs, b, n), b, {})
  <2>1. PICK b \in Fresh(bufs) :
          Deliver(t, AllocateBufferForImmediateUse(bufs, b, n), b, {})
    BY <1>6, Zenon
  <2>2. PICK p : p = AllocateBufferForImmediateUse(bufs, b, n)
    BY Zenon
  <2>3. /\ p \in Bookkeeping /\ IsConsistent(p)
        /\ p.state = [bufs.state EXCEPT ![b] = "kInUse"]
    BY <1>1, <2>2, ImmediateUseConsistent, Zenon
  <2>4. b \in Buffers /\ bufs.state[b] = "none"
    BY Zenon DEF Fresh
  <2>5. /\ b \notin InState(bufs, "kInUse") /\ b \notin InState(bufs, "kPendingWrite")
        /\ InState(p, "kInUse") = InState(bufs, "kInUse") \union {b}
        /\ InState(p, "kPendingWrite") = InState(bufs, "kPendingWrite")
    BY <1>1, <2>3, <2>4 DEF InState, Bookkeeping
  <2>6. {} \in SUBSET Waiters /\ Deliver(t, p, b, {})
    BY <2>1, <2>2, Zenon
  <2>7. waiting' = Cardinality(InWait \ {t})
    BY <1>3, <1>6, Zenon
  <2> QED
    BY <1>2, <2>3, <2>4, <2>5, <2>6, <2>7, DeliverStep, Zenon
<1> QED
  BY <1>4, <1>5, <1>6, Zenon DEF GetBuffer, GetBufferOfSize

(* The AllocateBuffer and AllocateLargeBuffer calls keep the invariant.    *)
LEMMA AllocateBufferStep ==
  ASSUME SessionInv, NEW t \in Threads, AllocateBuffer(t)
  PROVE  SessionInv'
<1>1. PICK n \in Requests : GetBuffer(t, n)
  BY Zenon DEF AllocateBuffer
<1>2. n \in Nat /\ pc[t] \in {"idle", "exchange"} /\ UnchangedButBuffers
  BY SessionAssumption, Zenon DEF AllocateBuffer, CanCall
<1> QED
  BY <1>1, <1>2, GetBufferStep, Zenon

(* The second half of an exchange is a call of GetNextBuffer.              *)
LEMMA ExchangeBufferStep ==
  ASSUME SessionInv, NEW t \in Threads, ExchangeBuffer(t)
  PROVE  SessionInv'
<1>1. pc[t] \in {"idle", "exchange"} /\ GetBuffer(t, 0) /\ UnchangedButBuffers
  BY Zenon DEF ExchangeBuffer
<1> QED
  BY <1>1, GetBufferStep, Zenon

(* The return of Wait uncounts the request before it looks again.          *)
LEMMA WakeUpStep ==
  ASSUME SessionInv, NEW t \in Threads, WakeUp(t)
  PROVE  SessionInv'
<1>1. /\ pc[t] = "woken" /\ GetNextBufferUnlocked(t, waiting - 1)
      /\ UnchangedButBuffers /\ TypeOK
  BY Zenon DEF WakeUp, SessionInv
<1>2. t \in InWait /\ IsFiniteSet(InWait) /\ waiting = Cardinality(InWait)
  BY <1>1, InWaitFinite, Zenon DEF InWait, At, SessionInv, WaitingIsCounted
<1>3. waiting - 1 = Cardinality(InWait \ {t})
  BY <1>2, FS_RemoveElement, Zenon
<1>4. pc[t] \in {"idle", "woken", "exchange"}
  BY <1>1, Zenon
<1> QED
  BY <1>1, <1>3, <1>4, GetNextBufferStep, Zenon

(* A spurious wakeup moves one request from waiting to woken.              *)
LEMMA SpuriousWakeupStep ==
  ASSUME SessionInv, NEW t \in Threads, SpuriousWakeup(t)
  PROVE  SessionInv'
<1>1. TypeOK /\ IsFiniteSet(InWait) /\ waiting = Cardinality(InWait)
  BY InWaitFinite, Zenon DEF SessionInv, WaitingIsCounted
<1>2. /\ pc' \in [Threads -> {"idle", "wait", "woken", "return", "consume",
                              "exchange"}]
      /\ At("return")' = At("return") /\ At("consume")' = At("consume")
      /\ InWait' = InWait
  BY <1>1, Zenon DEF SpuriousWakeup, GoTo, TypeOK, At, InWait
<1>3. UnchangedButBuffers /\ UNCHANGED <<bufs, held>> /\ waiting' = waiting
  BY Zenon DEF SpuriousWakeup
<1>4. IsFiniteSet(InWait') /\ waiting' = Cardinality(InWait')
  BY <1>1, <1>2, <1>3, Zenon
<1> QED
  BY <1>2, <1>3, <1>4, MoveStep, Zenon

-----------------------------------------------------------------------------
(* The calls that return a buffer.                                         *)

(* FindBuffer: the client gives up the buffer, the thread takes it over.   *)
LEMMA FindBufferStep ==
  ASSUME SessionInv, NEW t \in Threads, FindBuffer(t)
  PROVE  SessionInv'
<1>1. PICK b \in held[t] :
        /\ held' = [held EXCEPT ![t] = @ \ {b}]
        /\ \/ /\ b \in Allocated(bufs)
              /\ GoTo(t, "return", {})
              /\ arg' = [arg EXCEPT ![t] = b]
              /\ \E ex \in BOOLEAN : exchange' = [exchange EXCEPT ![t] = ex]
           \/ b \notin Allocated(bufs) /\ UNCHANGED <<pc, arg, exchange>>
  BY Zenon DEF FindBuffer
<1>2. /\ bufs' = bufs /\ is_closing_' = is_closing_ /\ waiting' = waiting
      /\ unused' = unused /\ content' = content /\ queue' = queue
      /\ writer' = writer /\ file' = file /\ pc[t] = "idle"
  BY Zenon DEF FindBuffer, CanCall
<1>3. TypeOK /\ b \in Buffers
  BY Zenon DEF SessionInv, TypeOK
<1>4. BookkeepingIsConsistent'
  BY <1>2, Zenon DEF SessionInv, BookkeepingIsConsistent
<1>5. CASE b \in Allocated(bufs)
  <2>1. /\ pc' = [pc EXCEPT ![t] = "return"]
        /\ arg' = [arg EXCEPT ![t] = b]
        /\ \E ex \in BOOLEAN : exchange' = [exchange EXCEPT ![t] = ex]
    BY <1>1, <1>3, <1>5, Zenon DEF GoTo, TypeOK
  <2>2. TypeOK'
    BY <1>1, <1>2, <1>3, <2>1, Zenon DEF TypeOK, Pointer
  <2>3. /\ At("return")' = At("return") \union {t} /\ t \notin At("return")
        /\ At("consume")' = At("consume") /\ t \notin At("consume")
        /\ InWait' = InWait
    BY <1>2, <1>3, <2>1, Zenon DEF At, InWait, TypeOK
  <2>4. WaitingIsCounted' /\ ArgsAreBuffers'
    BY <1>2, <1>3, <2>1, <2>3, Zenon
    DEF SessionInv, WaitingIsCounted, ArgsAreBuffers, TypeOK
  <2>5. /\ \A u \in At("consume") : arg'[u] = arg[u]
        /\ \A u \in At("return") : arg'[u] = arg[u]
        /\ arg'[t] = b
    BY <1>3, <2>1, <2>3, Zenon DEF TypeOK, At
  <2>6. /\ Consuming' = Consuming /\ Returning' = Returning \union {b}
        /\ Writing' = Writing
    BY <1>2, <2>3, <2>5 DEF Consuming, Returning, Writing
  <2>7. PendingWriteHasOneTask'
    BY <1>2, <2>3, <2>5, <2>6, TasksKept, Zenon DEF SessionInv
  <2>8. InUseHasOneClient'
    <3> SUFFICES ASSUME ~is_closing_ PROVE InUseHasOneClient'
      BY <1>2, Zenon DEF InUseHasOneClient
    <3>1. /\ InState(bufs, "kInUse") = Held \union Returning
          /\ Held \intersect Returning = {}
          /\ \A u, v \in Threads : u # v => held[u] \intersect held[v] = {}
          /\ \A u, v \in At("return") : arg[u] = arg[v] => u = v
      BY Zenon DEF SessionInv, InUseHasOneClient
    <3>2. /\ Held' = Held \ {b} /\ b \in Held
          /\ \A u, v \in Threads : u # v => held'[u] \intersect held'[v] = {}
      <4>1. held'[t] = held[t] \ {b} /\ \A u \in Threads \ {t} : held'[u] = held[u]
        BY <1>1, <1>3, Zenon DEF TypeOK
      <4>2. \A u \in Threads \ {t} : b \notin held[u]
        BY <3>1, Zenon
      <4>3. Held' = Held \ {b} /\ b \in Held
        BY <1>3, <4>1, <4>2 DEF Held
      <4>4. \A u, v \in Threads : u # v => held'[u] \intersect held'[v] = {}
        BY <3>1, <4>1, Zenon
      <4> QED
        BY <4>3, <4>4, Zenon
    <3>3. \A u, v \in At("return")' : arg'[u] = arg'[v] => u = v
      BY <2>3, <2>5, <3>1, <3>2 DEF Returning
    <3> QED
      BY <1>2, <2>6, <3>1, <3>2, <3>3, Zenon DEF InUseHasOneClient
  <2> QED
    BY <1>4, <2>2, <2>4, <2>7, <2>8, Zenon DEF SessionInv
<1>6. CASE b \notin Allocated(bufs)
  <2>1. pc' = pc /\ arg' = arg /\ exchange' = exchange
    BY <1>1, <1>6, Zenon
  <2>2. TypeOK'
    BY <1>1, <1>2, <1>3, <2>1, Zenon DEF TypeOK
  <2>3. /\ WaitingIsCounted' /\ ArgsAreBuffers'
        /\ Consuming' = Consuming /\ Returning' = Returning
        /\ Writing' = Writing /\ At("return")' = At("return")
        /\ At("consume")' = At("consume")
    BY <1>2, <2>1, Zenon DEF SessionInv, WaitingIsCounted, ArgsAreBuffers, InWait, At,
                      Consuming, Returning, Writing
  <2>4. PendingWriteHasOneTask'
    BY <1>2, <2>1, <2>3, TasksKept, Zenon DEF SessionInv
  <2>5. is_closing_
    <3> SUFFICES ASSUME ~is_closing_ PROVE FALSE
      BY <1>3, Zenon DEF TypeOK
    <3>1. b \in Held /\ Held \subseteq InState(bufs, "kInUse")
      BY <1>3, Zenon DEF SessionInv, InUseHasOneClient, Held
    <3> QED
      BY <1>6, <3>1, Zenon DEF InState, Allocated, BufferState
  <2>6. InUseHasOneClient'
    BY <1>2, <2>5, Zenon DEF InUseHasOneClient
  <2> QED
    BY <1>4, <2>2, <2>3, <2>4, <2>6, Zenon DEF SessionInv
<1> QED
  BY <1>5, <1>6, Zenon

(* What EndReturn does to the sets the invariants are about.               *)
LEMMA EndReturnEffect ==
  ASSUME TypeOK, NEW t \in Threads, pc[t] \in {"return", "consume"}, EndReturn(t)
  PROVE  /\ pc' \in [Threads -> {"idle", "wait", "woken", "return", "consume",
                                 "exchange"}]
         /\ arg' \in [Threads -> Pointer] /\ exchange' \in [Threads -> BOOLEAN]
         /\ At("return")' = At("return") \ {t}
         /\ At("consume")' = At("consume") \ {t}
         /\ InWait' = InWait
         /\ \A u \in Threads \ {t} : arg'[u] = arg[u]
<1>1. PICK where \in {"idle", "exchange"} :
        pc' = [u \in Threads |-> IF u = t THEN where ELSE pc[u]]
  BY Zenon DEF EndReturn, GoTo
<1>2. /\ arg' = [arg EXCEPT ![t] = NoBuffer]
      /\ exchange' = [exchange EXCEPT ![t] = FALSE]
  BY Zenon DEF EndReturn
<1> QED
  BY <1>1, <1>2, Zenon DEF TypeOK, At, InWait, Pointer

(* ReturnBuffer: the buffer in use becomes write-pending, and the thread   *)
(* that is to post it is the one task that refers to it.                   *)
LEMMA ReturnBufferStep ==
  ASSUME SessionInv, NEW t \in Threads, ReturnBuffer(t)
  PROVE  SessionInv'
<1>1. /\ is_closing_' = is_closing_ /\ waiting' = waiting /\ held' = held
      /\ unused' = unused /\ content' = content /\ queue' = queue
      /\ writer' = writer /\ file' = file /\ pc[t] = "return"
  BY Zenon DEF ReturnBuffer
<1>2. /\ TypeOK /\ bufs \in Bookkeeping /\ IsConsistent(bufs)
      /\ arg[t] \in Buffers
  BY <1>1, Zenon DEF SessionInv, TypeOK, BookkeepingIsConsistent, ArgsAreBuffers
<1>3. CASE is_closing_ /\ EndReturn(t) /\ UNCHANGED bufs
  <2>1. /\ pc' \in [Threads -> {"idle", "wait", "woken", "return", "consume",
                                "exchange"}]
        /\ arg' \in [Threads -> Pointer] /\ exchange' \in [Threads -> BOOLEAN]
        /\ At("return")' = At("return") \ {t}
        /\ At("consume")' = At("consume") \ {t}
        /\ InWait' = InWait
        /\ \A u \in Threads \ {t} : arg'[u] = arg[u]
    BY <1>1, <1>2, <1>3, EndReturnEffect, Zenon
  <2>2. TypeOK'
    BY <1>1, <1>2, <1>3, <2>1, Zenon DEF TypeOK
  <2>3. /\ WaitingIsCounted' /\ ArgsAreBuffers' /\ BookkeepingIsConsistent'
        /\ InUseHasOneClient'
    BY <1>1, <1>2, <1>3, <2>1, Zenon
    DEF SessionInv, WaitingIsCounted, ArgsAreBuffers, BookkeepingIsConsistent,
        InUseHasOneClient, At
  <2>4. t \notin At("consume") /\ At("consume") \subseteq Threads
    BY <1>1, Zenon DEF At
  <2>5. /\ At("consume")' = At("consume") /\ bufs' = bufs
        /\ \A u \in At("consume") : arg'[u] = arg[u]
    BY <1>3, <2>1, <2>4, Zenon
  <2>6. Consuming' = Consuming /\ Writing' = Writing
    BY <1>1, <2>5, Zenon DEF Consuming, Writing
  <2>7. PendingWriteHasOneTask'
    BY <1>1, <2>5, <2>6, TasksKept, Zenon DEF SessionInv
  <2> QED
    BY <2>2, <2>3, <2>7, Zenon DEF SessionInv
<1>4. CASE /\ ~is_closing_
           /\ bufs' = ChangeBufferState(bufs, "kPendingWrite", arg[t])
           /\ GoTo(t, "consume", {})
           /\ UNCHANGED <<arg, exchange>>
  <2>1. PICK b : b = arg[t]
    BY Zenon
  <2>2. /\ InState(bufs, "kInUse") = Held \union Returning
        /\ Held \intersect Returning = {}
        /\ \A u, v \in Threads : u # v => held[u] \intersect held[v] = {}
        /\ \A u, v \in At("return") : arg[u] = arg[v] => u = v
    BY <1>4, Zenon DEF SessionInv, InUseHasOneClient
  <2>3. b \in Returning /\ t \in At("return")
    BY <1>1, <2>1, Zenon DEF Returning, At
  <2>4. b \in InState(bufs, "kInUse")
    BY <2>2, <2>3, Zenon
  <2>5. bufs' = ChangeBufferState(bufs, "kPendingWrite", b)
    BY <1>4, <2>1, Zenon
  <2>6. /\ bufs' \in Bookkeeping /\ IsConsistent(bufs')
        /\ InState(bufs', "kInUse") = InState(bufs, "kInUse") \ {b}
        /\ InState(bufs', "kPendingWrite") = InState(bufs, "kPendingWrite") \union {b}
        /\ b \notin InState(bufs, "kPendingWrite")
    BY <1>2, <2>4, <2>5, ReturnConsistent, Zenon
  <2>7. /\ pc' = [pc EXCEPT ![t] = "consume"] /\ arg' = arg /\ exchange' = exchange
    BY <1>2, <1>4, Zenon DEF GoTo, TypeOK
  <2>8. TypeOK'
    BY <1>1, <1>2, <2>6, <2>7, Zenon DEF TypeOK
  <2>9. /\ At("return")' = At("return") \ {t}
        /\ At("consume")' = At("consume") \union {t}
        /\ InWait' = InWait
    BY <1>1, <1>2, <2>7, Zenon DEF TypeOK, At, InWait
  <2>10. WaitingIsCounted' /\ ArgsAreBuffers' /\ BookkeepingIsConsistent'
    BY <1>1, <1>2, <2>6, <2>7, <2>9, Zenon
    DEF SessionInv, WaitingIsCounted, ArgsAreBuffers, BookkeepingIsConsistent, TypeOK
  <2>11. /\ Consuming' = Consuming \union {b} /\ Returning' = Returning \ {b}
         /\ Writing' = Writing /\ Held' = Held
    <3>1. Consuming' = Consuming \union {b}
      BY <2>1, <2>7, <2>9, Zenon DEF Consuming
    <3>2. Returning' = Returning \ {b}
      BY <2>1, <2>2, <2>3, <2>7, <2>9 DEF Returning
    <3> QED
      BY <1>1, <3>1, <3>2, Zenon DEF Writing, Held
  <2>12. PendingWriteHasOneTask'
    <3>1. /\ TasksAreDistinct
          /\ "map" \notin Failures =>
               InState(bufs, "kPendingWrite")
                 = Range(queue) \union Consuming \union Writing
      BY Zenon DEF SessionInv, PendingWriteHasOneTask
    <3>2. b \notin Range(queue) /\ b \notin Consuming /\ b \notin Writing
      BY <2>6, <3>1, Zenon DEF TasksAreDistinct
    <3>3. \A u, v \in At("consume")' : arg'[u] = arg'[v] => u = v
      BY <2>1, <2>7, <2>9, <3>1, <3>2, Zenon DEF TasksAreDistinct, Consuming
    <3>4. TasksAreDistinct'
      BY <1>1, <2>6, <2>11, <3>1, <3>2, <3>3 DEF TasksAreDistinct
    <3> QED
      BY <1>1, <2>6, <2>11, <3>1, <3>4, Zenon DEF PendingWriteHasOneTask
  <2>13. InUseHasOneClient'
    <3>1. \A u, v \in At("return")' : arg'[u] = arg'[v] => u = v
      BY <2>2, <2>7, <2>9, Zenon
    <3>2. \A u, v \in Threads : u # v => held'[u] \intersect held'[v] = {}
      BY <1>1, <2>2, Zenon
    <3>3. InState(bufs', "kInUse") = Held' \union Returning'
      BY <2>2, <2>3, <2>6, <2>11, Zenon
    <3>4. Held' \intersect Returning' = {}
      BY <2>2, <2>11, Zenon
    <3> QED
      BY <3>1, <3>2, <3>3, <3>4, Zenon DEF InUseHasOneClient
  <2> QED
    BY <2>8, <2>10, <2>12, <2>13, Zenon DEF SessionInv
<1> QED
  BY <1>3, <1>4, Zenon DEF ReturnBuffer

(* A new element at the end of a sequence without repetitions.             *)
LEMMA AppendIsInjective ==
  ASSUME NEW S, NEW s \in Seq(S), NEW x \in S, IsInjective(s), x \notin Range(s)
  PROVE  /\ Append(s, x) \in Seq(S)
         /\ IsInjective(Append(s, x))
         /\ Range(Append(s, x)) = Range(s) \union {x}
<1>1. PICK one : one = <<x>>
  BY Zenon
<1>2. one \in Seq(S) /\ IsInjective(one) /\ Range(one) = {x}
  BY <1>1 DEF IsInjective, Range
<1>3. PICK u : u = Append(s, x)
  BY Zenon
<1>4. u = s \o one
  BY <1>1, <1>3, AppendIsConcat, Zenon
<1>5. Range(s) \intersect Range(one) = {}
  BY <1>2, Zenon
<1>6. IsInjective(u)
  BY <1>2, <1>4, <1>5, ConcatInjective, Zenon
<1>7. Range(u) = Range(s) \union {x}
  BY <1>2, <1>4, RangeConcatenation
<1> QED
  BY <1>3, <1>6, <1>7, AppendProperties, Zenon

(* ReturnBuffer's call to the consumer: the task takes over the buffer.    *)
LEMMA ConsumeBufferStep ==
  ASSUME SessionInv, NEW t \in Threads, ConsumeBuffer(t)
  PROVE  SessionInv'
<1>1. /\ bufs' = bufs /\ is_closing_' = is_closing_ /\ waiting' = waiting
      /\ held' = held /\ unused' = unused /\ content' = content
      /\ writer' = writer /\ file' = file /\ pc[t] = "consume"
      /\ queue' = Append(queue, arg[t]) /\ EndReturn(t)
  BY Zenon DEF ConsumeBuffer
<1>2. /\ TypeOK /\ arg[t] \in Buffers /\ queue \in Seq(Buffers)
  BY <1>1, Zenon DEF SessionInv, TypeOK, ArgsAreBuffers
<1>3. /\ TasksAreDistinct
      /\ "map" \notin Failures =>
           InState(bufs, "kPendingWrite")
             = Range(queue) \union Consuming \union Writing
  BY Zenon DEF SessionInv, PendingWriteHasOneTask
<1>4. PICK b : b = arg[t]
  BY Zenon
<1>5. t \in At("consume") /\ b \in Consuming /\ t \notin At("return")
  BY <1>1, <1>4, Zenon DEF At, Consuming
<1>6. /\ b \notin Range(queue) /\ b \notin Writing
      /\ b \in InState(bufs, "kPendingWrite") /\ IsInjective(queue)
      /\ \A u, v \in At("consume") : arg[u] = arg[v] => u = v
  BY <1>3, <1>5, Zenon DEF TasksAreDistinct
<1>7. /\ queue' \in Seq(Buffers) /\ IsInjective(queue')
      /\ Range(queue') = Range(queue) \union {b}
  <2>1. queue' = Append(queue, b) /\ b \in Buffers
    BY <1>1, <1>2, <1>4, Zenon
  <2>2. queue \in Seq(Buffers) /\ IsInjective(queue) /\ b \notin Range(queue)
    BY <1>2, <1>6, Zenon
  <2> QED
    BY <2>1, <2>2, AppendIsInjective
<1>8. /\ pc' \in [Threads -> {"idle", "wait", "woken", "return", "consume",
                              "exchange"}]
      /\ arg' \in [Threads -> Pointer] /\ exchange' \in [Threads -> BOOLEAN]
      /\ At("return")' = At("return") \ {t}
      /\ At("consume")' = At("consume") \ {t}
      /\ InWait' = InWait
      /\ \A u \in Threads \ {t} : arg'[u] = arg[u]
  BY <1>1, <1>2, EndReturnEffect, Zenon
<1>9. At("consume") \subseteq Threads /\ At("return") \subseteq Threads
  BY Zenon DEF At
<1>10. /\ Consuming' = Consuming \ {b} /\ Returning' = Returning
       /\ Writing' = Writing /\ Held' = Held
  <2>1. Consuming' = Consuming \ {b}
    <3>1. \A u \in At("consume") \ {t} : arg'[u] = arg[u] /\ arg[u] # b
      BY <1>4, <1>5, <1>6, <1>8, <1>9, Zenon
    <3> QED
      BY <1>4, <1>8, <3>1 DEF Consuming
  <2>2. At("return")' = At("return") /\ \A u \in At("return") : arg'[u] = arg[u]
    BY <1>5, <1>8, <1>9, Zenon
  <2>3. Returning' = Returning
    BY <2>2, Zenon DEF Returning
  <2> QED
    BY <1>1, <2>1, <2>3, Zenon DEF Writing, Held
<1>11. TypeOK'
  BY <1>1, <1>2, <1>7, <1>8, Zenon DEF TypeOK
<1>12. WaitingIsCounted' /\ ArgsAreBuffers' /\ BookkeepingIsConsistent'
  BY <1>1, <1>2, <1>8, Zenon
  DEF SessionInv, WaitingIsCounted, ArgsAreBuffers, BookkeepingIsConsistent, At
<1>13. TasksAreDistinct'
  <2>1. \A u, v \in At("consume")' : arg'[u] = arg'[v] => u = v
    BY <1>6, <1>8, <1>9, Zenon
  <2>2. /\ Range(queue) \intersect (Consuming \union Writing) = {}
        /\ Consuming \intersect Writing = {}
        /\ Range(queue) \union Consuming \union Writing \subseteq
             InState(bufs, "kPendingWrite")
    BY <1>3, Zenon DEF TasksAreDistinct
  <2>3. Range(queue') \intersect (Consuming' \union Writing') = {}
    BY <1>6, <1>7, <1>10, <2>2, Zenon
  <2>4. Consuming' \intersect Writing' = {}
    BY <1>10, <2>2, Zenon
  <2>5. Range(queue') \union Consuming' \union Writing' \subseteq
          InState(bufs', "kPendingWrite")
    BY <1>1, <1>6, <1>7, <1>10, <2>2, Zenon
  <2> QED
    BY <1>7, <2>1, <2>3, <2>4, <2>5, Zenon DEF TasksAreDistinct
<1>14. PendingWriteHasOneTask'
  BY <1>1, <1>3, <1>5, <1>7, <1>10, <1>13, Zenon DEF PendingWriteHasOneTask
<1>15. InUseHasOneClient'
  BY <1>1, <1>5, <1>8, <1>9, <1>10, Zenon DEF SessionInv, InUseHasOneClient
<1> QED
  BY <1>11, <1>12, <1>14, <1>15, Zenon DEF SessionInv

(* A client writing into a buffer it has been handed.                      *)
LEMMA FillStep ==
  ASSUME SessionInv, NEW t \in Threads, Fill(t)
  PROVE  SessionInv'
<1>1. /\ bufs' = bufs /\ is_closing_' = is_closing_ /\ waiting' = waiting
      /\ pc' = pc /\ arg' = arg /\ exchange' = exchange /\ held' = held
      /\ queue' = queue /\ writer' = writer /\ file' = file
  BY Zenon DEF Fill
<1>2. TypeOK
  BY Zenon DEF SessionInv
<1>3. /\ content' \in [Buffers -> Records \union {Empty, Ended}]
      /\ unused' \in SUBSET Records
  BY <1>2, Zenon DEF TypeOK, Fill
<1>4. TypeOK'
  BY <1>1, <1>2, <1>3, Zenon DEF TypeOK
<1>5. /\ At("return")' = At("return") /\ At("consume")' = At("consume")
      /\ InWait' = InWait /\ Consuming' = Consuming
      /\ Returning' = Returning /\ Writing' = Writing /\ Held' = Held
  BY <1>1, Zenon DEF At, InWait, Consuming, Returning, Writing, Held
<1>6. WaitingIsCounted' /\ ArgsAreBuffers' /\ BookkeepingIsConsistent'
  BY <1>1, <1>5, Zenon
  DEF SessionInv, WaitingIsCounted, ArgsAreBuffers, BookkeepingIsConsistent
<1>7. PendingWriteHasOneTask'
  BY <1>1, <1>5, TasksKept, Zenon DEF SessionInv
<1>8. InUseHasOneClient'
  BY <1>1, <1>5, Zenon DEF SessionInv, InUseHasOneClient
<1> QED
  BY <1>4, <1>6, <1>7, <1>8, Zenon DEF SessionInv

-----------------------------------------------------------------------------
(* The writer thread.                                                      *)

(* WriteBuffer: the writer takes over the buffer of the oldest task.       *)
LEMMA WriteBufferStep ==
  ASSUME SessionInv, WriteBuffer
  PROVE  SessionInv'
<1>1. /\ bufs' = bufs /\ is_closing_' = is_closing_ /\ waiting' = waiting
      /\ pc' = pc /\ arg' = arg /\ exchange' = exchange /\ held' = held
      /\ unused' = unused /\ writer = NoBuffer /\ queue # <<>>
      /\ queue' = Tail(queue)
  BY Zenon DEF WriteBuffer
<1>2. TypeOK /\ queue \in Seq(Buffers)
  BY Zenon DEF SessionInv, TypeOK
<1>3. /\ TasksAreDistinct
      /\ "map" \notin Failures =>
           InState(bufs, "kPendingWrite")
             = Range(queue) \union Consuming \union Writing
  BY Zenon DEF SessionInv, PendingWriteHasOneTask
<1>4. PICK b : b = Head(queue)
  BY Zenon
<1>5. /\ b \in Range(queue) /\ IsInjective(queue') /\ queue' \in Seq(Buffers)
      /\ Range(queue') = Range(queue) \ {b}
  <2>1. IsInjective(queue)
    BY <1>3, Zenon DEF TasksAreDistinct
  <2>2. queue' \in Seq(Buffers)
    BY <1>1, <1>2, HeadTailProperties, Zenon
  <2> QED
    BY <1>1, <1>2, <1>4, <2>1, <2>2, TailInjective, Zenon
<1>6. b \in Buffers /\ b # NoBuffer /\ Writing = {}
  <2>1. b \in InState(bufs, "kPendingWrite")
    BY <1>3, <1>5, Zenon DEF TasksAreDistinct
  <2> QED
    BY <1>1, <2>1, SessionAssumption, Zenon DEF InState, Writing
<1>7. /\ At("return")' = At("return") /\ At("consume")' = At("consume")
      /\ InWait' = InWait /\ Consuming' = Consuming
      /\ Returning' = Returning /\ Held' = Held
  BY <1>1, Zenon DEF At, InWait, Consuming, Returning, Held
<1>8. /\ WaitingIsCounted' /\ ArgsAreBuffers' /\ BookkeepingIsConsistent'
      /\ InUseHasOneClient'
  BY <1>1, <1>7, Zenon
  DEF SessionInv, WaitingIsCounted, ArgsAreBuffers, BookkeepingIsConsistent,
      InUseHasOneClient
<1>9. CASE /\ writer' = b
           /\ content' = [content EXCEPT ![b] = Empty]
           /\ WriteRecord(content[b])
  <2>1. file' \in Seq(Records \union {Ended})
    <3>1. /\ file \in Seq(Records \union {Ended})
          /\ content[b] \in Records \union {Empty, Ended}
      BY <1>2, <1>6, Zenon DEF TypeOK
    <3>2. CASE content[b] # Empty /\ file' = Append(file, content[b])
      <4>1. content[b] \in Records \union {Ended}
        BY <3>1, <3>2, Zenon
      <4> QED
        BY <3>1, <3>2, <4>1, AppendProperties, Zenon
    <3> QED
      BY <1>9, <3>1, <3>2, Zenon DEF WriteRecord
  <2>2. /\ content' \in [Buffers -> Records \union {Empty, Ended}]
        /\ writer' \in Pointer
    BY <1>2, <1>6, <1>9, Zenon DEF TypeOK, Pointer
  <2>3. TypeOK'
    BY <1>1, <1>2, <1>5, <2>1, <2>2, Zenon DEF TypeOK
  <2>4. Writing' = {b}
    BY <1>6, <1>9, Zenon DEF Writing
  <2>5. PendingWriteHasOneTask'
    <3>1. TasksAreDistinct'
      BY <1>1, <1>3, <1>5, <1>6, <1>7, <2>4 DEF TasksAreDistinct
    <3>2. "map" \notin Failures =>
            InState(bufs', "kPendingWrite")
              = Range(queue') \union Consuming' \union Writing'
      BY <1>1, <1>3, <1>5, <1>6, <1>7, <2>4, Zenon
    <3> QED
      BY <3>1, <3>2, Zenon DEF PendingWriteHasOneTask
  <2> QED
    BY <1>8, <2>3, <2>5, Zenon DEF SessionInv
<1>10. CASE "map" \in Failures /\ UNCHANGED <<writer, content, file>>
  <2>1. TypeOK'
    BY <1>1, <1>2, <1>5, <1>10, Zenon DEF TypeOK
  <2>2. Writing' = Writing
    BY <1>10, Zenon DEF Writing
  <2>3. PendingWriteHasOneTask'
    BY <1>1, <1>3, <1>5, <1>6, <1>7, <1>10, <2>2
    DEF PendingWriteHasOneTask, TasksAreDistinct
  <2> QED
    BY <1>8, <2>1, <2>3, Zenon DEF SessionInv
<1> QED
  BY <1>4, <1>9, <1>10, Zenon DEF WriteBuffer

(* RecycleBuffer: the buffer leaves the writer's hands and is no longer    *)
(* write-pending.                                                          *)
LEMMA RecycleBufferStep ==
  ASSUME SessionInv, RecycleBuffer
  PROVE  SessionInv'
<1>1. /\ is_closing_' = is_closing_ /\ waiting' = waiting /\ arg' = arg
      /\ exchange' = exchange /\ held' = held /\ unused' = unused
      /\ content' = content /\ queue' = queue /\ file' = file
      /\ writer # NoBuffer /\ writer' = NoBuffer
  BY Zenon DEF RecycleBuffer
<1>2. TypeOK /\ bufs \in Bookkeeping /\ IsConsistent(bufs)
  BY Zenon DEF SessionInv, TypeOK, BookkeepingIsConsistent
<1>3. /\ TasksAreDistinct
      /\ "map" \notin Failures =>
           InState(bufs, "kPendingWrite")
             = Range(queue) \union Consuming \union Writing
  BY Zenon DEF SessionInv, PendingWriteHasOneTask
<1>4. PICK b : b = writer
  BY Zenon
<1>5. Writing = {b} /\ Writing' = {}
  BY <1>1, <1>4, Zenon DEF Writing
<1>6. b \in Buffers /\ bufs.state[b] = "kPendingWrite"
  BY <1>3, <1>5, Zenon DEF TasksAreDistinct, InState
<1>7. PICK s \in {"kAvailable", "deleted"} :
        /\ bufs' \in Bookkeeping /\ IsConsistent(bufs')
        /\ bufs'.state = [bufs.state EXCEPT ![b] = s]
  <2>1. CASE bufs' = DestroySingletonBuffer(bufs, b)
    BY <1>2, <1>6, <2>1, DestroySingletonConsistent, Zenon
  <2>2. CASE bufs' = MakeAvailable(bufs, b)
    BY <1>2, <1>6, <2>2, MakeAvailableConsistent, Zenon
  <2> QED
    BY <1>4, <2>1, <2>2, Zenon DEF RecycleBuffer
<1>8. /\ InState(bufs', "kPendingWrite") = InState(bufs, "kPendingWrite") \ {b}
      /\ InState(bufs', "kInUse") = InState(bufs, "kInUse")
  BY <1>2, <1>6, <1>7 DEF InState, Bookkeeping
<1>9. /\ pc' \in [Threads -> {"idle", "wait", "woken", "return", "consume",
                              "exchange"}]
      /\ At("return")' = At("return") /\ At("consume")' = At("consume")
      /\ InWait' = InWait
  <2>1. CASE UNCHANGED pc
    BY <1>2, <2>1, Zenon DEF TypeOK, At, InWait
  <2>2. CASE \E W \in Released(1) : Wake(W)
    BY <1>2, <2>2, ReleasedAreWaiters, WakeEffect, Zenon
  <2> QED
    BY <2>1, <2>2, Zenon DEF RecycleBuffer
<1>10. Consuming' = Consuming /\ Returning' = Returning /\ Held' = Held
  BY <1>1, <1>9, Zenon DEF Consuming, Returning, Held
<1>11. TypeOK'
  BY <1>1, <1>2, <1>7, <1>9, Zenon DEF TypeOK, Pointer
<1>12. WaitingIsCounted' /\ ArgsAreBuffers' /\ BookkeepingIsConsistent'
  BY <1>1, <1>2, <1>7, <1>9, <1>11, Zenon
  DEF SessionInv, WaitingIsCounted, ArgsAreBuffers, BookkeepingIsConsistent, At,
      TypeOK
<1>13. PendingWriteHasOneTask'
  BY <1>1, <1>3, <1>5, <1>8, <1>9, <1>10
  DEF PendingWriteHasOneTask, TasksAreDistinct
<1>14. InUseHasOneClient'
  BY <1>1, <1>8, <1>9, <1>10, Zenon DEF SessionInv, InUseHasOneClient
<1> QED
  BY <1>11, <1>12, <1>13, <1>14, Zenon DEF SessionInv

-----------------------------------------------------------------------------
(* Closing the session.                                                    *)

(* Posting the process ended event: at most one buffer that was available  *)
(* becomes write-pending, and it is posted.                                *)
LEMMA WriteEndedEventEffect ==
  ASSUME TypeOK, NEW p \in Bookkeeping, IsConsistent(p), p.available # <<>>,
         NEW q \in Seq(Buffers), IsInjective(q),
         Range(q) \intersect InState(p, "kAvailable") = {},
         WriteEndedEvent(p, q)
  PROVE  /\ bufs' \in Bookkeeping /\ IsConsistent(bufs')
         /\ content' \in [Buffers -> Records \union {Empty, Ended}]
         /\ queue' \in Seq(Buffers) /\ IsInjective(queue')
         /\ \E X \in SUBSET InState(p, "kAvailable") :
              /\ Range(queue') = Range(q) \union X
              /\ InState(bufs', "kPendingWrite") = InState(p, "kPendingWrite") \union X
<1>1. PICK b, r : b = Head(p.available) /\ r = TakeAvailable(p)
  BY Zenon
<1>2. /\ r \in Bookkeeping /\ IsConsistent(r)
      /\ b \in Buffers /\ b \in InState(p, "kAvailable")
      /\ InState(r, "kInUse") = InState(p, "kInUse") \union {b}
      /\ InState(r, "kPendingWrite") = InState(p, "kPendingWrite")
  BY <1>1, TakeAvailableConsistent, Zenon
<1>3. CASE /\ bufs' = ChangeBufferState(r, "kPendingWrite", b)
           /\ content' = [content EXCEPT ![b] = Ended]
           /\ queue' = Append(q, b)
  <2>1. b \in InState(r, "kInUse") /\ bufs' = ChangeBufferState(r, "kPendingWrite", b)
    BY <1>2, <1>3, Zenon
  <2>2. /\ bufs' \in Bookkeeping /\ IsConsistent(bufs')
        /\ InState(bufs', "kPendingWrite") = InState(r, "kPendingWrite") \union {b}
    <3>1. r \in Bookkeeping /\ IsConsistent(r)
      BY <1>2, Zenon
    <3> QED
      BY <2>1, <3>1, ReturnConsistent, SMTT(20)
  <2>3. /\ InState(bufs', "kPendingWrite") = InState(p, "kPendingWrite") \union {b}
        /\ {b} \in SUBSET InState(p, "kAvailable")
    BY <1>2, <2>2, Zenon
  <2>4. b \notin Range(q)
    BY <1>2, Zenon
  <2>5. /\ queue' \in Seq(Buffers) /\ IsInjective(queue')
        /\ Range(queue') = Range(q) \union {b}
    <3>1. queue' = Append(q, b) /\ b \in Buffers
      BY <1>2, <1>3, Zenon
    <3> QED
      BY <2>4, <3>1, AppendIsInjective, SMTT(20)
  <2>6. content' \in [Buffers -> Records \union {Empty, Ended}]
    BY <1>3, Zenon DEF TypeOK
  <2> QED
    BY <2>2, <2>3, <2>5, <2>6, Zenon
<1>4. CASE bufs' = r /\ queue' = q /\ content' = content
  <2>1. InState(bufs', "kPendingWrite") = InState(p, "kPendingWrite")
    BY <1>2, <1>4, Zenon
  <2>2. content' \in [Buffers -> Records \union {Empty, Ended}]
    BY <1>4, Zenon DEF TypeOK
  <2>3. /\ {} \in SUBSET InState(p, "kAvailable")
        /\ Range(queue') = Range(q) \union {}
        /\ InState(bufs', "kPendingWrite") = InState(p, "kPendingWrite") \union {}
    BY <1>4, <2>1, Zenon
  <2>4. /\ bufs' \in Bookkeeping /\ IsConsistent(bufs')
        /\ queue' \in Seq(Buffers) /\ IsInjective(queue')
    BY <1>2, <1>4, Zenon
  <2> QED
    BY <2>2, <2>3, <2>4, Zenon
<1> QED
  BY <1>1, <1>3, <1>4, Zenon DEF WriteEndedEvent

(* The pool of one buffer that CreateProcessEndedEvent allocates when no   *)
(* buffer is available.                                                    *)
LEMMA NewEventBuffer ==
  ASSUME NEW p \in Bookkeeping, IsConsistent(p), Fresh(p) = Fresh(bufs),
         NEW pool \in NewPools(1),
         NEW r, r = AllocateBuffers(p, pool, EventSize)
  PROVE  /\ r \in Bookkeeping /\ IsConsistent(r) /\ r.available # <<>>
         /\ InState(r, "kPendingWrite") = InState(p, "kPendingWrite")
<1>1. PICK n : n = 1
  BY Zenon
<1>2. n \in Nat \ {0}
  BY <1>1
<1>3. pool \in PoolsOf(p, n)
  BY <1>1, Zenon DEF NewPools, PoolsOf
<1>4. EventSize \in Nat
  BY SessionAssumption
<1> QED
  BY <1>2, <1>3, <1>4, AllocateBuffersConsistent, SMTT(20)

(* CreateProcessEndedEvent and the rest of Close, with the event's buffer  *)
(* taken from the pool, newly allocated, or missing.                       *)
LEMMA ProcessEndedEventEffect ==
  ASSUME TypeOK, NEW p \in Bookkeeping, IsConsistent(p), Fresh(p) = Fresh(bufs),
         NEW q \in Seq(Buffers), IsInjective(q),
         Range(q) \subseteq InState(p, "kPendingWrite"),
         CreateProcessEndedEvent(p, q)
  PROVE  /\ bufs' \in Bookkeeping /\ IsConsistent(bufs')
         /\ content' \in [Buffers -> Records \union {Empty, Ended}]
         /\ queue' \in Seq(Buffers) /\ IsInjective(queue')
         /\ pc' \in [Threads -> {"idle", "wait", "woken", "return", "consume",
                                 "exchange"}]
         /\ At("return")' = At("return") /\ At("consume")' = At("consume")
         /\ InWait' = InWait
         /\ \E X \in SUBSET Buffers :
              /\ X \intersect InState(p, "kPendingWrite") = {}
              /\ Range(queue') = Range(q) \union X
              /\ InState(bufs', "kPendingWrite") = InState(p, "kPendingWrite") \union X
<1>1. CASE p.available # <<>> /\ WriteEndedEvent(p, q) /\ UNCHANGED pc
  <2>1. /\ Range(q) \intersect InState(p, "kAvailable") = {}
        /\ InState(p, "kAvailable") \intersect InState(p, "kPendingWrite") = {}
        /\ InState(p, "kAvailable") \subseteq Buffers
    BY Zenon DEF InState
  <2>2. /\ bufs' \in Bookkeeping /\ IsConsistent(bufs')
        /\ content' \in [Buffers -> Records \union {Empty, Ended}]
        /\ queue' \in Seq(Buffers) /\ IsInjective(queue')
        /\ \E X \in SUBSET InState(p, "kAvailable") :
             /\ Range(queue') = Range(q) \union X
             /\ InState(bufs', "kPendingWrite") = InState(p, "kPendingWrite") \union X
    BY <1>1, <2>1, WriteEndedEventEffect, Zenon
  <2>3. /\ pc' \in [Threads -> {"idle", "wait", "woken", "return", "consume",
                                "exchange"}]
        /\ At("return")' = At("return") /\ At("consume")' = At("consume")
        /\ InWait' = InWait
    BY <1>1, Zenon DEF TypeOK, At, InWait
  <2> QED
    BY <2>1, <2>2, <2>3, Zenon
<1>2. CASE /\ p.available = <<>>
           /\ \E pool \in NewPools(1), W \in Released(1) :
                /\ WriteEndedEvent(AllocateBuffers(p, pool, EventSize), q)
                /\ Wake(W)
  <2>1. PICK pool \in NewPools(1), W \in Released(1) :
          WriteEndedEvent(AllocateBuffers(p, pool, EventSize), q) /\ Wake(W)
    BY <1>2, Zenon
  <2>2. PICK r : r = AllocateBuffers(p, pool, EventSize)
    BY Zenon
  <2>3. W \in SUBSET Waiters
    BY ReleasedAreWaiters, Zenon
  <2>4. /\ r \in Bookkeeping /\ IsConsistent(r) /\ r.available # <<>>
        /\ InState(r, "kPendingWrite") = InState(p, "kPendingWrite")
    BY <2>2, NewEventBuffer, Zenon
  <2>5. /\ InState(r, "kAvailable") \intersect InState(p, "kPendingWrite") = {}
        /\ InState(r, "kAvailable") \subseteq Buffers
    <3>1. InState(r, "kAvailable") \intersect InState(r, "kPendingWrite") = {}
      BY Zenon DEF InState
    <3>2. InState(r, "kAvailable") \subseteq Buffers
      BY Zenon DEF InState
    <3> QED
      BY <2>4, <3>1, <3>2, Zenon
  <2>6. Range(q) \intersect InState(r, "kAvailable") = {}
    BY <2>5, Zenon
  <2>7. /\ bufs' \in Bookkeeping /\ IsConsistent(bufs')
        /\ content' \in [Buffers -> Records \union {Empty, Ended}]
        /\ queue' \in Seq(Buffers) /\ IsInjective(queue')
        /\ \E X \in SUBSET InState(r, "kAvailable") :
             /\ Range(queue') = Range(q) \union X
             /\ InState(bufs', "kPendingWrite") = InState(r, "kPendingWrite") \union X
    BY <2>1, <2>2, <2>4, <2>6, WriteEndedEventEffect, Zenon
  <2>8. /\ pc' \in [Threads -> {"idle", "wait", "woken", "return", "consume",
                                "exchange"}]
        /\ At("return")' = At("return") /\ At("consume")' = At("consume")
        /\ InWait' = InWait
    BY <2>1, <2>3, WakeEffect, Zenon
  <2> QED
    BY <2>4, <2>5, <2>7, <2>8, Zenon
<1>3. CASE bufs' = p /\ queue' = q /\ UNCHANGED <<content, pc>>
  <2>1. /\ pc' \in [Threads -> {"idle", "wait", "woken", "return", "consume",
                                "exchange"}]
        /\ content' \in [Buffers -> Records \union {Empty, Ended}]
        /\ At("return")' = At("return") /\ At("consume")' = At("consume")
        /\ InWait' = InWait
    BY <1>3, Zenon DEF TypeOK, At, InWait
  <2>2. /\ {} \in SUBSET Buffers
        /\ {} \intersect InState(p, "kPendingWrite") = {}
        /\ Range(queue') = Range(q) \union {}
        /\ InState(bufs', "kPendingWrite") = InState(p, "kPendingWrite") \union {}
    BY <1>3, Zenon
  <2>3. /\ bufs' \in Bookkeeping /\ IsConsistent(bufs')
        /\ queue' \in Seq(Buffers) /\ IsInjective(queue')
    BY <1>3, Zenon
  <2> QED
    BY <2>1, <2>2, <2>3, Zenon
<1> QED
  BY <1>1, <1>2, <1>3, Zenon DEF CreateProcessEndedEvent

(* Close posts every buffer in use exactly once, and the event's buffer    *)
(* with them.                                                              *)
LEMMA CloseStep ==
  ASSUME SessionInv, Close
  PROVE  SessionInv'
<1>1. /\ is_closing_' = TRUE /\ waiting' = waiting /\ arg' = arg
      /\ exchange' = exchange /\ held' = held /\ unused' = unused
      /\ writer' = writer /\ file' = file
  BY Zenon DEF Close
<1>2. TypeOK /\ bufs \in Bookkeeping /\ IsConsistent(bufs) /\ queue \in Seq(Buffers)
  BY Zenon DEF SessionInv, TypeOK, BookkeepingIsConsistent
<1>3. /\ TasksAreDistinct
      /\ "map" \notin Failures =>
           InState(bufs, "kPendingWrite")
             = Range(queue) \union Consuming \union Writing
  BY Zenon DEF SessionInv, PendingWriteHasOneTask
<1>4. PICK inUse, n : inUse = InState(bufs, "kInUse") /\ n = Cardinality(inUse)
  BY Zenon
<1>5. PICK order \in Bijection(1 .. n, inUse) :
        CreateProcessEndedEvent(FlushInUse(bufs), queue \o order)
  BY <1>4, Zenon DEF Close
<1>6. PICK p : p = FlushInUse(bufs)
  BY Zenon
<1>7. /\ p \in Bookkeeping /\ IsConsistent(p)
      /\ p.state = [b \in Buffers |-> IF bufs.state[b] = "kInUse"
                                      THEN "kPendingWrite" ELSE bufs.state[b]]
  BY <1>2, <1>6, FlushInUseConsistent, Zenon
<1>8. /\ InState(p, "kPendingWrite") = InState(bufs, "kPendingWrite") \union inUse
      /\ InState(bufs, "kPendingWrite") \intersect inUse = {}
      /\ inUse \subseteq Buffers
      /\ Fresh(p) = Fresh(bufs)
  BY <1>4, <1>7, Zenon DEF InState, Fresh
<1>9. order \in Seq(Buffers) /\ IsInjective(order) /\ Range(order) = inUse
  <2>1. /\ order \in [1 .. n -> inUse] /\ IsInjective(order)
        /\ \A b \in inUse : \E i \in 1 .. n : order[i] = b
    BY Zenon DEF Bijection, Injection, Surjection
  <2>2. n \in Nat
    BY <1>4, InStateFinite, Zenon
  <2>3. order \in Seq(Buffers)
    BY <1>8, <2>1, <2>2
  <2> QED
    BY <2>1, <2>3, Zenon DEF Range
<1>10. PICK q : q = queue \o order
  BY Zenon
<1>11. /\ q \in Seq(Buffers) /\ IsInjective(q)
       /\ Range(q) = Range(queue) \union inUse
  <2>1. IsInjective(queue) /\ Range(queue) \intersect Range(order) = {}
    BY <1>3, <1>8, <1>9, Zenon DEF TasksAreDistinct
  <2>2. IsInjective(q)
    BY <1>2, <1>9, <1>10, <2>1, ConcatInjective, Zenon
  <2>3. Range(q) = Range(queue) \union inUse
    BY <1>2, <1>9, <1>10, RangeConcatenation
  <2>4. q \in Seq(Buffers)
    BY <1>2, <1>9, <1>10, ConcatProperties, Zenon
  <2> QED
    BY <2>2, <2>3, <2>4, Zenon
<1>12. Range(q) \subseteq InState(p, "kPendingWrite")
  BY <1>3, <1>8, <1>11, Zenon DEF TasksAreDistinct
<1>13. /\ bufs' \in Bookkeeping /\ IsConsistent(bufs')
       /\ content' \in [Buffers -> Records \union {Empty, Ended}]
       /\ queue' \in Seq(Buffers) /\ IsInjective(queue')
       /\ pc' \in [Threads -> {"idle", "wait", "woken", "return", "consume",
                               "exchange"}]
       /\ At("return")' = At("return") /\ At("consume")' = At("consume")
       /\ InWait' = InWait
       /\ \E X \in SUBSET Buffers :
            /\ X \intersect InState(p, "kPendingWrite") = {}
            /\ Range(queue') = Range(q) \union X
            /\ InState(bufs', "kPendingWrite") = InState(p, "kPendingWrite") \union X
  BY <1>2, <1>5, <1>6, <1>7, <1>8, <1>10, <1>11, <1>12, ProcessEndedEventEffect, Zenon
<1>14. PICK X \in SUBSET Buffers :
         /\ X \intersect InState(p, "kPendingWrite") = {}
         /\ Range(queue') = Range(q) \union X
         /\ InState(bufs', "kPendingWrite") = InState(p, "kPendingWrite") \union X
  BY <1>13, Zenon
<1>15. TypeOK'
  BY <1>1, <1>2, <1>13, Zenon DEF TypeOK
<1>16. Consuming' = Consuming /\ Writing' = Writing
  BY <1>1, <1>13, Zenon DEF Consuming, Writing
<1>17. WaitingIsCounted' /\ ArgsAreBuffers' /\ BookkeepingIsConsistent'
       /\ InUseHasOneClient'
  BY <1>1, <1>2, <1>13, <1>15, Zenon
  DEF SessionInv, WaitingIsCounted, ArgsAreBuffers, BookkeepingIsConsistent,
      InUseHasOneClient, At, TypeOK
<1>18. TasksAreDistinct'
  <2>1. /\ \A u, v \in At("consume") : arg[u] = arg[v] => u = v
        /\ Range(queue) \intersect (Consuming \union Writing) = {}
        /\ Consuming \intersect Writing = {}
        /\ Range(queue) \union Consuming \union Writing \subseteq
             InState(bufs, "kPendingWrite")
    BY <1>3, Zenon DEF TasksAreDistinct
  <2>2. \A u, v \in At("consume")' : arg'[u] = arg'[v] => u = v
    BY <1>1, <1>13, <2>1
  <2>3. Range(queue') = Range(queue) \union inUse \union X
    BY <1>11, <1>14, Zenon
  <2>4. Range(queue') \intersect (Consuming' \union Writing') = {}
    BY <1>8, <1>14, <1>16, <2>1, <2>3, Zenon
  <2>5. Consuming' \intersect Writing' = {}
    BY <1>16, <2>1, Zenon
  <2>6. Range(queue') \union Consuming' \union Writing' \subseteq
          InState(bufs', "kPendingWrite")
    BY <1>8, <1>14, <1>16, <2>1, <2>3, Zenon
  <2> QED
    BY <1>13, <2>2, <2>4, <2>5, <2>6, Zenon DEF TasksAreDistinct
<1>19. PendingWriteHasOneTask'
  BY <1>3, <1>8, <1>11, <1>14, <1>16, <1>18, Zenon DEF PendingWriteHasOneTask
<1> QED
  BY <1>15, <1>17, <1>19, Zenon DEF SessionInv

-----------------------------------------------------------------------------
(* Every step of the session keeps the inductive invariant.                *)
LEMMA NextInv == SessionInv /\ [Next]_vars => SessionInv'
<1> SUFFICES ASSUME SessionInv, [Next]_vars PROVE SessionInv'
  BY Zenon
<1>1. CASE UNCHANGED vars
  <2>1. /\ UnchangedButBuffers /\ UNCHANGED <<bufs, held>>
        /\ pc' = pc /\ waiting' = waiting
    BY <1>1, Zenon DEF vars, UnchangedButBuffers
  <2>2. /\ At("return")' = At("return") /\ At("consume")' = At("consume")
        /\ InWait' = InWait
    BY <2>1, Zenon DEF At, InWait
  <2>3. /\ TypeOK /\ waiting = Cardinality(InWait)
        /\ pc \in [Threads -> {"idle", "wait", "woken", "return", "consume",
                               "exchange"}]
    BY Zenon DEF SessionInv, TypeOK, WaitingIsCounted
  <2>4. IsFiniteSet(InWait') /\ waiting' = Cardinality(InWait')
    BY <2>1, <2>2, <2>3, InWaitFinite, Zenon
  <2> QED
    BY <2>1, <2>2, <2>3, <2>4, MoveStep, Zenon
<1>2. CASE \E t \in Threads : \/ AllocateBuffer(t)
                              \/ WakeUp(t)
                              \/ SpuriousWakeup(t)
                              \/ FindBuffer(t)
                              \/ ReturnBuffer(t)
                              \/ ConsumeBuffer(t)
                              \/ ExchangeBuffer(t)
                              \/ Fill(t)
  BY <1>2, AllocateBufferStep, WakeUpStep, SpuriousWakeupStep, FindBufferStep,
     ReturnBufferStep, ConsumeBufferStep, ExchangeBufferStep, FillStep, Zenon
<1>3. CASE Close
  BY <1>3, CloseStep, Zenon
<1>4. CASE WriteBuffer
  BY <1>4, WriteBufferStep, Zenon
<1>5. CASE RecycleBuffer
  BY <1>5, RecycleBufferStep, Zenon
<1> QED
  BY <1>1, <1>2, <1>3, <1>4, <1>5, Zenon DEF Next, Done

(* The inductive invariant holds in every reachable state.                 *)
THEOREM SessionInvariant == Spec => []SessionInv
  BY InitInv, NextInv, PTL DEF Spec

(* Every variable of the session has its type; in particular none of the   *)
(* counters of session.h, which are unsigned, ever wraps below zero.       *)
THEOREM TypeCorrect == Spec => []TypeOK
<1>1. SessionInv => TypeOK
  BY Zenon DEF SessionInv
<1> QED
  BY <1>1, SessionInvariant, PTL

(* The counts and the free list of the session are exact after every       *)
(* critical section, whatever fails.                                       *)
THEOREM BookkeepingCorrect == Spec => []BookkeepingIsConsistent
<1>1. SessionInv => BookkeepingIsConsistent
  BY Zenon DEF SessionInv
<1> QED
  BY <1>1, SessionInvariant, PTL

(* Whatever fails, no two tasks refer to a buffer and each refers to a     *)
(* write-pending one: no buffer is written or recycled twice.              *)
THEOREM TasksCorrect == Spec => []TasksAreDistinct
<1>1. SessionInv => TasksAreDistinct
  BY Zenon DEF SessionInv, PendingWriteHasOneTask
<1> QED
  BY <1>1, SessionInvariant, PTL

(* When no mapping fails, every write-pending buffer is on its way to be   *)
(* recycled.                                                               *)
THEOREM PendingWriteCorrect == Spec => []PendingWriteHasOneTask
<1>1. SessionInv => PendingWriteHasOneTask
  BY Zenon DEF SessionInv
<1> QED
  BY <1>1, SessionInvariant, PTL

(* Until the session closes no buffer is handed to two client threads.     *)
THEOREM ClientsCorrect == Spec => []InUseHasOneClient
<1>1. SessionInv => InUseHasOneClient
  BY Zenon DEF SessionInv
<1> QED
  BY <1>1, SessionInvariant, PTL

-----------------------------------------------------------------------------
(***************************************************************************)
(* The states of a buffer, step by step: no action of the session takes a  *)
(* buffer through any other change than those of the cycle from available  *)
(* to in use to write-pending.                                             *)
(***************************************************************************)

(* A buffer may go from state s to state u in one step; closes says that   *)
(* the step is the one that closes the session.                            *)
Moves(s, u, closes) ==
  <<s, u>> \in
    {<<v, v>> : v \in BufferState \union {"none", "deleted"}} \union
    {<<"none", "kAvailable">>, <<"none", "kInUse">>,
     <<"kAvailable", "kInUse">>, <<"kInUse", "kPendingWrite">>,
     <<"kPendingWrite", "kAvailable">>, <<"kPendingWrite", "deleted">>} \union
    (IF closes
     THEN {<<"none", "kPendingWrite">>, <<"kAvailable", "kPendingWrite">>}
     ELSE {})

Cycles == \A c \in Buffers : Moves(bufs.state[c], bufs'.state[c], is_closing_' # is_closing_)

(* q is p with buffer b put in state s.                                    *)
Puts(p, q, b, s) ==
  \A c \in Buffers : q.state[c] = IF c = b THEN s ELSE p.state[c]

(* q is p with some buffers that were not there before, all available.     *)
Adds(p, q) ==
  \A c \in Buffers : \/ q.state[c] = p.state[c]
                     \/ p.state[c] = "none" /\ q.state[c] = "kAvailable"

(* The moves, one by one.                                                  *)
LEMMA MovesTable ==
  ASSUME NEW closes \in BOOLEAN
  PROVE  /\ \A s \in BufferState \union {"none", "deleted"} : Moves(s, s, closes)
         /\ Moves("none", "kAvailable", closes) /\ Moves("none", "kInUse", closes)
         /\ Moves("kAvailable", "kInUse", closes) /\ Moves("kInUse", "kPendingWrite", closes)
         /\ Moves("kPendingWrite", "kAvailable", closes)
         /\ Moves("kPendingWrite", "deleted", closes)
         /\ closes => Moves("none", "kPendingWrite", closes)
         /\ closes => Moves("kAvailable", "kPendingWrite", closes)
  BY Zenon DEF Moves

(* Every buffer is in one of the five states.                              *)
LEMMA StatesOfBuffers ==
  ASSUME NEW p \in Bookkeeping, NEW c \in Buffers
  PROVE  p.state[c] \in BufferState \union {"none", "deleted"}
  BY Zenon DEF Bookkeeping

(* A step that leaves the book-keeping alone.                              *)
LEMMA StillCycles ==
  ASSUME SessionInv, bufs' = bufs PROVE Cycles
<1>1. bufs \in Bookkeeping
  BY Zenon DEF SessionInv, TypeOK
<1> QED
  BY <1>1, StatesOfBuffers, MovesTable, Zenon DEF Cycles

(* A step that moves one buffer.                                           *)
LEMMA PutCycles ==
  ASSUME SessionInv, NEW b \in Buffers, NEW s, Puts(bufs, bufs', b, s),
         Moves(bufs.state[b], s, is_closing_' # is_closing_)
  PROVE  Cycles
<1>1. bufs \in Bookkeeping
  BY Zenon DEF SessionInv, TypeOK
<1> QED
  BY <1>1, StatesOfBuffers, MovesTable, Zenon DEF Cycles, Puts

(* The buffer at the head of the free list is taken.                       *)
LEMMA TakeAvailablePuts ==
  ASSUME NEW p \in Bookkeeping, IsConsistent(p), p.available # <<>>
  PROVE  /\ Head(p.available) \in Buffers
         /\ p.state[Head(p.available)] = "kAvailable"
         /\ Puts(p, TakeAvailable(p), Head(p.available), "kInUse")
<1>1. PICK b : b = Head(p.available)
  BY Zenon
<1>2. b \in Buffers /\ b \in InState(p, "kAvailable")
  BY <1>1, TakeAvailableConsistent, Zenon
<1>3. TakeAvailable(p).state = [p.state EXCEPT ![b] = "kInUse"]
  BY <1>1, Zenon DEF TakeAvailable, ChangeBufferState, Bookkeeping
<1> QED
  BY <1>1, <1>2, <1>3, Zenon DEF Puts, InState, Bookkeeping

(* A pool is added.                                                        *)
LEMMA AllocateBuffersAdds ==
  ASSUME NEW p \in Bookkeeping, NEW n, NEW pool \in PoolsOf(p, n), NEW size
  PROVE  Adds(p, AllocateBuffers(p, pool, size))
<1>1. \A c \in Range(pool) : p.state[c] = "none"
  BY Zenon DEF PoolsOf, Range, Fresh
<1>2. AllocateBuffers(p, pool, size).state =
        [b \in Buffers |-> IF b \in Range(pool) THEN "kAvailable" ELSE p.state[b]]
  BY Zenon DEF AllocateBuffers
<1> QED
  BY <1>1, <1>2, Zenon DEF Adds

-----------------------------------------------------------------------------
(* GetNextBufferUnlocked hands out an available buffer or one of a pool it *)
(* has just allocated.                                                     *)
LEMMA GetNextBufferCycles ==
  ASSUME SessionInv, NEW t \in Threads, NEW w, GetNextBufferUnlocked(t, w),
         is_closing_' = is_closing_
  PROVE  Cycles
<1>1. bufs \in Bookkeeping /\ IsConsistent(bufs)
  BY Zenon DEF SessionInv, TypeOK, BookkeepingIsConsistent
<1>2. CASE bufs.available # <<>> /\ bufs' = TakeAvailable(bufs)
  BY <1>1, <1>2, TakeAvailablePuts, PutCycles, MovesTable, Zenon
<1>3. CASE bufs' = bufs
  BY <1>3, StillCycles, Zenon
<1>4. CASE /\ bufs.available = <<>>
           /\ \E pool \in NewPools(NumIncremental) :
                bufs' = TakeAvailable(AllocateBuffers(bufs, pool, BufferSize))
  <2>1. PICK pool \in NewPools(NumIncremental) :
          bufs' = TakeAvailable(AllocateBuffers(bufs, pool, BufferSize))
    BY <1>4, Zenon
  <2>2. PICK q : q = AllocateBuffers(bufs, pool, BufferSize)
    BY Zenon
  <2>3. /\ NumIncremental \in Nat \ {0} /\ BufferSize \in Nat
        /\ pool \in PoolsOf(bufs, NumIncremental)
    BY SessionAssumption, Zenon DEF NewPools, PoolsOf
  <2>4. q \in Bookkeeping /\ IsConsistent(q) /\ q.available # <<>>
    BY <1>1, <2>2, <2>3, AllocateBuffersConsistent, Zenon
  <2>5. Adds(bufs, q)
    BY <1>1, <2>2, <2>3, AllocateBuffersAdds, Zenon
  <2>6. PICK b \in Buffers : q.state[b] = "kAvailable" /\ Puts(q, bufs', b, "kInUse")
    BY <2>1, <2>2, <2>4, TakeAvailablePuts, Zenon
  <2> QED
    BY <1>1, <2>5, <2>6, StatesOfBuffers, MovesTable, ZenonT(30) DEF Cycles, Puts, Adds
<1> QED
  BY <1>2, <1>3, <1>4, Zenon DEF GetNextBufferUnlocked, Deliver, StartWaiting, Refuse

(* GetBuffer may also allocate a buffer of its own for a large request.    *)
LEMMA GetBufferCycles ==
  ASSUME SessionInv, NEW t \in Threads, NEW n, GetBuffer(t, n), is_closing_' = is_closing_
  PROVE  Cycles
<1>1. bufs \in Bookkeeping
  BY Zenon DEF SessionInv, TypeOK
<1>2. CASE bufs' = bufs
  BY <1>2, StillCycles, Zenon
<1>3. CASE GetNextBufferUnlocked(t, waiting)
  BY <1>3, GetNextBufferCycles, Zenon
<1>4. CASE \E b \in Fresh(bufs) : bufs' = AllocateBufferForImmediateUse(bufs, b, n)
  <2>1. PICK b \in Fresh(bufs) : bufs' = AllocateBufferForImmediateUse(bufs, b, n)
    BY <1>4, Zenon
  <2>2. b \in Buffers /\ bufs.state[b] = "none"
    BY Zenon DEF Fresh
  <2>3. bufs'.state = [bufs.state EXCEPT ![b] = "kInUse"]
    BY <2>1, Zenon DEF AllocateBufferForImmediateUse
  <2>4. Puts(bufs, bufs', b, "kInUse")
    BY <1>1, <2>3, Zenon DEF Puts, Bookkeeping
  <2> QED
    BY <2>2, <2>4, PutCycles, MovesTable, Zenon
<1> QED
  BY <1>2, <1>3, <1>4, Zenon DEF GetBuffer, GetBufferOfSize, Deliver, Refuse

(* ReturnBuffer makes a buffer in use write-pending.                       *)
LEMMA ReturnBufferCycles ==
  ASSUME SessionInv, NEW t \in Threads, ReturnBuffer(t) PROVE Cycles
<1>1. bufs \in Bookkeeping
  BY Zenon DEF SessionInv, TypeOK
<1>2. CASE bufs' = bufs
  BY <1>2, StillCycles, Zenon
<1>3. CASE ~is_closing_ /\ bufs' = ChangeBufferState(bufs, "kPendingWrite", arg[t])
  <2>1. arg[t] \in InState(bufs, "kInUse")
    BY <1>3, Zenon DEF ReturnBuffer, SessionInv, InUseHasOneClient, Returning, At
  <2>2. arg[t] \in Buffers /\ bufs.state[arg[t]] = "kInUse"
    BY <2>1, Zenon DEF InState
  <2>3. bufs'.state = [bufs.state EXCEPT ![arg[t]] = "kPendingWrite"]
    BY <1>3, Zenon DEF ChangeBufferState
  <2>4. Puts(bufs, bufs', arg[t], "kPendingWrite")
    BY <1>1, <2>3, Zenon DEF Puts, Bookkeeping
  <2> QED
    BY <2>2, <2>4, PutCycles, MovesTable, Zenon
<1> QED
  BY <1>2, <1>3, Zenon DEF ReturnBuffer

(* RecycleBuffer makes a write-pending buffer available, or deletes it.    *)
LEMMA RecycleBufferCycles ==
  ASSUME SessionInv, RecycleBuffer PROVE Cycles
<1>1. bufs \in Bookkeeping
  BY Zenon DEF SessionInv, TypeOK
<1>2. writer \in InState(bufs, "kPendingWrite")
  BY Zenon DEF RecycleBuffer, SessionInv, PendingWriteHasOneTask, TasksAreDistinct, Writing
<1>3. writer \in Buffers /\ bufs.state[writer] = "kPendingWrite"
  BY <1>2, Zenon DEF InState
<1>4. PICK s \in {"kAvailable", "deleted"} : bufs'.state = [bufs.state EXCEPT ![writer] = s]
  BY DEF RecycleBuffer, DestroySingletonBuffer, MakeAvailable, ChangeBufferState
<1>5. Puts(bufs, bufs', writer, s)
  BY <1>1, <1>4, Zenon DEF Puts, Bookkeeping
<1> QED
  BY <1>3, <1>4, <1>5, PutCycles, MovesTable, Zenon

-----------------------------------------------------------------------------
(* CreateProcessEndedEvent takes a buffer, perhaps a new one, and makes it *)
(* write-pending unless it cannot be mapped.                               *)
LEMMA EndedEventPuts ==
  ASSUME NEW p \in Bookkeeping, IsConsistent(p), p.available # <<>>, NEW q,
         WriteEndedEvent(p, q)
  PROVE  \E b \in Buffers, s \in {"kInUse", "kPendingWrite"} :
           p.state[b] = "kAvailable" /\ Puts(p, bufs', b, s)
<1>1. PICK b : b = Head(p.available)
  BY Zenon
<1>2. b \in Buffers /\ p.state[b] = "kAvailable" /\ Puts(p, TakeAvailable(p), b, "kInUse")
  BY <1>1, TakeAvailablePuts, Zenon
<1>3. CASE bufs' = TakeAvailable(p)
  BY <1>2, <1>3, Zenon
<1>4. CASE bufs' = ChangeBufferState(TakeAvailable(p), "kPendingWrite", b)
  <2>1. PICK r : r = TakeAvailable(p) /\ r \in Bookkeeping
    BY <1>1, TakeAvailableConsistent, Zenon
  <2>2. bufs'.state = [r.state EXCEPT ![b] = "kPendingWrite"]
    BY <1>4, <2>1, Zenon DEF ChangeBufferState
  <2>3. Puts(p, bufs', b, "kPendingWrite")
    BY <1>2, <2>1, <2>2, Zenon DEF Puts, Bookkeeping
  <2> QED
    BY <1>2, <2>3, Zenon
<1> QED
  BY <1>1, <1>3, <1>4, Zenon DEF WriteEndedEvent

(* Close makes every buffer in use write-pending and then does that.       *)
LEMMA CloseCycles ==
  ASSUME SessionInv, Close PROVE Cycles
<1>1. bufs \in Bookkeeping /\ IsConsistent(bufs)
  BY Zenon DEF SessionInv, TypeOK, BookkeepingIsConsistent
<1>2. (is_closing_' # is_closing_) = TRUE
  BY Zenon DEF Close
<1>3. PICK p : p = FlushInUse(bufs)
  BY Zenon
<1>4. /\ p \in Bookkeeping /\ IsConsistent(p)
      /\ p.state = [b \in Buffers |-> IF bufs.state[b] = "kInUse"
                                      THEN "kPendingWrite" ELSE bufs.state[b]]
  BY <1>1, <1>3, FlushInUseConsistent, Zenon
<1>5. \A c \in Buffers : \/ p.state[c] = bufs.state[c]
                         \/ bufs.state[c] = "kInUse" /\ p.state[c] = "kPendingWrite"
  BY <1>4, Zenon
<1>6. PICK q : CreateProcessEndedEvent(p, q)
  BY <1>3, Zenon DEF Close
<1>7. ASSUME NEW r \in Bookkeeping, IsConsistent(r), r.available # <<>>,
             Adds(p, r), WriteEndedEvent(r, q)
      PROVE  Cycles
  <2>1. PICK b \in Buffers, s \in {"kInUse", "kPendingWrite"} :
          r.state[b] = "kAvailable" /\ Puts(r, bufs', b, s)
    BY <1>7, EndedEventPuts, Zenon
  <2> SUFFICES ASSUME NEW c \in Buffers PROVE Moves(bufs.state[c], bufs'.state[c], TRUE)
    BY <1>2, Zenon DEF Cycles
  <2>2. CASE c = b
    <3>1. bufs'.state[c] = s /\ bufs.state[c] \in {"none", "kAvailable"}
      BY <1>5, <1>7, <2>1, <2>2, Zenon DEF Puts, Adds
    <3> QED
      BY <3>1, MovesTable, Zenon
  <2>3. CASE c # b
    <3>1. bufs'.state[c] = r.state[c]
      BY <2>1, <2>3, Zenon DEF Puts
    <3>2. \/ bufs'.state[c] = bufs.state[c]
          \/ bufs.state[c] = "kInUse" /\ bufs'.state[c] = "kPendingWrite"
          \/ bufs.state[c] = "none" /\ bufs'.state[c] = "kAvailable"
      BY <1>5, <1>7, <3>1, Zenon DEF Adds
    <3> QED
      BY <1>1, <3>2, StatesOfBuffers, MovesTable, Zenon
  <2> QED
    BY <2>2, <2>3, Zenon
<1>8. CASE p.available # <<>> /\ WriteEndedEvent(p, q)
  BY <1>4, <1>7, <1>8, Zenon DEF Adds
<1>9. CASE \E pool \in NewPools(1) : WriteEndedEvent(AllocateBuffers(p, pool, EventSize), q)
  <2>1. PICK pool \in NewPools(1) : WriteEndedEvent(AllocateBuffers(p, pool, EventSize), q)
    BY <1>9, Zenon
  <2>2. PICK r : r = AllocateBuffers(p, pool, EventSize)
    BY Zenon
  <2>3. Fresh(p) = Fresh(bufs)
    BY <1>5, Zenon DEF Fresh
  <2>4. r \in Bookkeeping /\ IsConsistent(r) /\ r.available # <<>>
    BY <1>4, <2>2, <2>3, NewEventBuffer, Zenon
  <2>5. pool \in PoolsOf(p, 1)
    BY <2>3, Zenon DEF NewPools, PoolsOf
  <2>6. Adds(p, r)
    BY <1>4, <2>2, <2>5, AllocateBuffersAdds, Zenon
  <2> QED
    BY <1>7, <2>1, <2>2, <2>4, <2>6, Zenon
<1>10. CASE bufs' = p
  BY <1>1, <1>2, <1>5, <1>10, StatesOfBuffers, MovesTable, Zenon DEF Cycles
<1> QED
  BY <1>6, <1>8, <1>9, <1>10, Zenon DEF CreateProcessEndedEvent

-----------------------------------------------------------------------------
(* Every step of the session.                                              *)
LEMMA NextCycles ==
  ASSUME SessionInv, [Next]_vars PROVE Cycles
<1>1. CASE UNCHANGED vars
  BY <1>1, StillCycles, Zenon DEF vars
<1>2. ASSUME NEW t \in Threads, AllocateBuffer(t) \/ ExchangeBuffer(t) PROVE Cycles
  BY <1>2, GetBufferCycles, Zenon DEF AllocateBuffer, ExchangeBuffer, UnchangedButBuffers
<1>3. ASSUME NEW t \in Threads, WakeUp(t) PROVE Cycles
  BY <1>3, GetNextBufferCycles, Zenon DEF WakeUp, UnchangedButBuffers
<1>4. ASSUME NEW t \in Threads, SpuriousWakeup(t) \/ FindBuffer(t) PROVE Cycles
  BY <1>4, StillCycles, Zenon DEF SpuriousWakeup, FindBuffer
<1>5. ASSUME NEW t \in Threads, ConsumeBuffer(t) \/ Fill(t) PROVE Cycles
  BY <1>5, StillCycles, Zenon DEF ConsumeBuffer, Fill
<1>6. ASSUME NEW t \in Threads, ReturnBuffer(t) PROVE Cycles
  BY <1>6, ReturnBufferCycles, Zenon
<1>7. CASE Close
  BY <1>7, CloseCycles, Zenon
<1>8. CASE WriteBuffer
  BY <1>8, StillCycles, Zenon DEF WriteBuffer
<1>9. CASE RecycleBuffer
  BY <1>9, RecycleBufferCycles, Zenon
<1> QED
  BY <1>1, <1>2, <1>3, <1>4, <1>5, <1>6, <1>7, <1>8, <1>9, Zenon DEF Next, Done

(* The DCHECK of ChangeBufferState holds whatever the threads do, and no   *)
(* other code changes a buffer's state behind its back: a buffer is handed *)
(* out only when available, returned only when in use, and recycled only   *)
(* when write-pending.                                                     *)
THEOREM BufferStatesAlwaysCycle == Spec => BufferStatesCycle
<1>1. SessionInv /\ [Next]_vars =>
        [\A b \in Buffers :
           <<bufs.state[b], bufs'.state[b]>> \in
             {<<s, s>> : s \in BufferState \union {"none", "deleted"}} \union
             {<<"none", "kAvailable">>, <<"none", "kInUse">>,
              <<"kAvailable", "kInUse">>, <<"kInUse", "kPendingWrite">>,
              <<"kPendingWrite", "kAvailable">>, <<"kPendingWrite", "deleted">>} \union
             (IF is_closing_' # is_closing_
              THEN {<<"none", "kPendingWrite">>, <<"kAvailable", "kPendingWrite">>}
              ELSE {})]_vars
  BY NextCycles, Zenon DEF Cycles, Moves
<1> QED
  BY <1>1, SessionInvariant, PTL DEF Spec, BufferStatesCycle

=============================================================================
