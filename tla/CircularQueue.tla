--------------------------- MODULE CircularQueue ---------------------------
(***************************************************************************)
(* The Asan runtime's queue of bounded capacity: a buffer that is never    *)
(* resized, the index of the first element, the index of the next free     *)
(* place, and the number of elements.                                      *)
(***************************************************************************)
EXTENDS Naturals

(* A new queue.  The buffer is filled with zeros.                          *)
NewQueue(capacity) ==
  [buffer |-> [i \in 0..(capacity - 1) |-> 0], head |-> 0, tail |-> 0, size |-> 0]

(* An index wraps around when it has passed the end of the buffer.         *)
Following(i, capacity) == IF i + 1 >= capacity THEN 0 ELSE i + 1

(* push fails on a full queue and leaves it alone, and so does pop on an   *)
(* empty one.                                                              *)
QueuePush(q, elem, capacity) ==
  IF q.size = capacity THEN q
  ELSE [buffer |-> [q.buffer EXCEPT ![q.tail] = elem],
        head |-> q.head,
        tail |-> Following(q.tail, capacity),
        size |-> q.size + 1]

QueuePop(q, capacity) ==
  IF q.size = 0 THEN q
  ELSE [buffer |-> q.buffer,
        head |-> Following(q.head, capacity),
        tail |-> q.tail,
        size |-> q.size - 1]

QueueFront(q) == q.buffer[q.head]
QueueEmpty(q) == q.size = 0

(* The places of the buffer that hold elements.                            *)
Occupied(q, capacity) ==
  {i \in 0..(capacity - 1) :
     (q.head <= i /\ i < q.head + q.size) \/ i + capacity < q.head + q.size}

Elements(q, capacity) == {q.buffer[i] : i \in Occupied(q, capacity)}

=============================================================================
