------------------------- MODULE ShardedQuarantine -------------------------
(***************************************************************************)
(* The quarantine that the block heaps of the Asan runtime share:          *)
(* SizeLimitedQuarantineImpl on top of ShardedQuarantine.  Blocks wait in  *)
(* one list per shard, each under its own lock.  size_ belongs to no lock: *)
(* it is read and written in separate steps, and an update made in between *)
(* by another thread is lost.  count_ is updated like size_ and decides    *)
(* nothing, so it is left out.                                             *)
(***************************************************************************)
EXTENDS Integers, Sequences

CONSTANTS
  Threads,
  Blocks,           \* the blocks of the heaps that use this quarantine
  ShardingFactor,
  ShardOf,          \* the hash of each block, a shard
  SizeOf,           \* the size of each block
  MaxObjectSize,    \* max_object_size_
  Modulus,          \* one more than the largest size_t
  None              \* no thread, no block

VARIABLES
  shards,     \* the list of each shard
  locks,      \* the holder of each shard's lock
  size,       \* size_
  maxSize,    \* max_quarantine_size_
  call,       \* the operation each thread is in
  raced       \* whether two operations have overlapped so far

quarantineVars == <<shards, locks, size, maxSize, call, raced>>

Shards == 0..(ShardingFactor - 1)
ShardAfter(i) == (i + 1) % ShardingFactor

ASSUME QuarantineAssumption ==
  /\ ShardingFactor \in Nat \ {0} /\ ShardOf \in [Blocks -> Shards]
  /\ Modulus \in Nat \ {0} /\ SizeOf \in [Blocks -> Nat]

(* In an operation: the next step, its block, the value of size_ that it   *)
(* has read, the shard it is at and the one it began with, and the blocks  *)
(* it has taken.                                                           *)
NoCall == [op |-> "none", block |-> None, read |-> 0, at |-> 0, from |-> 0,
           taken |-> << >>]

Updating(t) == call[t].op \in {"add", "load", "subtract", "empty", "reset"}
Overlaps(t) == raced' = (raced \/ \E u \in Threads \ {t} : Updating(u))

-----------------------------------------------------------------------------
(* Push, under the lock of the block's shard.  It returns false if the     *)
(* block is too large or no node can be allocated.                         *)
TooLarge(b) == SizeOf[b] > MaxObjectSize \/ SizeOf[b] > maxSize

PushBegins(t, b) ==
  /\ locks[ShardOf[b]] = None /\ ~TooLarge(b)
  /\ locks' = [locks EXCEPT ![ShardOf[b]] = t]
  /\ call' = [call EXCEPT ![t] = [NoCall EXCEPT !.op = "add", !.block = b, !.read = size]]
  /\ Overlaps(t)
  /\ UNCHANGED <<shards, size, maxSize>>

PushEnds(t, b) ==
  /\ call[t].op = "add" /\ call[t].block = b
  /\ shards' = [shards EXCEPT ![ShardOf[b]] = Append(@, b)]
  /\ size' = (call[t].read + SizeOf[b]) % Modulus
  /\ locks' = [locks EXCEPT ![ShardOf[b]] = None]
  /\ call' = [call EXCEPT ![t] = NoCall]
  /\ UNCHANGED <<maxSize, raced>>

PushFails(t, b) ==
  /\ locks[ShardOf[b]] = None
  /\ UNCHANGED quarantineVars

(* Pop returns false at once if the size is within the limit.  Otherwise   *)
(* it takes the first block of the first shard that has one, starting at   *)
(* any of them, and returns false if all of them turn out to be empty.     *)
PopRefuses(t) ==
  /\ call[t].op = "none" /\ size <= maxSize
  /\ UNCHANGED quarantineVars

PopBegins(t) ==
  /\ call[t].op = "none" /\ size > maxSize
  /\ \E i \in Shards :
       call' = [call EXCEPT ![t] = [NoCall EXCEPT !.op = "scan", !.at = i, !.from = i]]
  /\ UNCHANGED <<shards, locks, size, maxSize, raced>>

(* Mutant: the scan does not stop at the shard it began with.              *)
PopScansForever(t) ==
  LET i == call[t].at IN
  /\ call[t].op = "scan"
  /\ locks[i] = None /\ shards[i] = << >>
  /\ call' = [call EXCEPT ![t].at = ShardAfter(i)]
  /\ UNCHANGED <<shards, locks, size, maxSize, raced>>

PopScans(t) ==
  LET i == call[t].at IN
  /\ call[t].op = "scan"
  /\ locks[i] = None /\ shards[i] = << >>
  /\ ShardAfter(i) # call[t].from
  /\ call' = [call EXCEPT ![t].at = ShardAfter(i)]
  /\ UNCHANGED <<shards, locks, size, maxSize, raced>>

PopFindsNothing(t) ==
  LET i == call[t].at IN
  /\ call[t].op = "scan"
  /\ locks[i] = None /\ shards[i] = << >>
  /\ ShardAfter(i) = call[t].from
  /\ call' = [call EXCEPT ![t] = NoCall]
  /\ UNCHANGED <<shards, locks, size, maxSize, raced>>

PopTakes(t) ==
  LET i == call[t].at IN
  /\ call[t].op = "scan"
  /\ locks[i] = None /\ shards[i] # << >>
  /\ shards' = [shards EXCEPT ![i] = Tail(@)]
  /\ call' = [call EXCEPT ![t] = [NoCall EXCEPT !.op = "load", !.block = Head(shards[i])]]
  /\ Overlaps(t)
  /\ UNCHANGED <<locks, size, maxSize>>

PopLoads(t) ==
  /\ call[t].op = "load"
  /\ call' = [call EXCEPT ![t].op = "subtract", ![t].read = size]
  /\ UNCHANGED <<shards, locks, size, maxSize, raced>>

PopEnds(t, b) ==
  /\ call[t].op = "subtract" /\ call[t].block = b
  /\ size' = (call[t].read - SizeOf[b]) % Modulus
  /\ call' = [call EXCEPT ![t] = NoCall]
  /\ UNCHANGED <<shards, locks, maxSize, raced>>

(* Empty takes the shards one after the other, and then resets the size.   *)
EmptyBegins(t) ==
  /\ call[t].op = "none"
  /\ call' = [call EXCEPT ![t] = [NoCall EXCEPT !.op = "empty"]]
  /\ Overlaps(t)
  /\ UNCHANGED <<shards, locks, size, maxSize>>

EmptyShard(t) ==
  LET i == call[t].at IN
  /\ call[t].op = "empty" /\ locks[i] = None
  /\ shards' = [shards EXCEPT ![i] = << >>]
  /\ call' = [call EXCEPT ![t].taken = @ \o shards[i],
                          ![t].at = ShardAfter(i),
                          ![t].op = IF ShardAfter(i) = 0 THEN "reset" ELSE "empty"]
  /\ UNCHANGED <<locks, size, maxSize, raced>>

(* Mutant: size_ is not reset.                                             *)
EmptyEndsWithSize(t) ==
  /\ call[t].op = "reset"
  /\ call' = [call EXCEPT ![t] = NoCall]
  /\ UNCHANGED <<shards, locks, size, maxSize, raced>>

EmptyEnds(t) ==
  /\ call[t].op = "reset"
  /\ size' = 0
  /\ call' = [call EXCEPT ![t] = NoCall]
  /\ UNCHANGED <<shards, locks, maxSize, raced>>

SetMaxQuarantineSize(n) ==
  /\ maxSize' = n
  /\ UNCHANGED <<shards, locks, size, call, raced>>

QuarantineInit(n) ==
  /\ shards = [i \in Shards |-> << >>]
  /\ locks = [i \in Shards |-> None]
  /\ size = 0 /\ maxSize = n
  /\ call = [t \in Threads |-> NoCall]
  /\ raced = FALSE

(* The type of every variable but maxSize.                                 *)
CallSet == [op : {"none", "add", "scan", "load", "subtract", "empty", "reset"},
            block : Blocks \union {None}, read : 0..(Modulus - 1),
            at : Shards, from : Shards, taken : Seq(Blocks)]

QuarantineTypeOK ==
  /\ shards \in [Shards -> Seq(Blocks)] /\ locks \in [Shards -> Threads \union {None}]
  /\ size \in 0..(Modulus - 1) /\ raced \in BOOLEAN
  /\ call \in [Threads -> CallSet]

=============================================================================
