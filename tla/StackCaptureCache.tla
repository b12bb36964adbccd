------------------------- MODULE StackCaptureCache -------------------------
(***************************************************************************)
(* The Asan runtime's cache of stack traces: reference counted captures    *)
(* that threads look up, add, release and reclaim under four kinds of      *)
(* locks (one per shard of the known stacks, one per list of reclaimed     *)
(* captures, that of the current page, that of the statistics).            *)
(*                                                                         *)
(* A capture is a place for up to "max" frames, numbered in the order in   *)
(* which it was carved out of a page.  The frames of a stack trace are     *)
(* those of its identifier, so a capture holds an identifier and a number  *)
(* of frames.  The code inside one lock is one step.  Of the statistics,   *)
(* those that only grow (requested, allocated, unreferenced, size) are     *)
(* left out.                                                               *)
(*                                                                         *)
(* max_num_frames_ limits the search for a reclaimed capture only: a stack *)
(* trace may be longer than it, up to kMaxNumFrames, and then always gets  *)
(* a new capture.  MaxPages bounds the pages that such traces may take.    *)
(***************************************************************************)
EXTENDS Integers, Sequences, FiniteSets, Functions

CONSTANTS
  Threads,
  None,         \* no thread, no stack trace
  Ids,          \* stack identifiers
  Frames,       \* the number of frames of each
  ShardOf,      \* the shard of the known stacks each belongs to
  kMaxNumFrames, \* the most frames a stack trace can have
  MaxFrames,    \* max_num_frames_, the largest list that is searched
  HeaderSize,   \* the size of a capture without frames, in frames
  DataSize,     \* the size of a page, in frames
  MaxRefCount,  \* kMaxRefCount, at which a reference count is saturated
  Modulus,      \* one more than the largest value of a statistic
  MaxHeld,      \* bound on the references to each stack trace
  MaxPages      \* bound on the pages, for traces longer than MaxFrames

(* A stack trace has at least one frame and at most kMaxNumFrames of them, *)
(* and a capture of that many frames fits in a page.                       *)
ASSUME CacheAssumption ==
  /\ IsFiniteSet(Threads) /\ None \notin Threads /\ None \notin Ids
  /\ kMaxNumFrames \in Nat /\ MaxFrames \in 0..kMaxNumFrames
  /\ Frames \in [Ids -> 1..kMaxNumFrames]
  /\ HeaderSize \in Nat /\ DataSize \in Nat /\ HeaderSize + kMaxNumFrames <= DataSize
  /\ MaxRefCount \in Nat \ {0}

VARIABLES
  captures,     \* the captures, in the order of their creation
  pages,        \* the number of pages
  used,         \* bytes_used_ of the current page
  known,        \* known_stacks_: the capture of each identifier, or 0
  locks,        \* the holder of the lock of each shard
  reclaimed,    \* the list of reclaimed captures of each size
  statistics,   \* statistics_
  held,         \* the references that blocks hold, per capture and identifier
  thread        \* the call each thread is in

vars == <<captures, pages, used, known, locks, reclaimed, statistics, held, thread>>

Shards == {ShardOf[i] : i \in Ids}
NoCall == [pc |-> "idle", id |-> None, n |-> 0, capture |-> 0, unused |-> 0,
           last |-> FALSE]

Set(t, c) == thread' = [thread EXCEPT ![t] = c]
At(t, pc) == thread[t].pc = pc

(* The size of a capture, and the frames that fit in the given size.       *)
GetSize(n) == HeaderSize + n
GetMaxNumFrames(bytes) == IF bytes < HeaderSize THEN 0 ELSE bytes - HeaderSize

Capture(n) == [max |-> n, num |-> 0, id |-> None, refs |-> 0]
RefCountIsSaturated(c) == captures[c].refs = MaxRefCount

AddRef(r) == IF r = MaxRefCount THEN r ELSE r + 1

(* Mutant: a saturated count is decremented as well.                       *)
RemoveRefAlways(r) == r - 1

RemoveRef(r) == IF r = MaxRefCount THEN r ELSE r - 1

-----------------------------------------------------------------------------
(* SaveStackTrace looks the identifier up.  A known stack gets one more    *)
(* reference; otherwise the shard stays locked until a capture is found.   *)
SaveStackTrace(t, i) ==
  /\ At(t, "idle") /\ locks[ShardOf[i]] = None
  /\ IF known[i] # 0
     THEN /\ captures' = [captures EXCEPT ![known[i]].refs = AddRef(@)]
          /\ Set(t, [NoCall EXCEPT !.pc = "saved", !.id = i, !.capture = known[i],
                                   !.last = RefCountIsSaturated(known[i])])
          /\ UNCHANGED locks
     ELSE /\ locks' = [locks EXCEPT ![ShardOf[i]] = t]
          /\ Set(t, [NoCall EXCEPT !.pc = "scan", !.id = i, !.n = Frames[i]])
          /\ UNCHANGED captures
  /\ UNCHANGED <<pages, used, known, reclaimed, statistics, held>>

(* GetStackCapture tries the lists of captures that are large enough, as   *)
(* far as max_num_frames_, and then the current page.                      *)
TakeReclaimed(t) ==
  LET n == thread[t].n IN
  /\ At(t, "scan") /\ n <= MaxFrames
  /\ IF reclaimed[n] = << >>
     THEN /\ Set(t, [thread[t] EXCEPT !.n = n + 1])
          /\ UNCHANGED reclaimed
     ELSE /\ reclaimed' = [reclaimed EXCEPT ![n] = Tail(@)]
          /\ Set(t, [thread[t] EXCEPT !.pc = "taken", !.capture = Head(reclaimed[n])])
  /\ UNCHANGED <<captures, pages, used, known, locks, statistics, held>>

(* The frames are no longer dead.  The thread that reclaimed them may not  *)
(* have counted them yet, which lets the number wrap around for a while.   *)
CountTaken(t) ==
  /\ At(t, "taken")
  /\ statistics' = [statistics EXCEPT !.frames_dead = @ - thread[t].n]
  /\ Set(t, [thread[t] EXCEPT !.pc = "insert"])
  /\ UNCHANGED <<captures, pages, used, known, locks, reclaimed, held>>

(* A page without room for the capture is abandoned; what is left of it    *)
(* becomes a smaller capture for later use.                                *)
GetNextStackCapture(t) ==
  LET n == Frames[thread[t].id]
      fits == used + GetSize(n) <= DataSize
      rest == GetMaxNumFrames(DataSize - used)
      made == IF ~fits /\ rest > 0 THEN <<Capture(rest), Capture(n)>> ELSE <<Capture(n)>>
  IN
  /\ At(t, "scan") /\ thread[t].n > MaxFrames
  /\ captures' = captures \o made
  /\ pages' = IF fits THEN pages ELSE pages + 1
  /\ used' = IF fits THEN used + GetSize(n) ELSE GetSize(n)
  /\ Set(t, [thread[t] EXCEPT !.capture = Len(captures'),
                              !.pc = IF Len(made) = 2 THEN "rest" ELSE "insert",
                              !.unused = IF Len(made) = 2 THEN Len(captures) + 1 ELSE 0])
  /\ UNCHANGED <<known, locks, reclaimed, statistics, held>>

(* AddStackCaptureToReclaimedList makes the capture invalid, links it in   *)
(* and counts its frames.  kInvalid stands for the number of frames it     *)
(* leaves there.                                                           *)
kInvalid == 255

AddStackCaptureToReclaimedList(c) ==
  /\ captures' = [captures EXCEPT ![c].num = kInvalid]
  /\ reclaimed' = [reclaimed EXCEPT ![captures[c].max] = <<c>> \o @]

(* Mutant: the frames of the trace are counted, not those of the capture.  *)
CountDeadFramesOfTrace(c) ==
  statistics' = [statistics EXCEPT !.frames_dead = @ + captures[c].num]

CountDeadFrames(c) ==
  statistics' = [statistics EXCEPT !.frames_dead = @ + captures[c].max]

(* Mutant: the rest of the page is not put into a list.                    *)
LoseRest(t) ==
  /\ At(t, "rest")
  /\ Set(t, [thread[t] EXCEPT !.pc = "insert", !.unused = 0])
  /\ UNCHANGED <<captures, pages, used, known, locks, reclaimed, statistics, held>>

ReclaimRest(t) ==
  /\ At(t, "rest")
  /\ AddStackCaptureToReclaimedList(thread[t].unused)
  /\ Set(t, [thread[t] EXCEPT !.pc = "count_rest"])
  /\ UNCHANGED <<pages, used, known, locks, statistics, held>>

CountRest(t) ==
  /\ At(t, "count_rest")
  /\ CountDeadFrames(thread[t].unused)
  /\ Set(t, [thread[t] EXCEPT !.pc = "insert", !.unused = 0])
  /\ UNCHANGED <<captures, pages, used, known, locks, reclaimed, held>>

(* Mutant: the number of frames is not rewritten upon reuse.               *)
InsertAsItIs(t) ==
  LET i == thread[t].id
      c == thread[t].capture IN
  /\ At(t, "insert")
  /\ captures' = [captures EXCEPT ![c].id = i, ![c].refs = AddRef(@),
                                  ![c].num = IF @ = 0 THEN Frames[i] ELSE @]
  /\ known' = [known EXCEPT ![i] = c]
  /\ locks' = [locks EXCEPT ![ShardOf[i]] = None]
  /\ Set(t, [thread[t] EXCEPT !.pc = "inserted"])
  /\ UNCHANGED <<pages, used, reclaimed, statistics, held>>

(* The frames that fit are copied.                                         *)
InitFromBuffer(c, i) ==
  [captures[c] EXCEPT !.id = i,
     !.num = IF Frames[i] < captures[c].max THEN Frames[i] ELSE captures[c].max]

(* InitFromBuffer, the insertion and the first reference.                  *)
Insert(t) ==
  LET i == thread[t].id
      c == thread[t].capture IN
  /\ At(t, "insert")
  /\ captures' = [captures EXCEPT ![c] =
                    [InitFromBuffer(c, i) EXCEPT !.refs = AddRef(captures[c].refs)]]
  /\ known' = [known EXCEPT ![i] = c]
  /\ locks' = [locks EXCEPT ![ShardOf[i]] = None]
  /\ Set(t, [thread[t] EXCEPT !.pc = "inserted"])
  /\ UNCHANGED <<pages, used, reclaimed, statistics, held>>

(* The statistics of SaveStackTrace, after which it returns the capture.   *)
UpdateStatistics(t) ==
  LET i == thread[t].id
      c == thread[t].capture
      new == IF At(t, "inserted") THEN 1 ELSE 0
      full == IF ~thread[t].last /\ RefCountIsSaturated(c) THEN 1 ELSE 0 IN
  /\ At(t, "saved") \/ At(t, "inserted")
  /\ statistics' = [statistics EXCEPT
       !.cached = @ + new, !.frames_alive = @ + new * Frames[i],
       !.saturated = @ + full,
       !.references = @ + 1, !.frames_stored = (@ + Frames[i]) % Modulus]
  /\ held' = [held EXCEPT ![i] = Append(@, c)]
  /\ Set(t, NoCall)
  /\ UNCHANGED <<captures, pages, used, known, locks, reclaimed>>

-----------------------------------------------------------------------------
(* ReleaseStackTrace drops a reference and, if it was the last one,        *)
(* forgets the stack.  The capture is reclaimed after the statistics.      *)
ReleaseStackTrace(t, i, k) ==
  LET c == held[i][k]
      refs == RemoveRef(captures[c].refs)
      shard == ShardOf[captures[c].id] IN
  /\ At(t, "idle") /\ locks[shard] = None
  /\ held' = [held EXCEPT ![i] = SubSeq(@, 1, k - 1) \o SubSeq(@, k + 1, Len(@))]
  /\ captures' = [captures EXCEPT ![c].refs = refs]
  /\ known' = IF refs = 0 THEN [known EXCEPT ![captures[c].id] = 0] ELSE known
  /\ Set(t, [NoCall EXCEPT !.pc = "released", !.id = i, !.capture = c,
                           !.last = (refs = 0)])
  /\ UNCHANGED <<pages, used, locks, reclaimed, statistics>>

(* The number of frames is read without the lock of the shard.             *)
UpdateStatisticsOnRelease(t) ==
  LET n == captures[thread[t].capture].num IN
  /\ At(t, "released")
  /\ statistics' = [statistics EXCEPT
       !.references = @ - 1, !.frames_stored = (@ - n) % Modulus,
       !.cached = IF thread[t].last THEN @ - 1 ELSE @,
       !.frames_alive = IF thread[t].last THEN @ - n ELSE @]
  /\ Set(t, IF thread[t].last THEN [thread[t] EXCEPT !.pc = "reclaim"] ELSE NoCall)
  /\ UNCHANGED <<captures, pages, used, known, locks, reclaimed, held>>

Reclaim(t) ==
  /\ At(t, "reclaim")
  /\ AddStackCaptureToReclaimedList(thread[t].capture)
  /\ Set(t, [thread[t] EXCEPT !.pc = "count"])
  /\ UNCHANGED <<pages, used, known, locks, statistics, held>>

CountReclaimed(t) ==
  /\ At(t, "count")
  /\ CountDeadFrames(thread[t].capture)
  /\ Set(t, NoCall)
  /\ UNCHANGED <<captures, pages, used, known, locks, reclaimed, held>>

-----------------------------------------------------------------------------
Step(t) ==
  \/ TakeReclaimed(t) \/ CountTaken(t) \/ GetNextStackCapture(t)
  \/ ReclaimRest(t) \/ CountRest(t) \/ Insert(t) \/ UpdateStatistics(t)
  \/ UpdateStatisticsOnRelease(t) \/ Reclaim(t) \/ CountReclaimed(t)

Init ==
  /\ captures = << >> /\ pages = 1 /\ used = 0
  /\ known = [i \in Ids |-> 0]
  /\ locks = [s \in Shards |-> None]
  /\ reclaimed = [n \in 1..kMaxNumFrames |-> << >>]
  /\ statistics = [cached |-> 0, saturated |-> 0, references |-> 0,
                   frames_stored |-> 0, frames_alive |-> 0, frames_dead |-> 0]
  /\ held = [i \in Ids |-> << >>]
  /\ thread = [t \in Threads |-> NoCall]

(* A reference to i is held, or will be when a call returns.               *)
Saving(i) == {t \in Threads :
  thread[t].id = i /\ thread[t].pc \notin {"released", "reclaim", "count"}}

(* The bounds of an instance on the stack traces that are saved.           *)
WithinBounds(i) ==
  /\ Len(held[i]) + Cardinality(Saving(i)) < MaxHeld[i]
  /\ Frames[i] <= MaxFrames \/ known[i] # 0 \/ pages < MaxPages

Next ==
  \E t \in Threads :
    \/ \E i \in Ids :
         \/ WithinBounds(i) /\ SaveStackTrace(t, i)
         \/ \E k \in DOMAIN held[i] : ReleaseStackTrace(t, i, k)
    \/ Step(t)

Spec == Init /\ [][Next]_vars

-----------------------------------------------------------------------------
(* Properties.                                                             *)

Captures == DOMAIN captures

(* The type of every variable.                                             *)
TypeOK ==
  /\ \A c \in Captures :
       /\ captures[c].max \in 1..kMaxNumFrames
       /\ captures[c].num \in 0..kMaxNumFrames \union {kInvalid}
       /\ captures[c].id \in Ids \union {None}
       /\ captures[c].refs \in 0..MaxRefCount
  /\ pages \in Nat /\ used \in 0..DataSize
  /\ known \in [Ids -> Captures \union {0}]
  /\ locks \in [Shards -> Threads \union {None}]
  /\ \A n \in 1..kMaxNumFrames : Range(reclaimed[n]) \subseteq Captures

(* A stack trace stays what it was as long as a block refers to it: its    *)
(* capture is not reclaimed and reused under another identifier, not even  *)
(* while other threads release the same trace, save it again, or overrun   *)
(* the reference count.                                                    *)
ReferencedStacksAreIntact ==
  \A i \in Ids : \A c \in Range(held[i]) :
    /\ captures[c].id = i /\ captures[c].num = Frames[i]
    /\ known[i] = c

(* The calls that have counted a reference and not returned it yet.        *)
Returning(c) == {t \in Threads : thread[t].capture = c /\ (At(t, "saved") \/ At(t, "inserted"))}

(* The references to a stack trace, those about to be returned included.   *)
References(i) == Len(held[i]) + Cardinality(Returning(known[i]))

(* What a step makes of the counts of the stacks that are known after it.  *)
CountsFollow ==
  \A i \in Ids : known'[i] # 0 =>
    captures'[known'[i]].refs =
      IF known'[i] = known[i] /\ RefCountIsSaturated(known[i])
      THEN MaxRefCount ELSE References(i)'

(* A reference count is the number of references, until it is saturated:   *)
(* that takes MaxRefCount references, and from then on the count stays     *)
(* what it is, so that a capture which has had more references than can be *)
(* counted is never taken for one without any.                             *)
RefCountsMatch == [][CountsFollow]_vars

(* The places a capture can be in.                                         *)
InKnown(c) == {i \in Ids : known[i] = c}
InReclaimed(c) ==
  {p \in (1..kMaxNumFrames) \X Captures :
     p[2] <= Len(reclaimed[p[1]]) /\ reclaimed[p[1]][p[2]] = c}
InLimbo(c) ==
  {t \in Threads :
     \/ thread[t].pc \in {"taken", "count_rest", "insert", "rest"} /\ c = thread[t].capture
     \/ thread[t].pc = "rest" /\ c = thread[t].unused
     \/ thread[t].pc \in {"released", "reclaim"} /\ thread[t].last /\ thread[t].capture = c}

(* Every capture is in exactly one place: it is known under one            *)
(* identifier, or in the list of reclaimed captures of its size, or one    *)
(* thread is working on it, so none is handed out twice.  A capture of     *)
(* more than max_num_frames_ frames is in a list that is never searched    *)
(* once it has been reclaimed, and stays there.                            *)
CapturesAreConserved ==
  /\ TypeOK
  /\ \A c \in Captures :
       /\ Cardinality(InKnown(c)) + Cardinality(InReclaimed(c)) + Cardinality(InLimbo(c)) = 1
       /\ \A p \in InReclaimed(c) : p[1] = captures[c].max /\ captures[c].refs = 0

Quiet == \A t \in Threads : At(t, "idle")
KnownIds == {i \in Ids : known[i] # 0}

(* When no call is in progress, the statistics of what is stored (cached,  *)
(* references, frames_alive and frames_dead) agree with the cache, though  *)
(* each was updated after the step it describes.  The two others need not: *)
(* two threads may count the same capture as saturated, as SaveStackTrace  *)
(* looks at the reference count again after the unlock, and frames_stored  *)
(* is off once a capture was reclaimed before a release read its frames.   *)
StorageStatisticsAreExact ==
  Quiet =>
    /\ statistics.cached = Cardinality(KnownIds)
    /\ statistics.references = SumFunction([i \in Ids |-> Len(held[i])])
    /\ statistics.frames_alive = SumFunction([i \in KnownIds |-> Frames[i]])
    /\ statistics.frames_dead = SumFunction([n \in 1..kMaxNumFrames |-> n * Len(reclaimed[n])])

=============================================================================
