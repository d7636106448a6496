----------------------------- MODULE TryDequeue -----------------------------
(***************************************************************************)
(* try_dequeue without a token: the consumer looks at the sizes of the     *)
(* producers' sub-queues until it has seen three that are not empty, tries *)
(* the biggest, and then all the others.  Producers come, and enqueue,     *)
(* meanwhile.  A sub-queue keeps the promise of Fifo: it may report that   *)
(* it is empty when the overlapping calls of others are enough for all it  *)
(* had.  What the elements are does not matter here: they are counted.     *)
(***************************************************************************)
EXTENDS Integers, Sequences, FiniteSets

CONSTANTS
  Consumers,
  Producers,
  MaxEnqueued      \* bound: elements that a producer enqueues

TryDequeueAssumption ==
  IsFiniteSet(Consumers) /\ IsFiniteSet(Producers) /\ MaxEnqueued \in Nat

VARIABLES
  producers,       \* the list: producerListTail is the last, next the one before
  tailIndex, headIndex,
  pc, loc,         \* per consumer
  calls,           \* per producer: the dequeue calls in progress on it
  spare,           \* per consumer with such a call: as in Fifo
  unaccounted      \* auxiliary, per consumer and producer: the elements there
                   \* when its try_dequeue began, less the calls of others on
                   \* the producer that overlap it

vars == <<producers, tailIndex, headIndex, pc, loc, calls, spare, unaccounted>>

Positions == 0 .. Cardinality(Producers)   \* in the list; 0 is nullptr

NoLocals == [ptr |-> 0, tail |-> 0, nonEmptyCount |-> 0, best |-> 0, bestSize |-> 0]

Idle == [p \in Producers |-> 0]

Init ==
  /\ producers = <<>>
  /\ tailIndex = Idle /\ headIndex = Idle
  /\ pc = [c \in Consumers |-> "idle"]
  /\ loc = [c \in Consumers |-> NoLocals]
  /\ calls = [p \in Producers |-> {}]
  /\ spare = [c \in Consumers |-> 0]
  /\ unaccounted = [c \in Consumers |-> Idle]

----------------------------------------------------------------------------
(* Producers. *)

AddProducer(p) ==
  /\ p \notin {producers[i] : i \in 1 .. Len(producers)}
  /\ producers' = Append(producers, p)
  /\ UNCHANGED <<tailIndex, headIndex, pc, loc, calls, spare, unaccounted>>

Enqueue(p) ==
  /\ p \in {producers[i] : i \in 1 .. Len(producers)} /\ tailIndex[p] < MaxEnqueued
  /\ tailIndex' = [tailIndex EXCEPT ![p] = @ + 1]
  /\ UNCHANGED <<producers, headIndex, pc, loc, calls, spare, unaccounted>>

----------------------------------------------------------------------------
(* try_dequeue, by consumer c. *)

Less(n, k) == IF n > k THEN n - k ELSE 0

Size(p) == Less(tailIndex[p], headIndex[p])

Go(c, where) == pc' = [pc EXCEPT ![c] = where]

Return(c) == Go(c, "idle") /\ loc' = [loc EXCEPT ![c] = NoLocals]

Forget(c) == unaccounted' = [unaccounted EXCEPT ![c] = Idle]

Call(c) ==
  /\ pc[c] = "idle" /\ producers # <<>>
  /\ loc' = [loc EXCEPT ![c].ptr = Len(producers)]
  /\ Go(c, "load_tail")
  /\ unaccounted' = [unaccounted EXCEPT ![c] = [p \in Producers |-> Less(Size(p), Cardinality(calls[p]))]]
  /\ UNCHANGED <<producers, tailIndex, headIndex, calls, spare>>

\* size_approx of the producer at ptr loads its tail, then its head.
LoadTail(c) ==
  /\ pc[c] = "load_tail"
  /\ loc' = [loc EXCEPT ![c].tail = tailIndex[producers[loc[c].ptr]]]
  /\ Go(c, "load_head")
  /\ UNCHANGED <<producers, tailIndex, headIndex, calls, spare, unaccounted>>

\* Faulty variant: a sub-queue with one element counts as empty.
ScoreTwo(l, size) ==
  [l EXCEPT !.ptr = @ - 1, !.tail = 0,
            !.nonEmptyCount = IF size > 1 THEN @ + 1 ELSE @,
            !.best = IF size > l.bestSize THEN l.ptr ELSE @,
            !.bestSize = IF size > @ THEN size ELSE @]

\* One more is not empty, and perhaps it is the best.
Score(l, size) ==
  [l EXCEPT !.ptr = @ - 1, !.tail = 0,
            !.nonEmptyCount = IF size > 0 THEN @ + 1 ELSE @,
            !.best = IF size > l.bestSize THEN l.ptr ELSE @,
            !.bestSize = IF size > @ THEN size ELSE @]

LoadHead(c) ==
  LET scored == Score(loc[c], Less(loc[c].tail, headIndex[producers[loc[c].ptr]])) IN
  /\ pc[c] = "load_head"
  /\ \/ /\ scored.nonEmptyCount < 3 /\ scored.ptr # 0
        /\ Go(c, "load_tail") /\ loc' = [loc EXCEPT ![c] = scored] /\ UNCHANGED unaccounted
     \/ /\ scored.nonEmptyCount > 0 /\ (scored.nonEmptyCount = 3 \/ scored.ptr = 0)
        /\ Go(c, "try_best") /\ UNCHANGED unaccounted
        /\ loc' = [loc EXCEPT ![c] = [NoLocals EXCEPT !.best = scored.best]]
     \/ scored.ptr = 0 /\ scored.nonEmptyCount = 0 /\ Return(c) /\ Forget(c)
  /\ UNCHANGED <<producers, tailIndex, headIndex, calls, spare>>

\* The sub-queue that c tries.
Tried(c) == producers[IF pc[c] \in {"try_best", "in_best"} THEN loc[c].best ELSE loc[c].ptr]

\* ptr->dequeue is called.
Try(c) ==
  LET p == Tried(c) IN
  /\ pc[c] \in {"try_best", "try_next"}
  /\ calls' = [calls EXCEPT ![p] = @ \cup {c}]
  /\ spare' = [d \in Consumers |->
                 IF d = c THEN Less(Size(p), Cardinality(calls[p]))
                 ELSE IF d \in calls[p] THEN Less(spare[d], 1) ELSE spare[d]]
  /\ unaccounted' = [d \in Consumers |-> IF d = c THEN unaccounted[d]
                                          ELSE [unaccounted[d] EXCEPT ![p] = Less(@, 1)]]
  /\ Go(c, IF pc[c] = "try_best" THEN "in_best" ELSE "in_next")
  /\ UNCHANGED <<producers, tailIndex, headIndex, loc>>

\* It takes an element, and try_dequeue returns true.
Take(c) ==
  LET p == Tried(c) IN
  /\ pc[c] \in {"in_best", "in_next"} /\ Size(p) > 0
  /\ headIndex' = [headIndex EXCEPT ![p] = @ + 1]
  /\ calls' = [calls EXCEPT ![p] = @ \ {c}] /\ spare' = [spare EXCEPT ![c] = 0]
  /\ Return(c) /\ Forget(c)
  /\ UNCHANGED <<producers, tailIndex>>

\* The position after i of a producer other than the best.
Next_prod(c, i) == IF i = loc[c].best THEN i - 1 ELSE i

\* Faulty variant: the others are not tried.
MissAll(c) ==
  /\ pc[c] \in {"in_best", "in_next"} /\ spare[c] = 0
  /\ calls' = [calls EXCEPT ![Tried(c)] = @ \ {c}]
  /\ Return(c) /\ Forget(c)
  /\ UNCHANGED <<producers, tailIndex, headIndex, spare>>

\* It finds nothing: c goes on, from the tail of the list after the best.
Miss(c) ==
  LET i == Next_prod(c, IF pc[c] = "in_best" THEN Len(producers) ELSE loc[c].ptr - 1) IN
  /\ pc[c] \in {"in_best", "in_next"} /\ spare[c] = 0
  /\ calls' = [calls EXCEPT ![Tried(c)] = @ \ {c}]
  /\ IF i = 0 THEN Return(c) /\ Forget(c)
     ELSE /\ Go(c, "try_next") /\ loc' = [loc EXCEPT ![c].ptr = i]
          /\ UNCHANGED unaccounted
  /\ UNCHANGED <<producers, tailIndex, headIndex, spare>>

Consume(c) == Call(c) \/ LoadTail(c) \/ LoadHead(c) \/ Try(c) \/ Take(c) \/ Miss(c)

Next ==
  \/ \E p \in Producers : AddProducer(p) \/ Enqueue(p)
  \/ \E c \in Consumers : Consume(c)

Spec == Init /\ [][Next]_vars

\* The consumers poll for ever, as the worker and the handlers do.
FairSpec == Spec /\ \A c \in Consumers : WF_vars(Consume(c))

----------------------------------------------------------------------------
(* Properties. *)

(* Type correctness.                                                       *)
TypeOK ==
  /\ producers \in Seq(Producers)
  /\ tailIndex \in [Producers -> 0 .. MaxEnqueued] /\ headIndex \in [Producers -> 0 .. MaxEnqueued]
  /\ pc \in [Consumers -> {"idle", "load_tail", "load_head", "try_best", "in_best", "try_next", "in_next"}]
  /\ loc \in [Consumers -> [ptr : Positions, tail : 0 .. MaxEnqueued, nonEmptyCount : 0 .. 2,
                            best : Positions, bestSize : 0 .. MaxEnqueued]]
  /\ calls \in [Producers -> SUBSET Consumers]
  /\ spare \in [Consumers -> Nat] /\ unaccounted \in [Consumers -> [Producers -> Nat]]

\* A step in which a call of c returns and takes nothing.
ReturnsFalse(c) == pc[c] # "idle" /\ pc'[c] = "idle" /\ headIndex' = headIndex

(* "Returns false if all producer streams appeared empty at the time they  *)
(* were checked": no producer is overlooked, whatever comes meanwhile.  If *)
(* a producer had more elements when try_dequeue began than others made    *)
(* calls on it meanwhile, try_dequeue does not return false.               *)
NothingOverlooked ==
  [][\A c \in Consumers : ReturnsFalse(c) => \A p \in Producers : unaccounted[c][p] = 0]_vars

(* What is enqueued is taken in the end by a consumer that polls.  (The    *)
(* producers stop at MaxEnqueued: one that never stops may keep those      *)
(* behind it in the list waiting for ever.)                                *)
EverythingTaken == \A p \in Producers : (Size(p) > 0) ~> (Size(p) = 0)
=============================================================================
