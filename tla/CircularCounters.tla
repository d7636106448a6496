-------------------------- MODULE CircularCounters --------------------------
(***************************************************************************)
(* The four counters of a sub-queue with the width they have in the code:  *)
(* unsigned words that wrap around, compared by circular_less_than.  What  *)
(* ImplicitProducer does with blocks and entries is left out here, and so  *)
(* is its bound on the elements enqueued: the queue runs for ever.         *)
(***************************************************************************)
EXTENDS Integers, FiniteSets

CONSTANTS
  Consumers,
  IndexRange,    \* how many values an index_t holds: 2^64 in the build
  BLOCK_SIZE,
  MaxLag         \* bound: how far a counter runs ahead of a value of it that
                 \* a consumer has loaded; at 2^63 no thread sleeps so long

ASSUME CircularCountersAssumption ==
  /\ IsFiniteSet(Consumers)
  /\ BLOCK_SIZE \in Nat \ {0} /\ MaxLag \in Nat
  /\ IndexRange \in Nat \ {0} /\ IndexRange % (2 * BLOCK_SIZE) = 0
  /\ Cardinality(Consumers) + MaxLag <= IndexRange \div 2

VARIABLES tailIndex, headIndex, dequeueOptimisticCount, dequeueOvercommit, pc, loc

counters == <<tailIndex, headIndex, dequeueOptimisticCount, dequeueOvercommit>>
vars == <<counters, pc, loc>>

index_t == 0 .. IndexRange - 1

Plus(a, b) == (a + b) % IndexRange

Minus(a, b) == (a - b) % IndexRange

circular_less_than(a, b) == Minus(a, b) > IndexRange \div 2

NoLocals == [tail |-> 0, overcommit |-> 0, myDequeueCount |-> 0]

Init ==
  /\ tailIndex = 0 /\ headIndex = 0
  /\ dequeueOptimisticCount = 0 /\ dequeueOvercommit = 0
  /\ pc = [c \in Consumers |-> "idle"]
  /\ loc = [c \in Consumers |-> NoLocals]

----------------------------------------------------------------------------
(* The producer. *)

\* The consumers that hold a value of the tail, or of the overcommit.
HaveTail == {c \in Consumers : pc[c] \in {"load_overcommit", "load_count"}}

HaveOvercommit == {c \in Consumers : pc[c] \in {"load_count", "count", "reload_tail"}}

\* Faulty variant: a new block is begun however full the queue is.
EnqueueAlways ==
  /\ \A c \in HaveTail : Minus(tailIndex, loc[c].tail) < MaxLag
  /\ tailIndex' = Plus(tailIndex, 1)
  /\ UNCHANGED <<headIndex, dequeueOptimisticCount, dequeueOvercommit, pc, loc>>

\* A new block is begun unless the queue holds half of all indices.
Enqueue ==
  /\ \A c \in HaveTail : Minus(tailIndex, loc[c].tail) < MaxLag
  /\ tailIndex % BLOCK_SIZE = 0 => circular_less_than(headIndex, Plus(tailIndex, BLOCK_SIZE))
  /\ tailIndex' = Plus(tailIndex, 1)
  /\ UNCHANGED <<headIndex, dequeueOptimisticCount, dequeueOvercommit, pc, loc>>

----------------------------------------------------------------------------
(* Consumer c. *)

Go(c, where) == pc' = [pc EXCEPT ![c] = where]

Return(c) == Go(c, "idle") /\ loc' = [loc EXCEPT ![c] = NoLocals]

LoadTail(c) ==
  /\ pc[c] = "idle"
  /\ loc' = [loc EXCEPT ![c].tail = tailIndex]
  /\ Go(c, "load_overcommit")
  /\ UNCHANGED counters

LoadOvercommit(c) ==
  /\ pc[c] = "load_overcommit"
  /\ loc' = [loc EXCEPT ![c].overcommit = dequeueOvercommit]
  /\ Go(c, "load_count")
  /\ UNCHANGED counters

\* Faulty variant: the values are compared as they are.
LoadCountPlain(c) ==
  /\ pc[c] = "load_count"
  /\ IF Minus(dequeueOptimisticCount, loc[c].overcommit) < loc[c].tail
     THEN Go(c, "count") /\ loc' = [loc EXCEPT ![c].tail = 0]
     ELSE Return(c)
  /\ UNCHANGED counters

LoadCount(c) ==
  /\ pc[c] = "load_count"
  /\ IF circular_less_than(Minus(dequeueOptimisticCount, loc[c].overcommit), loc[c].tail)
     THEN Go(c, "count") /\ loc' = [loc EXCEPT ![c].tail = 0]
     ELSE Return(c)
  /\ UNCHANGED counters

Count(c) ==
  /\ pc[c] = "count"
  /\ \A d \in Consumers :
       pc[d] = "reload_tail" => Minus(dequeueOptimisticCount, loc[d].myDequeueCount) < MaxLag
  /\ dequeueOptimisticCount' = Plus(dequeueOptimisticCount, 1)
  /\ loc' = [loc EXCEPT ![c].myDequeueCount = dequeueOptimisticCount]
  /\ Go(c, "reload_tail")
  /\ UNCHANGED <<tailIndex, headIndex, dequeueOvercommit>>

ReloadTail(c) ==
  /\ pc[c] = "reload_tail"
  /\ IF circular_less_than(Minus(loc[c].myDequeueCount, loc[c].overcommit), tailIndex)
     THEN Go(c, "claim") ELSE Go(c, "overcommit")
  /\ loc' = [loc EXCEPT ![c] = NoLocals]
  /\ UNCHANGED counters

\* Faulty variant: the count is not taken back.
OvercommitForgotten(c) ==
  /\ pc[c] = "overcommit"
  /\ Return(c)
  /\ UNCHANGED counters

Overcommit(c) ==
  /\ pc[c] = "overcommit"
  /\ \A d \in HaveOvercommit : Minus(dequeueOvercommit, loc[d].overcommit) < MaxLag
  /\ dequeueOvercommit' = Plus(dequeueOvercommit, 1)
  /\ Return(c)
  /\ UNCHANGED <<tailIndex, headIndex, dequeueOptimisticCount>>

\* What follows a claim does not touch the counters.
Claim(c) ==
  /\ pc[c] = "claim"
  /\ headIndex' = Plus(headIndex, 1)
  /\ Return(c)
  /\ UNCHANGED <<tailIndex, dequeueOptimisticCount, dequeueOvercommit>>

Dequeue(c) ==
  \/ LoadTail(c) \/ LoadOvercommit(c) \/ LoadCount(c) \/ Count(c)
  \/ ReloadTail(c) \/ Overcommit(c) \/ Claim(c)

Next == Enqueue \/ \E c \in Consumers : Dequeue(c)

Spec == Init /\ [][Next]_vars

\* The consumers poll for ever.
FairSpec == Spec /\ \A c \in Consumers : WF_vars(Dequeue(c))

----------------------------------------------------------------------------
(* Properties. *)

Claimers == {c \in Consumers : pc[c] = "claim"}

Overcommitters == {c \in Consumers : pc[c] = "overcommit"}

Undecided == {c \in Consumers : pc[c] = "reload_tail"}

(* However often the counters have wrapped, there is an element for every  *)
(* consumer that is about to claim one, and the queue never holds more     *)
(* than the half of all indices that a comparison can tell from less.      *)
ElementsForClaims ==
  LET size == Minus(tailIndex, headIndex) IN
  Cardinality(Claimers) <= size /\ size <= IndexRange \div 2

(* The two counters of the dequeue calls stay in step with headIndex: a    *)
(* count that is neither claimed nor taken back would hide an element for  *)
(* ever, one that is taken back twice would give it to two consumers.      *)
CountsBalance ==
  dequeueOptimisticCount =
    Plus(headIndex, Plus(dequeueOvercommit, Cardinality(Claimers \cup Overcommitters \cup Undecided)))

(* The only consumer of a ring is never told that there is nothing when    *)
(* there was something as it began to look.                                *)
FalseMeansEmpty ==
  [][\A c \in Consumers :
       (pc[c] # "idle" /\ pc'[c] = "idle" /\ headIndex' = headIndex) =>
         (pc[c] = "load_count" /\ loc[c].tail = headIndex)]_vars

(* The only consumer of a ring takes what is in it, for ever: again and    *)
(* again it claims an element, or there is none.                           *)
ElementsTaken ==
  []<><<headIndex' # headIndex>>_vars \/ []<>(headIndex = tailIndex)
=============================================================================
