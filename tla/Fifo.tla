-------------------------------- MODULE Fifo --------------------------------
(***************************************************************************)
(* What one producer's sub-queue promises to the threads that dequeue from *)
(* it.  Elements leave in the order in which they entered, each once.  A   *)
(* call may find nothing only if the calls of others that overlap it are   *)
(* at least as many as the elements there were when it began: with one     *)
(* consumer, only if the queue was empty.                                  *)
(***************************************************************************)
EXTENDS Integers, Sequences, FiniteSets

CONSTANTS Consumers, Elements, nothing

VARIABLES
  queue,     \* the elements enqueued and not yet taken
  state,     \* per consumer: "idle", "called" or "taken"
  item,      \* per consumer: what the call in progress has taken
  spare      \* per consumer: elements there when its call began, less the
             \* calls of others that overlap it

vars == <<queue, state, item, spare>>

TypeOK ==
  /\ queue \in Seq(Elements)
  /\ state \in [Consumers -> {"idle", "called", "taken"}]
  /\ item \in [Consumers -> Elements \cup {nothing}]
  /\ spare \in [Consumers -> Nat]

Init ==
  /\ queue = <<>>
  /\ state = [c \in Consumers |-> "idle"]
  /\ item = [c \in Consumers |-> nothing]
  /\ spare = [c \in Consumers |-> 0]

\* n less k, or none.
Less(n, k) == IF n > k THEN n - k ELSE 0

\* The calls that have not found an element yet.
Searching == {c \in Consumers : state[c] = "called"}

\* The spare elements after c's call has begun.
SpareAfterCall(c) ==
  [d \in Consumers |->
     IF d = c THEN Less(Len(queue), Cardinality(Searching \ {c}))
     ELSE IF d \in Searching THEN Less(spare[d], 1) ELSE spare[d]]

Enqueue ==
  /\ UNCHANGED <<state, item, spare>>
  /\ Len(queue') > Len(queue)
  /\ \E e \in Elements : queue' = Append(queue, e)

Call(c) ==
  /\ state[c] = "idle"
  /\ state' = [state EXCEPT ![c] = "called"]
  /\ spare' = SpareAfterCall(c)
  /\ UNCHANGED <<queue, item>>

Take(c) ==
  /\ state[c] = "called"
  /\ state' = [state EXCEPT ![c] = "taken"]
  /\ queue # <<>>
  /\ item' = [item EXCEPT ![c] = Head(queue)]
  /\ queue' = Tail(queue)
  /\ spare' = [spare EXCEPT ![c] = 0]

ReturnTrue(c) ==
  /\ state[c] = "taken"
  /\ state' = [state EXCEPT ![c] = "idle"]
  /\ item' = [item EXCEPT ![c] = nothing]
  /\ UNCHANGED <<queue, spare>>

ReturnFalse(c) ==
  /\ state[c] = "called" /\ spare[c] = 0
  /\ state' = [state EXCEPT ![c] = "idle"]
  /\ UNCHANGED <<queue, item, spare>>

Next ==
  \/ Enqueue
  \/ \E c \in Consumers : Call(c) \/ Take(c) \/ ReturnTrue(c) \/ ReturnFalse(c)

Spec == Init /\ [][Next]_vars
=============================================================================
