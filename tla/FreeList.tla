------------------------------ MODULE FreeList ------------------------------
(***************************************************************************)
(* moodycamel::ConcurrentQueue's lock-free free list, from which producers *)
(* take emptied blocks and to which consumers give them back.  A node that *)
(* is looked at is protected by a reference count whose top bit says that  *)
(* the node should be on the list as soon as nobody refers to it.  One     *)
(* step is one access to shared memory; memory is sequentially consistent. *)
(***************************************************************************)
EXTENDS Integers, FiniteSets

CONSTANTS
  Threads,     \* the threads that enqueue and dequeue
  Nodes,       \* the blocks
  RefsRange,   \* REFS_MASK + 1: 2^31 in the build
  nullptr

FreeListAssumption ==
  /\ IsFiniteSet(Threads) /\ RefsRange \in Nat /\ RefsRange > Cardinality(Threads) + 1
  /\ nullptr \notin Nodes

VARIABLES
  freeListHead,
  freeListRefs,   \* per node: references, and SHOULD_BE_ON_FREELIST
  freeListNext,   \* per node
  users,          \* per node: how often it has been taken and not given back
  pc,             \* per thread: the next access to shared memory
  loc             \* per thread: its local variables

vars == <<freeListHead, freeListRefs, freeListNext, users, pc, loc>>

Ref == Nodes \cup {nullptr}

SHOULD_BE_ON_FREELIST == RefsRange

Word == 0 .. 2 * RefsRange - 1

\* A reference for the list and one for each thread, and the bit.
Counts == {bit + n : bit \in {0, SHOULD_BE_ON_FREELIST}, n \in 0 .. Cardinality(Threads) + 1}

\* head, refs and next of try_get, node and expected (its head) of
\* add_knowing_refcount_is_zero, and whether try_get called the latter.
Locals == [head : Ref, refs : Word, next : Ref, node : Ref, expected : Ref, nested : BOOLEAN]

NoLocals == [head |-> nullptr, refs |-> 0, next |-> nullptr, node |-> nullptr,
             expected |-> nullptr, nested |-> FALSE]

GetSteps == {"load_refs", "take_ref", "load_next", "pop", "release", "drop_ref", "reload"}

AddSteps == {"load_head", "store_next", "store_refs", "push", "defer"}

(* Type correctness; the count of references of a node never grows into    *)
(* the bit above it, however often threads come and go.                    *)
TypeOK ==
  /\ freeListHead \in Ref
  /\ freeListRefs \in [Nodes -> Counts]
  /\ freeListNext \in [Nodes -> Ref]
  /\ users \in [Nodes -> Nat]
  /\ pc \in [Threads -> {"idle"} \cup GetSteps \cup AddSteps]
  /\ loc \in [Threads -> Locals]

\* New blocks come from the initial pool or from malloc, not from the list.
Init ==
  /\ freeListHead = nullptr
  /\ freeListRefs = [n \in Nodes |-> 0]
  /\ freeListNext = [n \in Nodes |-> nullptr]
  /\ users = [n \in Nodes |-> 1]
  /\ pc = [t \in Threads |-> "idle"]
  /\ loc = [t \in Threads |-> NoLocals]

----------------------------------------------------------------------------
(* Steps of a thread. *)

At(t, where) == pc[t] = where

Go(t, where) == pc' = [pc EXCEPT ![t] = where]

Return(t) == Go(t, "idle") /\ loc' = [loc EXCEPT ![t] = NoLocals]

\* fetch_add on the reference word of a node.
FetchAdd(n, delta) ==
  freeListRefs' = [freeListRefs EXCEPT ![n] = (@ + delta) % (2 * RefsRange)]

\* The loop of try_get goes on with a head, or ends with nullptr.
TryHead(t, head) ==
  IF head = nullptr
  THEN Return(t)
  ELSE Go(t, "load_refs") /\ loc' = [loc EXCEPT ![t] = [NoLocals EXCEPT !.head = head]]

\* add_knowing_refcount_is_zero begins; afterwards try_get goes on, or not.
Readd(t, n, nested) ==
  /\ Go(t, "load_head")
  /\ loc' = [loc EXCEPT ![t].node = n, ![t].nested = nested]

\* It returns to the caller.
AddDone(t) == IF loc[t].nested THEN TryHead(t, loc[t].head) ELSE Return(t)

----------------------------------------------------------------------------
(* add *)

\* Faulty variant: the node is added although others refer to it.
AddAlways(t, n) ==
  /\ At(t, "idle") /\ users[n] > 0
  /\ users' = [users EXCEPT ![n] = @ - 1]
  /\ FetchAdd(n, SHOULD_BE_ON_FREELIST)
  /\ Readd(t, n, FALSE)
  /\ UNCHANGED <<freeListHead, freeListNext>>

\* The block is given back by the thread that has emptied it.
Add(t, n) ==
  /\ At(t, "idle") /\ users[n] > 0
  /\ users' = [users EXCEPT ![n] = @ - 1]
  /\ FetchAdd(n, SHOULD_BE_ON_FREELIST)
  /\ IF freeListRefs[n] = 0 THEN Readd(t, n, FALSE) ELSE UNCHANGED <<pc, loc>>
  /\ UNCHANGED <<freeListHead, freeListNext>>

LoadHead(t) ==
  /\ At(t, "load_head")
  /\ loc' = [loc EXCEPT ![t].expected = freeListHead]
  /\ Go(t, "store_next")
  /\ UNCHANGED <<freeListHead, freeListRefs, freeListNext, users>>

StoreNext(t) ==
  /\ At(t, "store_next")
  /\ freeListNext' = [freeListNext EXCEPT ![loc[t].node] = loc[t].expected]
  /\ Go(t, "store_refs")
  /\ UNCHANGED <<freeListHead, freeListRefs, users, loc>>

StoreRefs(t) ==
  /\ At(t, "store_refs")
  /\ freeListRefs' = [freeListRefs EXCEPT ![loc[t].node] = 1]
  /\ Go(t, "push")
  /\ UNCHANGED <<freeListHead, freeListNext, users, loc>>

\* Faulty variant: the compare-and-swap is repeated with the old head.
PushStale(t) ==
  /\ At(t, "push")
  /\ \/ /\ freeListHead = loc[t].expected
        /\ freeListHead' = loc[t].node
        /\ AddDone(t)
     \/ /\ freeListHead # loc[t].expected
        /\ UNCHANGED <<freeListHead, pc, loc>>
  /\ UNCHANGED <<freeListRefs, freeListNext, users>>

\* The failed compare_exchange_strong leaves the new head in its argument.
Push(t) ==
  /\ At(t, "push")
  /\ \/ /\ freeListHead = loc[t].expected
        /\ freeListHead' = loc[t].node
        /\ AddDone(t)
     \/ /\ freeListHead # loc[t].expected
        /\ loc' = [loc EXCEPT ![t].expected = freeListHead]
        /\ Go(t, "defer")
        /\ UNCHANGED freeListHead
  /\ UNCHANGED <<freeListRefs, freeListNext, users>>

\* Faulty variant: the list's reference is not taken back.
DeferKeepingRef(t) ==
  /\ At(t, "defer")
  /\ FetchAdd(loc[t].node, SHOULD_BE_ON_FREELIST)
  /\ IF freeListRefs[loc[t].node] = 1 THEN Go(t, "store_next") /\ UNCHANGED loc ELSE AddDone(t)
  /\ UNCHANGED <<freeListHead, freeListNext, users>>

\* The list's reference is taken back and the bit set; whoever brings the
\* count to zero adds the node.
Defer(t) ==
  /\ At(t, "defer")
  /\ FetchAdd(loc[t].node, SHOULD_BE_ON_FREELIST - 1)
  /\ IF freeListRefs[loc[t].node] = 1 THEN Go(t, "store_next") /\ UNCHANGED loc ELSE AddDone(t)
  /\ UNCHANGED <<freeListHead, freeListNext, users>>

----------------------------------------------------------------------------
(* try_get *)

TryGet(t) ==
  /\ At(t, "idle")
  /\ TryHead(t, freeListHead)
  /\ UNCHANGED <<freeListHead, freeListRefs, freeListNext, users>>

Reload(t) ==
  /\ At(t, "reload")
  /\ TryHead(t, freeListHead)
  /\ UNCHANGED <<freeListHead, freeListRefs, freeListNext, users>>

LoadRefs(t) ==
  LET refs == freeListRefs[loc[t].head] IN
  /\ At(t, "load_refs")
  /\ IF refs % RefsRange = 0 THEN Go(t, "reload") ELSE Go(t, "take_ref")
  /\ loc' = [loc EXCEPT ![t].refs = refs]
  /\ UNCHANGED <<freeListHead, freeListRefs, freeListNext, users>>

TakeRef(t) ==
  LET head == loc[t].head IN
  /\ At(t, "take_ref")
  /\ \/ freeListRefs[head] = loc[t].refs /\ FetchAdd(head, 1) /\ Go(t, "load_next")
     \/ freeListRefs[head] # loc[t].refs /\ Go(t, "reload") /\ UNCHANGED freeListRefs
  /\ UNCHANGED <<freeListHead, freeListNext, users, loc>>

LoadNext(t) ==
  /\ At(t, "load_next")
  /\ loc' = [loc EXCEPT ![t].next = freeListNext[loc[t].head]]
  /\ Go(t, "pop")
  /\ UNCHANGED <<freeListHead, freeListRefs, freeListNext, users>>

\* After a failure node keeps prevHead and head is the head found.
Pop(t) ==
  LET head == loc[t].head IN
  /\ At(t, "pop")
  /\ \/ /\ freeListHead = head
        /\ freeListHead' = loc[t].next
        /\ Go(t, "release")
        /\ UNCHANGED loc
     \/ /\ freeListHead # head
        /\ loc' = [loc EXCEPT ![t].node = head, ![t].head = freeListHead]
        /\ Go(t, "drop_ref")
        /\ UNCHANGED freeListHead
  /\ UNCHANGED <<freeListRefs, freeListNext, users>>

\* Our reference and the list's; try_get returns the node.
Release(t) ==
  /\ At(t, "release")
  /\ FetchAdd(loc[t].head, -2)
  /\ users' = [users EXCEPT ![loc[t].head] = @ + 1]
  /\ Return(t)
  /\ UNCHANGED <<freeListHead, freeListNext>>

\* Faulty variant: the reference is kept when the head has changed.
DropNoRef(t) ==
  /\ At(t, "drop_ref")
  /\ TryHead(t, loc[t].head)
  /\ UNCHANGED <<freeListHead, freeListRefs, freeListNext, users>>

\* Faulty variant: the last reference is dropped and the bit not looked at.
DropRefOnly(t) ==
  /\ At(t, "drop_ref")
  /\ FetchAdd(loc[t].node, -1)
  /\ TryHead(t, loc[t].head)
  /\ UNCHANGED <<freeListHead, freeListNext, users>>

DropRef(t) ==
  LET prevHead == loc[t].node IN
  /\ At(t, "drop_ref")
  /\ FetchAdd(prevHead, -1)
  /\ IF freeListRefs[prevHead] = SHOULD_BE_ON_FREELIST + 1
     THEN Readd(t, prevHead, TRUE) ELSE TryHead(t, loc[t].head)
  /\ UNCHANGED <<freeListHead, freeListNext, users>>

----------------------------------------------------------------------------

Start(t) == TryGet(t) \/ \E n \in Nodes : Add(t, n)

Continue(t) ==
  \/ LoadHead(t) \/ StoreNext(t) \/ StoreRefs(t) \/ Push(t) \/ Defer(t)
  \/ Reload(t) \/ LoadRefs(t) \/ TakeRef(t) \/ LoadNext(t) \/ Pop(t) \/ Release(t) \/ DropRef(t)

Next == \E t \in Threads : Start(t) \/ Continue(t)

Spec == Init /\ [][Next]_vars

\* Threads are scheduled; whether they start another operation is up to them.
FairSpec == Spec /\ \A t \in Threads : WF_vars(Continue(t))

----------------------------------------------------------------------------
(* Properties. *)

\* The threads that have popped n and are about to return it.
Takers(n) == {t \in Threads : pc[t] = "release" /\ loc[t].head = n}

(* A block is in use by one enqueuer at most: try_get never returns a node *)
(* to two threads, nor one that is in use.                                 *)
OneUser == \A n \in Nodes : users[n] + Cardinality(Takers(n)) <= 1

\* The nodes a walk from n meets: those that no set that has n and follows
\* the links of its members can leave out.
Reachable(n) ==
  {m \in Nodes : \A S \in SUBSET Nodes :
     /\ n \in S \cup {nullptr}
     /\ \A k \in S : freeListNext[k] \in S \cup {nullptr}
     => m \in S}

\* Threads that are adding n; one that has pushed it has left AddSteps.
Adders(n) == {t \in Threads : pc[t] \in AddSteps /\ loc[t].node = n}

(* A block that is not in use is not lost: it is on the list, a thread is  *)
(* adding it, or its bit is set and a thread still refers to it and will   *)
(* add it.  And no block in use is on the list.                            *)
NothingLost ==
  \A n \in Nodes :
    IF users[n] > 0 \/ Takers(n) # {} THEN n \notin Reachable(freeListHead)
    ELSE \/ n \in Reachable(freeListHead) \/ Adders(n) # {}
         \/ freeListRefs[n] > SHOULD_BE_ON_FREELIST

(* "We run only one copy of this method per node at a time": no two        *)
(* threads add the same node at once.                                      *)
OneAdder == \A n \in Nodes : Cardinality(Adders(n)) <= 1

(* Lock freedom: unless operations are started again and again, all of     *)
(* them end; no compare-and-swap fails for ever by itself.                 *)
OperationsEnd ==
  []<><<\E t \in Threads : Start(t)>>_vars \/ <>[](\A t \in Threads : pc[t] = "idle")
=============================================================================
