------------------------------ MODULE MCQueue ------------------------------
(***************************************************************************)
(* The parts of the queue that share no variable, for TLC: the free list,  *)
(* the hash of producers, the scan of try_dequeue and the counters.  TLC   *)
(* runs one of them, whichever the first state says.                       *)
(***************************************************************************)
EXTENDS CircularCounters, TLC

CONSTANTS
  Users, Nodes, RefsRange,                             \* of FreeList
  Threads, HashSize, invalid_thread_id, t3,            \* of ProducerHash
  Scanners, MaxEnqueued,                               \* of TryDequeue
  OwnProducers, Producers, nullptr

VARIABLES
  part,
  freeListHead, freeListRefs, freeListNext, users, userPc, userLoc,
  hashes, implicitProducerHashCount, implicitProducerHashResizeInProgress,
  producerListTail, next, threadPc, threadLoc, got,
  producers, tails, heads, scanPc, scanLoc, calls, spare, unaccounted

\* Two threads with one hash, and another that is in their way.
HashedId == [t \in Threads |-> IF t = t3 THEN 4 ELSE 3]

FreeList == INSTANCE FreeList WITH
  Threads <- Users, pc <- userPc, loc <- userLoc

ProducerHash == INSTANCE ProducerHash WITH
  Producers <- OwnProducers, INITIAL_IMPLICIT_PRODUCER_HASH_SIZE <- HashSize,
  pc <- threadPc, loc <- threadLoc

TryDequeue == INSTANCE TryDequeue WITH
  Consumers <- Scanners, tailIndex <- tails, headIndex <- heads, pc <- scanPc, loc <- scanLoc

ASSUME PartsAssumption ==
  /\ FreeList!FreeListAssumption
  /\ ProducerHash!ProducerHashAssumption
  /\ TryDequeue!TryDequeueAssumption

freeListVars == <<freeListHead, freeListRefs, freeListNext, users, userPc, userLoc>>
hashVars == <<hashes, implicitProducerHashCount, implicitProducerHashResizeInProgress,
              producerListTail, next, threadPc, threadLoc, got>>
scanVars == <<producers, tails, heads, scanPc, scanLoc, calls, spare, unaccounted>>
allVars == <<part, vars, freeListVars, hashVars, scanVars>>

Parts == {"free_list", "hash", "scan", "counters"}

QueueInit ==
  /\ part \in Parts
  /\ Init /\ FreeList!Init /\ ProducerHash!Init /\ TryDequeue!Init

FreeListRuns ==
  /\ part = "free_list"
  /\ UNCHANGED <<part, vars, hashVars, scanVars>>

HashRuns == part = "hash" /\ UNCHANGED <<part, vars, freeListVars, scanVars>>

ScanRuns == part = "scan" /\ UNCHANGED <<part, vars, freeListVars, hashVars>>

CountersRun ==
  /\ part = "counters"
  /\ UNCHANGED <<part, freeListVars, hashVars, scanVars>>

QueueNext ==
  \/ FreeListRuns /\ FreeList!Next
  \/ HashRuns /\ ProducerHash!Next
  \/ ScanRuns /\ TryDequeue!Next
  \/ CountersRun /\ Next

QueueSpec == QueueInit /\ [][QueueNext]_allVars

\* The fairness of each part.
QueueFairSpec ==
  /\ QueueSpec
  /\ \A t \in Users : WF_allVars(FreeListRuns /\ FreeList!Continue(t))
  /\ \A t \in Threads : WF_allVars(HashRuns /\ ProducerHash!Continue(t))
  /\ \A c \in Scanners : WF_allVars(ScanRuns /\ TryDequeue!Consume(c))
  /\ \A c \in Consumers : WF_allVars(CountersRun /\ Dequeue(c))

\* As only one part runs, different parts may share their model values.
Sym == Permutations(Users) \cup Permutations(Nodes)

----------------------------------------------------------------------------
(* Properties of the parts, which say more about each. *)

(* Type correctness of the parts.                                          *)
TypeOK == FreeList!TypeOK /\ ProducerHash!TypeOK /\ TryDequeue!TypeOK

(* No block is taken from the free list by two threads.                    *)
OneUser == FreeList!OneUser

(* No block is lost to the free list, or on it and in use.                 *)
NothingLost == FreeList!NothingLost

(* No block is added to the free list by two threads at once.              *)
OneAdder == FreeList!OneAdder

(* The loops of the free list end.                                         *)
OperationsEnd == FreeList!OperationsEnd

(* Each thread that enqueues has one producer, of its own.                 *)
OneProducerEach == ProducerHash!OneProducerEach

(* Every hash table has a free slot, at which a search ends.               *)
OneSlotFree == ProducerHash!OneSlotFree

(* The count of the hash is that of the threads that it has a slot for.    *)
CountReserves == ProducerHash!CountReserves

(* A producer that its thread may use is in the consumers' list.           *)
ProducersListed == ProducerHash!ProducersListed

(* A thread gets its producer, though it may have to wait for a table.     *)
CallsReturn == ProducerHash!CallsReturn

(* try_dequeue does not return false while a producer has elements that    *)
(* no other call has taken.                                                *)
NothingOverlooked == TryDequeue!NothingOverlooked

(* A consumer that polls takes everything that is enqueued.                *)
EverythingTaken == TryDequeue!EverythingTaken
=============================================================================
