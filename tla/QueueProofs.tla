---------------------------- MODULE QueueProofs ----------------------------
(***************************************************************************)
(* The parts of the queue as the runs check them.  What the modules of     *)
(* proofs say of the free list and of the hash of producers holds of the   *)
(* parts, whichever of them runs: a step is a step of one part, and the    *)
(* others keep their variables.                                            *)
(***************************************************************************)
EXTENDS MCQueue, FiniteSetTheorems, TLAPS

\* The proofs, about the variables of the parts.
FL == INSTANCE FreeListProofs WITH Threads <- Users, pc <- userPc, loc <- userLoc

PH == INSTANCE ProducerHashProofs WITH
  Producers <- OwnProducers, INITIAL_IMPLICIT_PRODUCER_HASH_SIZE <- HashSize,
  pc <- threadPc, loc <- threadLoc

TD == INSTANCE TryDequeueProofs WITH
  Consumers <- Scanners, tailIndex <- tails, headIndex <- heads, pc <- scanPc, loc <- scanLoc

----------------------------------------------------------------------------
(* The two instances of a module say the same. *)

LEMMA SameListAssumption ==
  FreeList!FreeListAssumption <=> FL!FreeListAssumption
  BY DEF
    FreeList!FreeListAssumption, FL!FreeListAssumption, FreeList!IsFiniteSet,
    FL!IsFiniteSet, FreeList!Cardinality, FL!Cardinality

LEMMA SameListInit ==
  FreeList!Init <=> FL!Init
  BY DEF
    FreeList!Init, FL!Init, FreeList!NoLocals, FL!NoLocals

LEMMA SameListNext ==
  FreeList!Next <=> FL!Next
  BY Zenon DEF
    FreeList!Next, FL!Next, FreeList!Start, FL!Start, FreeList!Continue, FL!Continue,
    FreeList!TryGet, FL!TryGet, FreeList!Add, FL!Add, FreeList!LoadHead, FL!LoadHead,
    FreeList!StoreNext, FL!StoreNext, FreeList!StoreRefs, FL!StoreRefs, FreeList!Push,
    FL!Push, FreeList!Defer, FL!Defer, FreeList!Reload, FL!Reload, FreeList!LoadRefs,
    FL!LoadRefs, FreeList!TakeRef, FL!TakeRef, FreeList!LoadNext, FL!LoadNext,
    FreeList!Pop, FL!Pop, FreeList!Release, FL!Release, FreeList!DropRef, FL!DropRef,
    FreeList!At, FL!At, FreeList!TryHead, FL!TryHead, FreeList!FetchAdd, FL!FetchAdd,
    FreeList!SHOULD_BE_ON_FREELIST, FL!SHOULD_BE_ON_FREELIST, FreeList!Readd, FL!Readd,
    FreeList!Go, FL!Go, FreeList!AddDone, FL!AddDone, FreeList!Return, FL!Return,
    FreeList!NoLocals, FL!NoLocals

LEMMA SameListTypes ==
  FreeList!TypeOK <=> FL!TypeOK
  <1>1. FreeList!SHOULD_BE_ON_FREELIST = FL!SHOULD_BE_ON_FREELIST
    BY DEF FreeList!SHOULD_BE_ON_FREELIST, FL!SHOULD_BE_ON_FREELIST
  <1>2. FreeList!Cardinality(Users) = FL!Cardinality(Users)
    BY DEF FreeList!Cardinality, FL!Cardinality
  <1>3. FreeList!Counts = FL!Counts
    BY <1>1, <1>2 DEF FreeList!Counts, FL!Counts
  <1>4. FreeList!Word = FL!Word
    BY DEF FreeList!Word, FL!Word
  <1>5. FreeList!Ref = FL!Ref
    BY DEF FreeList!Ref, FL!Ref
  <1>6. FreeList!Locals = FL!Locals
    BY <1>4, <1>5 DEF FreeList!Locals, FL!Locals
  <1>7. FreeList!GetSteps = FL!GetSteps /\ FreeList!AddSteps = FL!AddSteps
    BY DEF FreeList!GetSteps, FL!GetSteps, FreeList!AddSteps, FL!AddSteps
  <1> QED BY <1>3, <1>5, <1>6, <1>7, Zenon DEF FreeList!TypeOK, FL!TypeOK

LEMMA SameUser ==
  FreeList!OneUser <=> FL!OneUser
  BY Zenon DEF
    FreeList!OneUser, FL!OneUser, FreeList!Takers, FL!Takers, FreeList!Cardinality,
    FL!Cardinality

LEMMA SameAdder ==
  FreeList!OneAdder <=> FL!OneAdder
  BY Zenon DEF
    FreeList!OneAdder, FL!OneAdder, FreeList!Adders, FL!Adders, FreeList!AddSteps,
    FL!AddSteps, FreeList!Cardinality, FL!Cardinality

LEMMA SameBlocks ==
  FreeList!NothingLost <=> FL!NothingLost
  <1>1. FreeList!SHOULD_BE_ON_FREELIST = FL!SHOULD_BE_ON_FREELIST
    BY DEF FreeList!SHOULD_BE_ON_FREELIST, FL!SHOULD_BE_ON_FREELIST
  <1>2. \A n : FreeList!Adders(n) = FL!Adders(n)
    BY Zenon DEF FreeList!Adders, FL!Adders, FreeList!AddSteps, FL!AddSteps
  <1>3. \A n : FreeList!Takers(n) = FL!Takers(n)
    BY Zenon DEF FreeList!Takers, FL!Takers
  <1>4. \A n : FreeList!Reachable(n) = FL!Reachable(n)
    BY Zenon DEF FreeList!Reachable, FL!Reachable
  <1> QED BY <1>1, <1>2, <1>3, <1>4, Zenon DEF FreeList!NothingLost, FL!NothingLost

LEMMA SameHashAssumption ==
  ProducerHash!ProducerHashAssumption <=> PH!ProducerHashAssumption
  BY Zenon DEF
    ProducerHash!ProducerHashAssumption, PH!ProducerHashAssumption,
    ProducerHash!IsFiniteSet, PH!IsFiniteSet, ProducerHash!Cardinality, PH!Cardinality

LEMMA SameHashInit ==
  ProducerHash!Init <=> PH!Init
  BY Zenon DEF
    ProducerHash!Init, PH!Init, ProducerHash!Table, PH!Table, ProducerHash!NoLocals,
    PH!NoLocals

LEMMA SameHashNext ==
  ProducerHash!Next <=> PH!Next
  BY Zenon DEF
    ProducerHash!Next, PH!Next, ProducerHash!Call, PH!Call, ProducerHash!Continue,
    PH!Continue, ProducerHash!Current, PH!Current, ProducerHash!Go, PH!Go,
    ProducerHash!shared, PH!shared, ProducerHash!Probe, PH!Probe, ProducerHash!Count,
    PH!Count, ProducerHash!Check, PH!Check, ProducerHash!Reload, PH!Reload,
    ProducerHash!Resize, PH!Resize, ProducerHash!ResizeFails, PH!ResizeFails,
    ProducerHash!Clear, PH!Clear, ProducerHash!Room, PH!Room, ProducerHash!Create,
    PH!Create, ProducerHash!Link, PH!Link, ProducerHash!Insert, PH!Insert,
    ProducerHash!At, PH!At, ProducerHash!Return, PH!Return, ProducerHash!HalfFull,
    PH!HalfFull, ProducerHash!BigEnough, PH!BigEnough, ProducerHash!Table, PH!Table,
    ProducerHash!Capacity, PH!Capacity, ProducerHash!Created, PH!Created,
    ProducerHash!NoLocals, PH!NoLocals, ProducerHash!Cardinality, PH!Cardinality

LEMMA SameHashTypes ==
  ProducerHash!TypeOK <=> PH!TypeOK
  <1>1. ProducerHash!Cardinality(Threads) = PH!Cardinality(Threads)
    BY DEF ProducerHash!Cardinality, PH!Cardinality
  <1> QED BY <1>1, Zenon DEF ProducerHash!TypeOK, PH!TypeOK

LEMMA SameProducers ==
  ProducerHash!OneProducerEach <=> PH!OneProducerEach
  BY Zenon DEF
    ProducerHash!OneProducerEach, PH!OneProducerEach, ProducerHash!Cardinality,
    PH!Cardinality

LEMMA SameCount ==
  ProducerHash!CountReserves <=> PH!CountReserves
  BY Zenon DEF
    ProducerHash!CountReserves, PH!CountReserves, ProducerHash!Registered,
    PH!Registered, ProducerHash!Counted, PH!Counted, ProducerHash!Cardinality,
    PH!Cardinality

LEMMA SameSlots ==
  ProducerHash!OneSlotFree <=> PH!OneSlotFree
  BY Zenon DEF
    ProducerHash!OneSlotFree, PH!OneSlotFree

LEMMA SameList ==
  ProducerHash!ProducersListed <=> PH!ProducersListed
  <1>1. ProducerHash!Listed = PH!Listed
    BY Zenon DEF ProducerHash!Listed, PH!Listed
  <1> QED BY <1>1, Zenon DEF ProducerHash!ProducersListed, PH!ProducersListed

LEMMA SameScanAssumption ==
  TryDequeue!TryDequeueAssumption <=> TD!TryDequeueAssumption
  BY Zenon DEF
    TryDequeue!TryDequeueAssumption, TD!TryDequeueAssumption, TryDequeue!IsFiniteSet,
    TD!IsFiniteSet

LEMMA SameScanInit ==
  TryDequeue!Init <=> TD!Init
  BY Zenon DEF
    TryDequeue!Init, TD!Init, TryDequeue!Idle, TD!Idle, TryDequeue!NoLocals, TD!NoLocals

LEMMA SameScanTypes ==
  TryDequeue!TypeOK <=> TD!TypeOK
  <1>1. TryDequeue!Positions = TD!Positions
    BY DEF TryDequeue!Positions, TD!Positions, TryDequeue!Cardinality, TD!Cardinality
  <1> QED BY <1>1, Zenon DEF TryDequeue!TypeOK, TD!TypeOK

LEMMA SameScanNext ==
  TryDequeue!Next <=> TD!Next
  BY Zenon DEF
    TryDequeue!Next, TD!Next, TryDequeue!AddProducer, TD!AddProducer,
    TryDequeue!Enqueue, TD!Enqueue, TryDequeue!Consume, TD!Consume, TryDequeue!Call,
    TD!Call, TryDequeue!LoadTail, TD!LoadTail, TryDequeue!LoadHead, TD!LoadHead,
    TryDequeue!Try, TD!Try, TryDequeue!Take, TD!Take, TryDequeue!Miss, TD!Miss,
    TryDequeue!Less, TD!Less, TryDequeue!Size, TD!Size, TryDequeue!Go, TD!Go,
    TryDequeue!Return, TD!Return, TryDequeue!Forget, TD!Forget, TryDequeue!Score,
    TD!Score, TryDequeue!Tried, TD!Tried, TryDequeue!Next_prod, TD!Next_prod,
    TryDequeue!NoLocals, TD!NoLocals, TryDequeue!Idle, TD!Idle, TryDequeue!Cardinality,
    TD!Cardinality

----------------------------------------------------------------------------
(* The parts run as they do alone. *)

LEMMA ListRuns ==
  QueueSpec => FL!Spec
  <1>1. QueueInit => FL!Init
    BY SameListInit DEF QueueInit
  <1>2. [QueueNext]_allVars => [FL!Next]_(FL!vars)
    <2>1. UNCHANGED freeListVars => UNCHANGED FL!vars
      BY DEF FL!vars, freeListVars
    <2> QED BY <2>1, SameListNext DEF QueueNext, FreeListRuns, HashRuns, ScanRuns, CountersRun, allVars
  <1> QED BY <1>1, <1>2, PTL DEF QueueSpec, FL!Spec

LEMMA HashRunsAlone ==
  QueueSpec => PH!Spec
  <1>1. QueueInit => PH!Init
    BY SameHashInit DEF QueueInit
  <1>2. [QueueNext]_allVars => [PH!Next]_(PH!vars)
    <2>1. UNCHANGED hashVars => UNCHANGED PH!vars
      BY DEF PH!vars, PH!shared, hashVars
    <2> QED BY <2>1, SameHashNext DEF QueueNext, FreeListRuns, HashRuns, ScanRuns, CountersRun, allVars
  <1> QED BY <1>1, <1>2, PTL DEF QueueSpec, PH!Spec

LEMMA ScanRunsAlone ==
  QueueSpec => TD!Spec
  <1>1. QueueInit => TD!Init
    BY SameScanInit DEF QueueInit
  <1>2. [QueueNext]_allVars => [TD!Next]_(TD!vars)
    <2>1. UNCHANGED scanVars => UNCHANGED TD!vars
      BY DEF TD!vars, scanVars
    <2> QED BY <2>1, SameScanNext DEF QueueNext, FreeListRuns, HashRuns, ScanRuns, CountersRun, allVars
  <1> QED BY <1>1, <1>2, PTL DEF QueueSpec, TD!Spec

(* A block is in use by one enqueuer at most, for any number of threads    *)
(* and blocks: FreeList::try_get hands none out twice.                     *)
THEOREM BlocksHaveOneUser ==
  QueueSpec => []OneUser
  <1>1. FL!FreeListAssumption
    BY PartsAssumption, SameListAssumption DEF PartsAssumption
  <1>2. FL!Spec => []FL!OneUser
    BY <1>1, FL!BlocksHaveOneUser
  <1>3. FL!OneUser => OneUser
    BY SameUser DEF OneUser
  <1> QED BY <1>2, <1>3, ListRuns, PTL

(* "We run only one copy of this method per node at a time", as the        *)
(* comment in add_knowing_refcount_is_zero says.                           *)
THEOREM AddersAreAlone ==
  QueueSpec => []OneAdder
  <1>1. FL!FreeListAssumption
    BY PartsAssumption, SameListAssumption DEF PartsAssumption
  <1>2. FL!Spec => []FL!OneAdder
    BY <1>1, FL!AddersAreAlone
  <1>3. FL!OneAdder => OneAdder
    BY SameAdder DEF OneAdder
  <1> QED BY <1>2, <1>3, ListRuns, PTL

(* No block is lost to the free list, or on it and in use, for any number *)
(* of threads and blocks: what a thread gives back is on the list, or some *)
(* thread is about to put it there.                                        *)
THEOREM NoBlockIsLost ==
  QueueSpec => []NothingLost
  <1>1. FL!FreeListAssumption
    BY PartsAssumption, SameListAssumption DEF PartsAssumption
  <1>2. FL!Spec => []FL!NothingLost
    BY <1>1, FL!NoBlockIsLost
  <1>3. FL!NothingLost => NothingLost
    BY SameBlocks DEF NothingLost
  <1> QED BY <1>2, <1>3, ListRuns, PTL

(* A thread that enqueues without a token has one producer for ever, and   *)
(* shares it with no other (get_or_add_implicit_producer).                 *)
THEOREM ThreadsHaveOneProducer ==
  QueueSpec => []OneProducerEach
  <1>1. PH!ProducerHashAssumption
    BY PartsAssumption, SameHashAssumption DEF PartsAssumption
  <1>2. PH!Spec => []PH!OneProducerEach
    BY <1>1, PH!OneSubQueueEach
  <1>3. PH!OneProducerEach => OneProducerEach
    BY SameProducers DEF OneProducerEach
  <1> QED BY <1>2, <1>3, HashRunsAlone, PTL

(* What a thread enqueues can be found: a producer that its thread may use *)
(* is in the list the consumers walk, however threads race to add theirs   *)
(* (add_producer).                                                         *)
THEOREM ProducersAreListed ==
  QueueSpec => []ProducersListed
  <1>1. PH!ProducerHashAssumption
    BY PartsAssumption, SameHashAssumption DEF PartsAssumption
  <1>2. PH!Spec => []PH!ProducersListed
    BY <1>1, PH!ProducersAreListed
  <1>3. PH!ProducersListed => ProducersListed
    BY SameList DEF ProducersListed
  <1> QED BY <1>2, <1>3, HashRunsAlone, PTL

(* implicitProducerHashCount is the number of threads that are in a table  *)
(* or have a slot reserved, whatever allocations fail.                     *)
THEOREM CountIsOfReservations ==
  QueueSpec => []CountReserves
  <1>1. PH!ProducerHashAssumption
    BY PartsAssumption, SameHashAssumption DEF PartsAssumption
  <1>2. PH!Spec => []PH!CountReserves
    BY <1>1, PH!TheCountReserves
  <1>3. PH!CountReserves => CountReserves
    BY SameCount DEF CountReserves
  <1> QED BY <1>2, <1>3, HashRunsAlone, PTL

(* "Not an infinite loop because at least one slot is free in the hash     *)
(* table": in every table, old or new.                                     *)
THEOREM SearchesEnd ==
  QueueSpec => []OneSlotFree
  <1>1. PH!ProducerHashAssumption
    BY PartsAssumption, SameHashAssumption DEF PartsAssumption
  <1>2. PH!Spec => []PH!OneSlotFree
    BY <1>1, PH!OneSlotStaysFree
  <1>3. PH!OneSlotFree => OneSlotFree
    BY SameSlots DEF OneSlotFree
  <1> QED BY <1>2, <1>3, HashRunsAlone, PTL

(* The parts keep to their types: the count of references of a block never *)
(* reaches the bit above it, the count of threads is that of threads, and  *)
(* no position is used that is not in the list.                            *)
THEOREM PartsKeepTheirTypes ==
  QueueSpec => []TypeOK
  <1>1. FL!FreeListAssumption /\ PH!ProducerHashAssumption /\ TD!TryDequeueAssumption
    BY PartsAssumption, SameListAssumption, SameHashAssumption, SameScanAssumption DEF PartsAssumption
  <1>2. FL!Spec => []FL!TypeOK
    BY <1>1, FL!CountsStayInTheirBits
  <1>3. PH!Spec => []PH!TypeOK
    BY <1>1, PH!CountStaysInBounds
  <1>4. TD!Spec => []TD!TypeOK
    BY <1>1, TD!PositionsStayInList
  <1>5. FL!TypeOK /\ PH!TypeOK /\ TD!TypeOK => TypeOK
    BY SameListTypes, SameHashTypes, SameScanTypes DEF TypeOK
  <1> QED BY <1>2, <1>3, <1>4, <1>5, ListRuns, HashRunsAlone, ScanRunsAlone, PTL

(* "Returns false if all producer streams appeared empty at the time they  *)
(* were checked" (try_dequeue): for any number of consumers and producers  *)
(* none is overlooked that had an element for this call.                   *)
THEOREM NoneIsOverlooked ==
  QueueSpec => NothingOverlooked
  <1>1. TD!TryDequeueAssumption
    BY PartsAssumption, SameScanAssumption DEF PartsAssumption
  <1>2. TD!Spec => TD!NothingOverlooked
    BY <1>1, TD!NoneIsOverlooked
  <1>3. [\A c \in Scanners : TD!ReturnsFalse(c) => \A p \in Producers : unaccounted[c][p] = 0]_(TD!vars)
        => [\A c \in Scanners : TryDequeue!ReturnsFalse(c) =>
              \A p \in Producers : unaccounted[c][p] = 0]_(TryDequeue!vars)
    BY DEF TD!vars, TryDequeue!vars, TD!ReturnsFalse, TryDequeue!ReturnsFalse
  <1> QED BY <1>2, <1>3, ScanRunsAlone, PTL
          DEF NothingOverlooked, TD!NothingOverlooked, TryDequeue!NothingOverlooked

----------------------------------------------------------------------------
(* The counters of a sub-queue, which wrap around.  A consumer compares     *)
(* words that it loaded earlier: how old they are is bounded by MaxLag, and *)
(* with that bound a comparison of words is one of the counts they stand    *)
(* for.  The rest is as in ImplicitProducerProofs: who may still claim is   *)
(* counted, and there is an element for each who will.                     *)

(* Quotients and remainders. *)

LEMMA DivMod ==
  ASSUME NEW n \in Int, NEW d \in Nat \ {0}
  PROVE  /\ n = d * (n \div d) + (n % d)
         /\ n % d \in 0 .. d - 1 /\ n \div d \in Int
  OBVIOUS

LEMMA Unique ==
  ASSUME NEW n \in Int, NEW d \in Nat \ {0}, NEW q \in Int, NEW r \in 0 .. d - 1, n = d * q + r
  PROVE  n % d = r /\ n \div d = q
  OBVIOUS

LEMMA Words ==
  ASSUME NEW a \in index_t, NEW b \in index_t
  PROVE  /\ Plus(a, b) = IF a + b < IndexRange THEN a + b ELSE a + b - IndexRange
         /\ Minus(a, b) = IF a < b THEN a - b + IndexRange ELSE a - b
  BY CircularCountersAssumption DEF index_t, Plus, Minus

LEMMA Halves ==
  /\ \E k \in Nat : IndexRange = k * BLOCK_SIZE
         /\ BLOCK_SIZE \in 1 .. IndexRange \div 2
         /\ IndexRange \div 2 \in Nat /\ IndexRange = 2 * (IndexRange \div 2)
  <1> DEFINE d == 2 * BLOCK_SIZE  k == IndexRange \div d
  <1>1. d \in Nat \ {0} /\ IndexRange \in Nat \ {0} /\ IndexRange % d = 0 /\ BLOCK_SIZE \in Nat \ {0}
    BY CircularCountersAssumption
  <1>2. IndexRange = d * k + (IndexRange % d) /\ k \in Int
    <2> HIDE DEF d
    <2> QED BY <1>1, DivMod
  <1>3. IndexRange = d * k
    <2> HIDE DEF d, k
    <2> QED BY <1>1, <1>2
  <1> HIDE DEF k
  <1>4. k > 0 /\ k \in Nat
    <2>1. k <= 0 => d * k <= 0
      BY <1>1, <1>2
    <2> QED BY <1>1, <1>2, <1>3, <2>1
  <1>5. IndexRange = (2 * k) * BLOCK_SIZE /\ IndexRange = 2 * (k * BLOCK_SIZE) /\ k * BLOCK_SIZE \in Int
    BY <1>1, <1>3, <1>4
  <1>6. IndexRange \div 2 = k * BLOCK_SIZE
    BY <1>1, <1>5
  <1>7. k * BLOCK_SIZE >= BLOCK_SIZE
    <2>1. (k - 1) * BLOCK_SIZE >= 0 /\ k * BLOCK_SIZE = (k - 1) * BLOCK_SIZE + BLOCK_SIZE
      BY <1>1, <1>4
    <2> QED BY <1>1, <1>4, <2>1
  <1>8. 2 * k \in Nat
    BY <1>4
  <1>9. \E n \in Nat : IndexRange = n * BLOCK_SIZE
    BY <1>5, <1>8
  <1>10. IndexRange = 2 * (IndexRange \div 2) /\ IndexRange \div 2 \in Int
    BY <1>5, <1>6
  <1>11. BLOCK_SIZE \in 1 .. IndexRange \div 2 /\ IndexRange \div 2 \in Nat
    BY <1>1, <1>6, <1>7, <1>10
  <1> QED BY <1>9, <1>10, <1>11

\* One more, in a block and around the end of all indices.
LEMMA InBlock ==
  ASSUME NEW t \in index_t
  PROVE  /\ t % BLOCK_SIZE \in 0 .. BLOCK_SIZE - 1
         /\ Plus(t, 1) % BLOCK_SIZE =
              IF t % BLOCK_SIZE = BLOCK_SIZE - 1 THEN 0 ELSE (t % BLOCK_SIZE) + 1
  <1> DEFINE q == t \div BLOCK_SIZE  r == t % BLOCK_SIZE
  <1>1. IndexRange \in Nat \ {0} /\ BLOCK_SIZE \in Nat \ {0} /\ t \in 0 .. IndexRange - 1
    BY CircularCountersAssumption DEF index_t
  <1>2. t = BLOCK_SIZE * q + r /\ r \in 0 .. BLOCK_SIZE - 1 /\ q \in Int
    BY <1>1, DivMod
  <1>3. PICK k \in Nat : IndexRange = k * BLOCK_SIZE
    BY Halves
  <1>4. Plus(t, 1) = IF t + 1 = IndexRange THEN 0 ELSE t + 1
    BY <1>1 DEF Plus
  <1> HIDE DEF q, r
  <1>5. ASSUME t + 1 # IndexRange, r # BLOCK_SIZE - 1 PROVE (t + 1) % BLOCK_SIZE = r + 1
    <2>1. t + 1 = BLOCK_SIZE * q + (r + 1) /\ r + 1 \in 0 .. BLOCK_SIZE - 1
      BY <1>1, <1>2, <1>5
    <2>2. t + 1 \in Int
      BY <1>1
    <2> QED BY <1>1, <1>2, <2>1, <2>2, Unique, Zenon
  <1>6. ASSUME r = BLOCK_SIZE - 1 PROVE (t + 1) % BLOCK_SIZE = 0
    <2>1. t + 1 = BLOCK_SIZE * (q + 1) + 0 /\ 0 \in 0 .. BLOCK_SIZE - 1 /\ q + 1 \in Int
      BY <1>1, <1>2, <1>6
    <2> QED BY <1>1, <2>1, Unique
  <1>7. ASSUME t + 1 = IndexRange PROVE r = BLOCK_SIZE - 1
    <2>0. k * BLOCK_SIZE = BLOCK_SIZE * (k - 1) + BLOCK_SIZE /\ k - 1 \in Int
      BY <1>1, <1>3
    <2>1. t = BLOCK_SIZE * (k - 1) + (BLOCK_SIZE - 1) /\ BLOCK_SIZE - 1 \in 0 .. BLOCK_SIZE - 1
      BY <1>1, <1>3, <1>7, <2>0
    <2>2. t \in Int
      BY <1>1
    <2>3. t % BLOCK_SIZE = BLOCK_SIZE - 1
      BY <1>1, <2>0, <2>1, <2>2, Unique, Zenon
    <2> QED BY <2>3 DEF r
  <1>8. 0 % BLOCK_SIZE = 0
    BY <1>1, Unique, 0 = BLOCK_SIZE * 0 + 0
  <1> QED BY <1>1, <1>2, <1>4, <1>5, <1>6, <1>7, <1>8 DEF r

----------------------------------------------------------------------------
(* What is counted. *)

\* The elements in the queue.
InQueue == Minus(tailIndex, headIndex)

\* Those who have counted themselves, and not claimed or taken back since.
Counted == Claimers \cup Overcommitters \cup Undecided

\* How many have counted themselves since c, with c; and how many counts
\* were taken back since c looked.
Age(c) == Minus(dequeueOptimisticCount, loc[c].myDequeueCount)

Missed(c) == Minus(dequeueOvercommit, loc[c].overcommit)

\* The undecided who counted themselves no later than c.
NotAfter(c) == {d \in Undecided : Age(d) >= Age(c)}

Fields == {"tail", "overcommit", "myDequeueCount"}

WordsOK ==
  /\ tailIndex \in index_t /\ headIndex \in index_t
  /\ dequeueOptimisticCount \in index_t /\ dequeueOvercommit \in index_t
  /\ DOMAIN pc = Consumers /\ DOMAIN loc = Consumers
  /\ \A c \in Consumers :
       /\ DOMAIN loc[c] = Fields
       /\ loc[c].overcommit \in index_t /\ loc[c].myDequeueCount \in index_t

\* A block that is begun can be filled.
RoomInBlock ==
  tailIndex % BLOCK_SIZE # 0 => InQueue + (BLOCK_SIZE - (tailIndex % BLOCK_SIZE)) <= IndexRange \div 2

\* What a consumer has loaded is not old.
Fresh ==
  /\ \A c \in Undecided : Age(c) \in 1 .. MaxLag + 1
  /\ \A c \in HaveOvercommit : Missed(c) <= MaxLag

\* If c finds an element, then there is one for c and for everyone who
\* counted itself before c and may still find one.
EnoughFor(c) ==
  \/ Cardinality(Claimers) + Cardinality(NotAfter(c)) <= InQueue
  \/ Cardinality(NotAfter(c)) + Age(c)
       <= Cardinality(Overcommitters) + Cardinality(Undecided) + Missed(c) + 1

WrapInv ==
  /\ WordsOK
  /\ CountsBalance
  /\ ElementsForClaims
  /\ RoomInBlock
  /\ Fresh
  /\ \A c \in Undecided : EnoughFor(c)

----------------------------------------------------------------------------
(* Words, and sets of consumers. *)

LEMMA Half ==
  /\ IndexRange \div 2 \in Nat /\ IndexRange = 2 * (IndexRange \div 2)
         /\ IndexRange \div 2 >= 1 /\ index_t = 0 .. IndexRange - 1
         /\ MaxLag \in Nat /\ Cardinality(Consumers) \in Nat
         /\ Cardinality(Consumers) + MaxLag <= IndexRange \div 2
  BY Halves, FS_CardinalityType, CircularCountersAssumption DEF index_t

LEMMA OneMore ==
  ASSUME NEW a \in index_t, NEW b \in index_t
  PROVE  /\ Plus(a, 1) \in index_t /\ Minus(a, b) \in index_t /\ Minus(a, a) = 0
         /\ Minus(Plus(a, 1), a) = 1
         /\ Minus(a, b) < IndexRange - 1 => Minus(Plus(a, 1), b) = Minus(a, b) + 1
         /\ Minus(a, b) > 0 => Minus(a, Plus(b, 1)) = Minus(a, b) - 1
  <1>1. 1 \in index_t /\ index_t = 0 .. IndexRange - 1 /\ IndexRange \in Nat
    BY Half, CircularCountersAssumption
  <1>2. Plus(a, 1) = (IF a + 1 < IndexRange THEN a + 1 ELSE a + 1 - IndexRange) /\ Plus(a, 1) \in index_t
    BY <1>1, Words
  <1>3. Plus(b, 1) = (IF b + 1 < IndexRange THEN b + 1 ELSE b + 1 - IndexRange) /\ Plus(b, 1) \in index_t
    BY <1>1, Words
  <1>4. /\ Minus(a, b) = IF a < b THEN a - b + IndexRange ELSE a - b
        /\ Minus(a, a) = IF a < a THEN a - a + IndexRange ELSE a - a
    BY Words
  <1>5. /\ Minus(Plus(a, 1), a) = IF Plus(a, 1) < a THEN Plus(a, 1) - a + IndexRange ELSE Plus(a, 1) - a
        /\ Minus(Plus(a, 1), b) = IF Plus(a, 1) < b THEN Plus(a, 1) - b + IndexRange ELSE Plus(a, 1) - b
        /\ Minus(a, Plus(b, 1)) = IF a < Plus(b, 1) THEN a - Plus(b, 1) + IndexRange ELSE a - Plus(b, 1)
    BY <1>2, <1>3, Words
  <1>6. Minus(a, b) \in index_t /\ Minus(a, a) = 0
    BY <1>1, <1>4
  <1>7. Minus(Plus(a, 1), a) = 1
    BY <1>1, <1>2, <1>5
  <1>8. Minus(a, b) < IndexRange - 1 => Minus(Plus(a, 1), b) = Minus(a, b) + 1
    BY <1>1, <1>2, <1>4, <1>5
  <1>9. Minus(a, b) > 0 => Minus(a, Plus(b, 1)) = Minus(a, b) - 1
    BY <1>1, <1>3, <1>4, <1>5
  <1> QED BY <1>2, <1>6, <1>7, <1>8, <1>9

LEMMA Sizes ==
  ASSUME NEW S \in SUBSET Consumers
  PROVE  /\ IsFiniteSet(S) /\ Cardinality(S) \in Nat
         /\ Cardinality(S) <= Cardinality(Consumers)
         /\ \A c \in S : Cardinality(S \ {c}) = Cardinality(S) - 1 /\ Cardinality(S) >= 1
         /\ \A c \in Consumers \ S : Cardinality(S \cup {c}) = Cardinality(S) + 1
         /\ \A R \in SUBSET S : Cardinality(R) <= Cardinality(S)
  <1>1. IsFiniteSet(Consumers) /\ IsFiniteSet(S)
    BY FS_Subset, CircularCountersAssumption
  <1>2. \A c \in S : Cardinality(S \ {c}) = Cardinality(S) - 1
    BY <1>1, FS_RemoveElement
  <1>3. \A c \in S : Cardinality(S \ {c}) \in Nat
    BY <1>1, FS_CardinalityType, FS_RemoveElement
  <1> QED BY <1>1, <1>2, <1>3, FS_CardinalityType, FS_AddElement, FS_Subset

LEMMA SetsOfConsumers ==
  ASSUME WordsOK
  PROVE  /\ Claimers \in SUBSET Consumers /\ Overcommitters \in SUBSET Consumers
         /\ Undecided \in SUBSET Consumers /\ HaveOvercommit \in SUBSET Consumers
         /\ \A c \in Consumers : NotAfter(c) \in SUBSET Undecided
  BY DEF Claimers, Overcommitters, Undecided, HaveOvercommit, NotAfter

LEMMA CountedSize ==
  ASSUME WordsOK
  PROVE  /\ Cardinality(Counted) =
              Cardinality(Claimers) + Cardinality(Overcommitters) + Cardinality(Undecided)
         /\ Cardinality(Counted) <= Cardinality(Consumers)
         /\ Cardinality(Claimers) \in Nat /\ Cardinality(Overcommitters) \in Nat
         /\ Cardinality(Undecided) \in Nat
  <1>1. /\ Claimers \in SUBSET Consumers /\ Overcommitters \in SUBSET Consumers
        /\ Undecided \in SUBSET Consumers /\ Counted \in SUBSET Consumers
    BY SetsOfConsumers DEF Counted
  <1>2. /\ Claimers \cap Overcommitters = {}
        /\ (Claimers \cup Overcommitters) \cap Undecided = {}
    BY DEF Claimers, Overcommitters, Undecided
  <1>3. /\ IsFiniteSet(Claimers) /\ IsFiniteSet(Overcommitters) /\ IsFiniteSet(Undecided)
        /\ Cardinality(Claimers) \in Nat /\ Cardinality(Overcommitters) \in Nat
        /\ Cardinality(Undecided) \in Nat /\ Cardinality(Counted) <= Cardinality(Consumers)
    BY <1>1, Sizes
  <1>4. Cardinality({}) = 0
    BY FS_EmptySet
  <1>5. /\ IsFiniteSet(Claimers \cup Overcommitters)
        /\ Cardinality(Claimers \cup Overcommitters) =
             Cardinality(Claimers) + Cardinality(Overcommitters) - Cardinality({})
    BY <1>2, <1>3, FS_Union
  <1>6. Cardinality(Counted) =
          Cardinality(Claimers \cup Overcommitters) + Cardinality(Undecided) - Cardinality({})
    BY <1>2, <1>3, <1>5, FS_Union DEF Counted
  <1> QED BY <1>3, <1>4, <1>5, <1>6

\* Where consumers stand when one of them, c, moves.
LEMMA OneMoves ==
  ASSUME WordsOK, NEW c \in Consumers, NEW w, pc' = [pc EXCEPT ![c] = w]
  PROVE  /\ Claimers' = IF w = "claim" THEN Claimers \cup {c} ELSE Claimers \ {c}
         /\ Undecided' = IF w = "reload_tail" THEN Undecided \cup {c} ELSE Undecided \ {c}
         /\ Overcommitters' = IF w = "overcommit" THEN Overcommitters \cup {c} ELSE Overcommitters \ {c}
         /\ HaveOvercommit' = IF w \in {"load_count", "count", "reload_tail"}
                              THEN HaveOvercommit \cup {c} ELSE HaveOvercommit \ {c}
  BY DEF WordsOK, Claimers, Undecided, Overcommitters, HaveOvercommit

\* What the invariant says of the sizes of the sets.
LEMMA Balanced ==
  ASSUME WordsOK, CountsBalance
  PROVE  /\ Cardinality(Counted) \in index_t
         /\ dequeueOptimisticCount = Plus(headIndex, Plus(dequeueOvercommit, Cardinality(Counted)))
  BY CountedSize, Half DEF CountsBalance, Counted

\* x is a - b, or would be if the words were wider; and so for a + b.
IsMinus(x, a, b) == x = a - b \/ x = a - b + IndexRange

IsPlus(x, a, b) == x = a + b \/ x = a + b - IndexRange

LEMMA WordsWrap ==
  ASSUME NEW a \in index_t, NEW b \in index_t
  PROVE  /\ Plus(a, b) \in index_t /\ IsPlus(Plus(a, b), a, b)
         /\ Minus(a, b) \in index_t /\ IsMinus(Minus(a, b), a, b)
  <1>1. index_t = 0 .. IndexRange - 1 /\ IndexRange \in Nat
    BY Half, CircularCountersAssumption
  <1>2. Plus(a, b) = IF a + b < IndexRange THEN a + b ELSE a + b - IndexRange
    BY Words
  <1>3. Minus(a, b) = IF a < b THEN a - b + IndexRange ELSE a - b
    BY Words
  <1> QED BY <1>1, <1>2, <1>3 DEF IsMinus, IsPlus

LEMMA WordsAreNat ==
  ASSUME NEW a \in index_t
  PROVE  a \in Nat /\ a <= IndexRange - 1
  BY CircularCountersAssumption DEF index_t

\* The sum of the counters, when one of them and the first move on.
LEMMA AddOne ==
  ASSUME NEW a \in index_t, NEW b \in index_t, NEW k \in index_t, k + 1 \in index_t
  PROVE  /\ Plus(Plus(a, Plus(b, k)), 1) = Plus(a, Plus(b, k + 1))
         /\ Plus(a, Plus(b, k + 1)) = Plus(a, Plus(Plus(b, 1), k))
         /\ Plus(a, Plus(b, k + 1)) = Plus(Plus(a, 1), Plus(b, k))
  <1> DEFINE x == Plus(b, k)  y == Plus(b, k + 1)  z == Plus(b, 1)  w == Plus(a, 1)  v == Plus(a, x)
             p == Plus(v, 1)  q == Plus(a, y)  r == Plus(z, k)  s == Plus(a, r)  t == Plus(w, x)
  <1>1. index_t = 0 .. IndexRange - 1 /\ 1 \in index_t /\ IndexRange \in Nat
    BY Half, CircularCountersAssumption
  <1>2. /\ x \in index_t /\ IsPlus(x, b, k) /\ y \in index_t /\ IsPlus(y, b, k + 1)
        /\ z \in index_t /\ IsPlus(z, b, 1) /\ w \in index_t /\ IsPlus(w, a, 1)
    BY <1>1, WordsWrap
  <1> HIDE DEF x, y, z, w
  <1>3. /\ v \in index_t /\ IsPlus(v, a, x) /\ q \in index_t /\ IsPlus(q, a, y)
        /\ r \in index_t /\ IsPlus(r, z, k) /\ t \in index_t /\ IsPlus(t, w, x)
    BY <1>2, WordsWrap
  <1> HIDE DEF v, q, r, t
  <1>4. p \in index_t /\ IsPlus(p, v, 1) /\ s \in index_t /\ IsPlus(s, a, r)
    BY <1>1, <1>3, WordsWrap
  <1> HIDE DEF p, s
  <1>5. /\ a \in Int /\ b \in Int /\ k \in Int
        /\ q = a + b + k + 1 \/ q = a + b + k + 1 - IndexRange \/ q = a + b + k + 1 - 2 * IndexRange
        /\ p = a + b + k + 1 \/ p = a + b + k + 1 - IndexRange \/ p = a + b + k + 1 - 2 * IndexRange
             \/ p = a + b + k + 1 - 3 * IndexRange
        /\ s = a + b + k + 1 \/ s = a + b + k + 1 - IndexRange \/ s = a + b + k + 1 - 2 * IndexRange
             \/ s = a + b + k + 1 - 3 * IndexRange
        /\ t = a + b + k + 1 \/ t = a + b + k + 1 - IndexRange \/ t = a + b + k + 1 - 2 * IndexRange
             \/ t = a + b + k + 1 - 3 * IndexRange
    BY <1>1, <1>2, <1>3, <1>4 DEF IsPlus
  <1>6. p = q /\ s = q /\ t = q
    BY <1>1, <1>3, <1>4, <1>5
  <1> QED BY <1>6 DEF p, q, s, t, v, r, x, y, z, w

\* The comparison that decides, at any distance from the end of the indices.
LEMMA FoundMeansRoom ==
  ASSUME WrapInv, NEW c \in Undecided,
         circular_less_than(Minus(loc[c].myDequeueCount, loc[c].overcommit), tailIndex)
  PROVE  Cardinality(Counted) + Missed(c) + 1 <= InQueue + Age(c)
  <1> DEFINE K == Cardinality(Counted)  N == Cardinality(Consumers)  H == IndexRange \div 2
             C == dequeueOptimisticCount  O == dequeueOvercommit
             m == loc[c].myDequeueCount  o == loc[c].overcommit
  <1>1. /\ WordsOK /\ K \in index_t /\ C = Plus(headIndex, Plus(O, K)) /\ K <= N
    BY Balanced, CountedSize DEF WrapInv
  <1>2. c \in Consumers /\ c \in HaveOvercommit /\ m \in index_t /\ o \in index_t
    BY <1>1 DEF Undecided, HaveOvercommit, WordsOK
  <1>3. /\ headIndex \in index_t /\ tailIndex \in index_t /\ C \in index_t /\ O \in index_t
    BY <1>1 DEF WordsOK
  <1>4. Age(c) \in 1 .. MaxLag + 1 /\ Missed(c) <= MaxLag
    BY <1>2 DEF WrapInv, Fresh
  <1>5. Age(c) = Minus(C, m) /\ Missed(c) = Minus(O, o) /\ InQueue = Minus(tailIndex, headIndex)
    BY DEF Age, Missed, InQueue
  <1>6. InQueue <= H
    BY DEF WrapInv, ElementsForClaims, InQueue
  <1>7. K >= 1
    <2>1. Counted \in SUBSET Consumers /\ c \in Counted
      BY <1>1, SetsOfConsumers DEF Counted
    <2> QED BY <2>1, Sizes
  <1>8. /\ H \in Nat /\ IndexRange = 2 * H /\ index_t = 0 .. IndexRange - 1
        /\ MaxLag \in Nat /\ N \in Nat /\ N + MaxLag <= H
    BY Half
  <1>9. Minus(Minus(m, o), tailIndex) > H
    BY DEF circular_less_than
  <1>10. Minus(m, o) \in index_t /\ IsMinus(Minus(m, o), m, o)
    BY <1>2, WordsWrap
  <1>11. /\ Minus(Minus(m, o), tailIndex) \in index_t
         /\ IsMinus(Minus(Minus(m, o), tailIndex), Minus(m, o), tailIndex)
    BY <1>3, <1>10, WordsWrap
  <1>12. Plus(O, K) \in index_t /\ IsPlus(Plus(O, K), O, K)
    BY <1>1, <1>3, WordsWrap
  <1>13. IsPlus(C, headIndex, Plus(O, K))
    BY <1>1, <1>3, <1>12, WordsWrap
  <1>14. /\ IsMinus(Age(c), C, m) /\ Missed(c) \in index_t /\ IsMinus(Missed(c), O, o)
         /\ InQueue \in index_t /\ IsMinus(InQueue, tailIndex, headIndex)
    BY <1>2, <1>3, <1>5, WordsWrap
  <1> HIDE DEF K, N, H, C, O, m, o
  <1>15. K + Age(c) <= H + 1 /\ K + Missed(c) <= H /\ K \in Nat /\ Age(c) \in Nat /\ Missed(c) \in Nat /\ InQueue \in Nat
    BY <1>1, <1>4, <1>8, <1>14
  <1>16. IndexRange \in Nat /\ Plus(O, K) \in Int
    BY <1>8, <1>12
  <1> DEFINE sum == Plus(O, K)  index == Minus(m, o)  d == Minus(index, tailIndex)
             size == InQueue  age == Age(c)  missed == Missed(c)  diff == size - K - missed + age
  <1>17. /\ C \in Nat /\ O \in Nat /\ m \in Nat /\ o \in Nat /\ sum \in Nat /\ index \in Nat
         /\ d \in 0 .. IndexRange - 1 /\ headIndex \in Nat /\ tailIndex \in Nat
         /\ d > H /\ size <= H /\ K >= 1 /\ K + age <= H + 1 /\ K + missed <= H
    BY <1>2, <1>3, <1>6, <1>7, <1>8, <1>9, <1>10, <1>11, <1>12, <1>15
  <1>18. /\ IsPlus(sum, O, K) /\ IsPlus(C, headIndex, sum) /\ IsMinus(index, m, o)
         /\ IsMinus(d, index, tailIndex) /\ IsMinus(age, C, m) /\ IsMinus(missed, O, o)
         /\ IsMinus(size, tailIndex, headIndex)
    BY <1>10, <1>11, <1>12, <1>13, <1>14
  <1>19. size \in Nat /\ age \in Nat /\ missed \in Nat /\ K \in Nat /\ IndexRange \in Nat /\ IndexRange = 2 * H /\ H \in Nat
    BY <1>8, <1>15, <1>16
  <1> HIDE DEF sum, index, d, size, age, missed
  <1>20. \/ d = - diff \/ d = IndexRange - diff \/ d = - diff - IndexRange
         \/ d = 2 * IndexRange - diff \/ d = 3 * IndexRange - diff \/ d = 4 * IndexRange - diff
         \/ d = - diff - 2 * IndexRange \/ d = - diff - 3 * IndexRange
    BY <1>17, <1>18, <1>19 DEF IsPlus, IsMinus
  <1>21. diff <= 2 * H /\ diff >= - H /\ diff \in Int
    BY <1>17, <1>19
  <1>22. diff >= 1
    <2> HIDE DEF diff
    <2> QED BY <1>17, <1>19, <1>20, <1>21
  <1> QED BY <1>19, <1>22 DEF size, age, missed, K

----------------------------------------------------------------------------
(* The steps. *)

LEMMA InitWrapInv == Init => WrapInv
  <1> SUFFICES ASSUME Init PROVE WrapInv
    OBVIOUS
  <1>0. 0 \in index_t /\ IndexRange \div 2 \in Nat
    BY Half, CircularCountersAssumption
  <1>1. /\ Claimers = {} /\ Overcommitters = {} /\ Undecided = {} /\ HaveOvercommit = {}
        /\ Claimers \cup Overcommitters \cup Undecided = {}
    BY DEF Init, Claimers, Overcommitters, Undecided, HaveOvercommit
  <1>2. WordsOK
    BY <1>0 DEF Init, WordsOK, NoLocals, Fields
  <1>3. Plus(0, 0) = 0 /\ Minus(0, 0) = 0
    BY <1>0, Words, Half
  <1>4. CountsBalance
    BY <1>1, <1>3, FS_EmptySet DEF Init, CountsBalance
  <1>5. ElementsForClaims
    BY <1>0, <1>1, <1>3, FS_EmptySet DEF Init, ElementsForClaims
  <1>6. RoomInBlock
    BY CircularCountersAssumption DEF Init, RoomInBlock
  <1> QED BY <1>1, <1>2, <1>4, <1>5, <1>6 DEF WrapInv, Fresh

\* A step that nobody counted takes: no one becomes counted, and tailIndex
\* may move on.
LEMMA AsideStep ==
  ASSUME WrapInv, WordsOK', Fresh', RoomInBlock',
         UNCHANGED <<headIndex, dequeueOptimisticCount, dequeueOvercommit>>,
         InQueue' >= InQueue, InQueue' <= IndexRange \div 2,
         Claimers' = Claimers, Undecided' = Undecided, Overcommitters' = Overcommitters,
         \A c \in Undecided : loc'[c] = loc[c]
  PROVE  WrapInv'
  <1>0. /\ WordsOK /\ Claimers \in SUBSET Consumers /\ Undecided \in SUBSET Consumers
        /\ InQueue \in Int /\ InQueue' \in Int /\ Cardinality(Claimers) \in Nat
    BY SetsOfConsumers, Sizes, CircularCountersAssumption DEF WrapInv, WordsOK, InQueue, Minus, index_t
  <1>1. CountsBalance'
    BY DEF WrapInv, CountsBalance
  <1>2. ElementsForClaims'
    BY <1>0 DEF WrapInv, ElementsForClaims, InQueue
  <1>3. ASSUME NEW c \in Undecided PROVE EnoughFor(c)'
    <2>1. Age(c)' = Age(c) /\ Missed(c)' = Missed(c) /\ NotAfter(c)' = NotAfter(c)
      BY <1>3 DEF Age, Missed, NotAfter
    <2>2. Cardinality(NotAfter(c)) \in Nat
      BY <1>0, <1>3, Sizes DEF NotAfter
    <2>3. EnoughFor(c)
      BY <1>3 DEF WrapInv
    <2> QED BY <1>0, <2>1, <2>2, <2>3 DEF EnoughFor
  <1> QED BY <1>1, <1>2, <1>3 DEF WrapInv

LEMMA EnqueueStep ==
  ASSUME WrapInv, Enqueue
  PROVE  WrapInv'
  <1> DEFINE H == IndexRange \div 2  r == tailIndex % BLOCK_SIZE
  <1>0. /\ WordsOK /\ tailIndex \in index_t /\ headIndex \in index_t
        /\ tailIndex' = Plus(tailIndex, 1) /\ InQueue <= H /\ RoomInBlock
        /\ UNCHANGED <<headIndex, dequeueOptimisticCount, dequeueOvercommit, pc, loc>>
    BY DEF WrapInv, WordsOK, Enqueue, ElementsForClaims, InQueue
  <1>1. H \in Nat /\ IndexRange = 2 * H /\ index_t = 0 .. IndexRange - 1 /\ H >= 1 /\ BLOCK_SIZE \in 1 .. H
    BY Half, Halves
  <1>2. InQueue = Minus(tailIndex, headIndex) /\ InQueue \in index_t
    BY <1>0, OneMore DEF InQueue
  <1>3. /\ r \in 0 .. BLOCK_SIZE - 1
        /\ tailIndex' % BLOCK_SIZE = IF r = BLOCK_SIZE - 1 THEN 0 ELSE r + 1
    BY <1>0, InBlock
  <1>4. ASSUME r = 0 PROVE InQueue + BLOCK_SIZE <= H
    <2> DEFINE end == Plus(tailIndex, BLOCK_SIZE)  left == Minus(headIndex, end)
    <2>1. BLOCK_SIZE \in index_t
      BY <1>1
    <2>2. end \in index_t /\ IsPlus(end, tailIndex, BLOCK_SIZE) /\ IsMinus(InQueue, tailIndex, headIndex)
      BY <1>0, <1>2, <2>1, WordsWrap
    <2>3. left \in index_t /\ IsMinus(left, headIndex, end) /\ left > H
      <3>1. left > H
        BY <1>0, <1>4 DEF Enqueue, circular_less_than
      <3> QED BY <1>0, <2>2, <3>1, WordsWrap
    <2> HIDE DEF H, end, left
    <2> QED BY <1>0, <1>1, <1>2, <2>2, <2>3 DEF IsPlus, IsMinus
  <1>5. InQueue + 1 <= H
    BY <1>0, <1>1, <1>2, <1>3, <1>4 DEF RoomInBlock
  <1>6. InQueue' = InQueue + 1
    <2>1. InQueue' = Minus(Plus(tailIndex, 1), headIndex)
      BY <1>0 DEF InQueue
    <2>2. Minus(tailIndex, headIndex) < IndexRange - 1
      BY <1>1, <1>2, <1>5
    <2> QED BY <1>0, <1>2, <2>1, <2>2, OneMore
  <1>7. RoomInBlock'
    <2>1. CASE r = 0
      <3>1. InQueue + BLOCK_SIZE <= H
        BY <1>4, <2>1
      <3> QED BY <1>1, <1>2, <1>3, <1>6, <2>1, <3>1 DEF RoomInBlock
    <2>2. CASE r # 0
      <3>1. InQueue + (BLOCK_SIZE - r) <= H
        BY <1>0, <2>2 DEF RoomInBlock
      <3> QED BY <1>1, <1>2, <1>3, <1>6, <2>2, <3>1 DEF RoomInBlock
    <2> QED BY <2>1, <2>2
  <1>8. WordsOK'
    <2>1. tailIndex' \in index_t
      BY <1>0, OneMore
    <2> QED BY <1>0, <2>1 DEF WordsOK
  <1>9. Fresh'
    BY <1>0 DEF WrapInv, Fresh, Undecided, HaveOvercommit, Age, Missed
  <1>10. Claimers' = Claimers /\ Undecided' = Undecided /\ Overcommitters' = Overcommitters
    BY <1>0 DEF Claimers, Undecided, Overcommitters
  <1>11. InQueue' >= InQueue /\ InQueue' <= IndexRange \div 2
    BY <1>1, <1>2, <1>5, <1>6
  <1> QED BY <1>0, <1>7, <1>8, <1>9, <1>10, <1>11, AsideStep

\* A step of consumer c to w in which no counter changes, and c is counted
\* neither before nor after it.
LEMMA ConsumerAside ==
  ASSUME WrapInv, NEW c \in Consumers, NEW w, UNCHANGED counters, pc' = [pc EXCEPT ![c] = w],
         pc[c] \notin {"claim", "reload_tail", "overcommit"},
         w \notin {"claim", "reload_tail", "overcommit"},
         DOMAIN loc' = Consumers, \A d \in Consumers \ {c} : loc'[d] = loc[d],
         DOMAIN loc'[c] = Fields, loc'[c].overcommit \in index_t, loc'[c].myDequeueCount \in index_t,
         w \in {"load_count", "count"} => Missed(c)' <= MaxLag
  PROVE  WrapInv'
  <1> USE DEF counters
  <1>0. WordsOK
    BY DEF WrapInv
  <1>1. Claimers' = Claimers /\ Undecided' = Undecided /\ Overcommitters' = Overcommitters /\ c \notin Undecided
    BY <1>0, OneMoves DEF Claimers, Undecided, Overcommitters
  <1>2. WordsOK'
    BY <1>0 DEF WordsOK
  <1>3. \A d \in Undecided : loc'[d] = loc[d]
    BY <1>1 DEF Undecided
  <1>4. Fresh'
    <2>1. HaveOvercommit' \ {c} = HaveOvercommit \ {c} /\ (c \in HaveOvercommit' => w \in {"load_count", "count"})
      BY <1>0, OneMoves DEF HaveOvercommit, WordsOK
    <2>2. \A d \in HaveOvercommit \ {c} : Missed(d)' = Missed(d)
      BY <1>0 DEF Missed, HaveOvercommit
    <2>3. \A d \in HaveOvercommit' : Missed(d)' <= MaxLag
      BY <2>1, <2>2 DEF WrapInv, Fresh
    <2>4. \A d \in Undecided : Age(d)' = Age(d)
      BY <1>3 DEF Age
    <2> QED BY <1>1, <2>3, <2>4 DEF WrapInv, Fresh
  <1>5. RoomInBlock' /\ InQueue' = InQueue
    BY DEF WrapInv, RoomInBlock, InQueue
  <1>6. InQueue' >= InQueue /\ InQueue' <= IndexRange \div 2
    <2>1. InQueue \in index_t
      BY <1>0, OneMore DEF InQueue, WordsOK
    <2> QED BY <1>5, <2>1, Half DEF WrapInv, ElementsForClaims, InQueue
  <1> QED BY <1>1, <1>2, <1>3, <1>4, <1>5, <1>6, AsideStep

\* Facts about WrapInv that every counted step uses.
LEMMA Facts ==
  ASSUME WrapInv
  PROVE  /\ WordsOK /\ InQueue \in index_t /\ InQueue <= IndexRange \div 2
         /\ Cardinality(Claimers) <= InQueue
         /\ tailIndex \in index_t /\ headIndex \in index_t
         /\ dequeueOptimisticCount \in index_t /\ dequeueOvercommit \in index_t
         /\ Claimers \in SUBSET Consumers /\ Overcommitters \in SUBSET Consumers
         /\ Undecided \in SUBSET Consumers
         /\ Cardinality(Claimers) \in Nat /\ Cardinality(Overcommitters) \in Nat
         /\ Cardinality(Undecided) \in Nat
         /\ \A c \in Undecided : /\ NotAfter(c) \in SUBSET Consumers /\ c \in NotAfter(c)
                                 /\ Cardinality(NotAfter(c)) \in Nat
                                 /\ Age(c) \in 1 .. MaxLag + 1 /\ Missed(c) \in Nat
                                 /\ Missed(c) <= MaxLag /\ c \in HaveOvercommit
  <1>1. WordsOK
    BY DEF WrapInv
  <1>2. /\ tailIndex \in index_t /\ headIndex \in index_t
        /\ dequeueOptimisticCount \in index_t /\ dequeueOvercommit \in index_t
    BY <1>1 DEF WordsOK
  <1>3. InQueue \in index_t /\ InQueue <= IndexRange \div 2 /\ Cardinality(Claimers) <= InQueue
    BY <1>2, OneMore DEF WrapInv, ElementsForClaims, InQueue
  <1>4. /\ Claimers \in SUBSET Consumers /\ Overcommitters \in SUBSET Consumers
        /\ Undecided \in SUBSET Consumers
    BY <1>1, SetsOfConsumers
  <1>5. ASSUME NEW c \in Undecided
        PROVE  /\ NotAfter(c) \in SUBSET Consumers /\ c \in NotAfter(c)
               /\ Cardinality(NotAfter(c)) \in Nat
               /\ Age(c) \in 1 .. MaxLag + 1 /\ Missed(c) \in Nat
               /\ Missed(c) <= MaxLag /\ c \in HaveOvercommit
    <2>1. c \in HaveOvercommit /\ Age(c) \in 1 .. MaxLag + 1 /\ Missed(c) <= MaxLag
      BY <1>5 DEF WrapInv, Fresh, Undecided, HaveOvercommit
    <2>2. NotAfter(c) \in SUBSET Consumers /\ c \in NotAfter(c)
      BY <1>4, <1>5, <2>1, Half DEF NotAfter
    <2>3. loc[c].overcommit \in index_t
      BY <1>1, <1>4, <1>5 DEF WordsOK
    <2>4. Missed(c) \in index_t
      BY <1>2, <2>3, OneMore DEF Missed
    <2>5. Missed(c) \in Nat
      BY <2>4, WordsAreNat
    <2> QED BY <2>1, <2>2, <2>5, Sizes
  <1> QED BY <1>1, <1>2, <1>3, <1>4, <1>5, Sizes

\* fetch_add of dequeueOptimisticCount: c is the youngest of the undecided.
LEMMA CountStep ==
  ASSUME WrapInv, NEW c \in Consumers, Count(c)
  PROVE  WrapInv'
  <1>0. WordsOK
    BY DEF WrapInv
  <1>1. /\ Claimers' = Claimers /\ Overcommitters' = Overcommitters
        /\ Undecided' = Undecided \cup {c} /\ c \notin Undecided
        /\ HaveOvercommit' = HaveOvercommit /\ c \in HaveOvercommit
    <2>1. pc' = [pc EXCEPT ![c] = "reload_tail"] /\ pc[c] = "count"
      BY DEF Count, Go
    <2>2. c \notin Claimers /\ c \notin Overcommitters /\ c \notin Undecided /\ c \in HaveOvercommit
      BY <2>1 DEF Claimers, Undecided, Overcommitters, HaveOvercommit
    <2>3. /\ Claimers' = Claimers \ {c} /\ Overcommitters' = Overcommitters \ {c}
          /\ Undecided' = Undecided \cup {c} /\ HaveOvercommit' = HaveOvercommit \cup {c}
      BY <1>0, <2>1, OneMoves
    <2> QED BY <2>2, <2>3
  <1>2. /\ loc'[c].myDequeueCount = dequeueOptimisticCount
        /\ loc'[c].overcommit = loc[c].overcommit
        /\ \A d \in Consumers \ {c} : loc'[d] = loc[d]
        /\ dequeueOptimisticCount' = Plus(dequeueOptimisticCount, 1)
        /\ UNCHANGED <<tailIndex, headIndex, dequeueOvercommit>>
    BY <1>0 DEF Count, Go, WordsOK, Fields
  <1>3. WordsOK'
    <2>1. dequeueOptimisticCount' \in index_t
      BY <1>2, Facts, OneMore
    <2> QED BY <1>0, <1>2, <2>1 DEF Count, Go, WordsOK, Fields
  <1>4. InQueue' = InQueue /\ Cardinality(Undecided') = Cardinality(Undecided) + 1
    BY <1>1, <1>2, Sizes, Facts DEF InQueue
  <1>5. CountsBalance'
    <2>0. Counted' = Counted \cup {c} /\ c \notin Counted /\ Counted \in SUBSET Consumers
          /\ Counted' \in SUBSET Consumers
      <3>1. c \notin Claimers /\ c \notin Overcommitters
        BY DEF Count, Claimers, Overcommitters
      <3> QED BY <1>1, <3>1, Facts DEF Counted
    <2>1. /\ Cardinality(Counted') = Cardinality(Counted) + 1 /\ Cardinality(Counted') \in index_t
          /\ Cardinality(Counted) \in index_t
      <3>1. /\ Cardinality(Counted') = Cardinality(Counted) + 1
            /\ Cardinality(Counted') \in Nat /\ Cardinality(Counted) \in Nat
            /\ Cardinality(Counted') <= Cardinality(Consumers)
        BY <2>0, Sizes
      <3> QED BY <3>1, Half
    <2>2. dequeueOptimisticCount = Plus(headIndex, Plus(dequeueOvercommit, Cardinality(Counted)))
      BY Balanced, <1>0 DEF WrapInv
    <2>3. Plus(dequeueOptimisticCount, 1) = Plus(headIndex, Plus(dequeueOvercommit, Cardinality(Counted) + 1))
      BY <2>1, <2>2, Facts, AddOne
    <2> QED BY <1>2, <2>1, <2>3 DEF CountsBalance, Counted
  <1>6. ElementsForClaims' /\ RoomInBlock'
    BY <1>1, <1>2, <1>4 DEF WrapInv, ElementsForClaims, RoomInBlock, InQueue
  <1>7. Age(c)' = 1 /\ Missed(c)' = Missed(c) /\ Missed(c) \in Nat
    <2>1. Age(c)' = Minus(Plus(dequeueOptimisticCount, 1), dequeueOptimisticCount)
      BY <1>2 DEF Age
    <2>2. loc[c].overcommit \in index_t
      BY <1>0 DEF WordsOK
    <2>3. Missed(c) \in index_t
      BY <2>2, Facts, OneMore DEF Missed
    <2> QED BY <1>2, <2>1, <2>3, Facts, OneMore, Half DEF Missed
  <1>8. ASSUME NEW d \in Undecided
        PROVE  Age(d)' = Age(d) + 1 /\ Age(d) < MaxLag /\ Missed(d)' = Missed(d)
    <2>1. d # c /\ d \in Consumers /\ loc'[d] = loc[d] /\ loc[d].myDequeueCount \in index_t
      BY <1>0, <1>1, <1>2, <1>8 DEF Undecided, WordsOK
    <2>2. Minus(dequeueOptimisticCount, loc[d].myDequeueCount) < MaxLag
      BY <1>8 DEF Count, Undecided
    <2>3. Minus(dequeueOptimisticCount, loc[d].myDequeueCount) \in Int
      <3>1. Minus(dequeueOptimisticCount, loc[d].myDequeueCount) \in index_t
        BY <2>1, Facts, OneMore
      <3> QED BY <3>1, WordsAreNat
    <2>4. Minus(dequeueOptimisticCount, loc[d].myDequeueCount) < IndexRange - 1
      BY <2>2, <2>3, Half
    <2> QED BY <1>2, <2>1, <2>2, <2>4, Facts, OneMore DEF Age, Missed
  <1>9. Fresh'
    <2>1. \A d \in Undecided' : Age(d)' \in 1 .. MaxLag + 1
      <3>1. MaxLag \in Nat /\ \A d \in Undecided : Age(d) \in 1 .. MaxLag + 1
        BY Half, Facts
      <3>2. \A d \in Undecided : Age(d)' \in 1 .. MaxLag + 1
        BY <1>8, <3>1
      <3> QED BY <1>1, <1>7, <3>1, <3>2
    <2>2. \A d \in HaveOvercommit : Missed(d)' = Missed(d)
      BY <1>2 DEF Missed, HaveOvercommit
    <2> QED BY <1>1, <2>1, <2>2 DEF Fresh, WrapInv
  <1>10. ASSUME NEW d \in Undecided PROVE EnoughFor(d)'
    <2>1. NotAfter(d)' = NotAfter(d)
      <3>1. MaxLag \in Nat /\ \A e \in Undecided : Age(e) \in 1 .. MaxLag + 1
        BY Half, Facts
      <3>2. ~ (Age(c)' >= Age(d)')
        BY <1>7, <1>8, <1>10, <3>1
      <3>3. \A e \in Undecided : Age(e)' >= Age(d)' <=> Age(e) >= Age(d)
        BY <1>8, <1>10, <3>1
      <3> QED BY <1>1, <3>2, <3>3 DEF NotAfter
    <2>2. EnoughFor(d)
      BY <1>10 DEF WrapInv
    <2>3. /\ Age(d) \in Int /\ Missed(d) \in Nat /\ Cardinality(NotAfter(d)) \in Nat
          /\ Age(d)' = Age(d) + 1 /\ Missed(d)' = Missed(d)
      BY <1>8, <1>10, Facts
    <2> QED BY <1>1, <1>4, <2>1, <2>2, <2>3, Facts DEF EnoughFor
  <1>11. EnoughFor(c)'
    <2>1. NotAfter(c)' \in SUBSET Undecided' /\ Undecided' \in SUBSET Consumers
      BY <1>3, SetsOfConsumers DEF NotAfter, Undecided
    <2>2. Cardinality(NotAfter(c)') <= Cardinality(Undecided') /\ Cardinality(NotAfter(c)') \in Nat
      BY <2>1, Sizes
    <2> QED BY <1>1, <1>4, <1>7, <2>2, Facts DEF EnoughFor
  <1> QED BY <1>1, <1>3, <1>5, <1>6, <1>9, <1>10, <1>11 DEF WrapInv

LEMMA ReloadStep ==
  ASSUME WrapInv, NEW c \in Consumers, ReloadTail(c)
  PROVE  WrapInv'
  <1> DEFINE found == circular_less_than(Minus(loc[c].myDequeueCount, loc[c].overcommit), tailIndex)
  <1>0. WordsOK /\ c \in Undecided /\ UNCHANGED counters
    BY DEF WrapInv, ReloadTail, Undecided
  <1> USE DEF counters
  <1>1. /\ Undecided' = Undecided \ {c}
        /\ found => Claimers' = Claimers \cup {c} /\ Overcommitters' = Overcommitters /\ c \notin Claimers
        /\ ~ found => /\ Claimers' = Claimers /\ Overcommitters' = Overcommitters \cup {c}
                      /\ c \notin Overcommitters
        /\ HaveOvercommit' \in SUBSET HaveOvercommit /\ c \notin HaveOvercommit'
    <2>1. c \notin Claimers /\ c \notin Overcommitters
      BY <1>0 DEF Claimers, Overcommitters, Undecided
    <2>2. /\ found => pc' = [pc EXCEPT ![c] = "claim"]
          /\ ~ found => pc' = [pc EXCEPT ![c] = "overcommit"]
      BY DEF ReloadTail, Go
    <2> HIDE DEF found
    <2>3. CASE found
      BY <1>0, <2>1, <2>2, <2>3, OneMoves
    <2>4. CASE ~ found
      BY <1>0, <2>1, <2>2, <2>4, OneMoves
    <2> QED BY <2>3, <2>4
  <1>2. \A d \in Consumers \ {c} : loc'[d] = loc[d]
    BY <1>0 DEF ReloadTail, WordsOK
  <1>3. WordsOK'
    BY <1>0, Half DEF ReloadTail, Go, WordsOK, NoLocals, Fields
  <1>4. /\ Cardinality(Undecided') = Cardinality(Undecided) - 1
        /\ found => Cardinality(Claimers') = Cardinality(Claimers) + 1
        /\ ~ found => Cardinality(Overcommitters') = Cardinality(Overcommitters) + 1
    BY <1>0, <1>1, Sizes, Facts
  <1>5. InQueue' = InQueue
    BY <1>0 DEF InQueue
  <1>6. Counted' = Counted
    BY <1>0, <1>1 DEF Counted
  <1>7. CountsBalance' /\ RoomInBlock'
    BY <1>0, <1>5, <1>6 DEF CountsBalance, WrapInv, Counted, RoomInBlock
  <1>8. \A d \in Consumers \ {c} : Age(d)' = Age(d) /\ Missed(d)' = Missed(d)
    BY <1>0, <1>2 DEF Age, Missed
  <1>9. Fresh'
    BY <1>1, <1>8 DEF Fresh, WrapInv, HaveOvercommit, Undecided
  <1>10. found => Cardinality(Claimers) + Cardinality(NotAfter(c)) <= InQueue
    <2>1. SUFFICES ASSUME found PROVE Cardinality(Claimers) + Cardinality(NotAfter(c)) <= InQueue
      OBVIOUS
    <2>2. Cardinality(Counted) + Missed(c) + 1 <= InQueue + Age(c)
      BY <1>0, <2>1, FoundMeansRoom
    <2>3. Cardinality(Counted) = Cardinality(Claimers) + Cardinality(Overcommitters) + Cardinality(Undecided)
      BY <1>0, CountedSize
    <2>4. EnoughFor(c)
      BY <1>0 DEF WrapInv
    <2>5. /\ Cardinality(NotAfter(c)) \in Nat /\ Age(c) \in Int /\ Missed(c) \in Int /\ InQueue \in Int
          /\ Cardinality(Claimers) \in Nat /\ Cardinality(Overcommitters) \in Nat
          /\ Cardinality(Undecided) \in Nat
      BY <1>0, Facts, Half
    <2> HIDE DEF found
    <2> QED BY <2>2, <2>3, <2>4, <2>5 DEF EnoughFor
  <1> HIDE DEF found
  <1>11. InQueue \in Nat
    BY Facts, Half
  <1>12. Cardinality(NotAfter(c)) >= 1
    BY <1>0, Facts, Sizes
  <1>13. ElementsForClaims'
    <2>1. Cardinality(Claimers') <= InQueue'
      BY <1>0, <1>1, <1>4, <1>5, <1>10, <1>11, <1>12, Facts
    <2> QED BY <1>5, <2>1, Facts DEF ElementsForClaims, InQueue
  <1>14. ASSUME NEW d \in Undecided' PROVE EnoughFor(d)'
    <2>1. d # c /\ d \in Undecided /\ d \in Consumers /\ EnoughFor(d)
      BY <1>1, <1>14 DEF WrapInv, Undecided
    <2>2. NotAfter(d)' = NotAfter(d) \ {c} /\ Age(d)' = Age(d) /\ Missed(d)' = Missed(d)
      BY <1>1, <1>8, <2>1 DEF NotAfter, Undecided
    <2>3. /\ Cardinality(NotAfter(d)) \in Nat /\ NotAfter(d) \in SUBSET Consumers
          /\ Age(d) \in Int /\ Missed(d) \in Nat /\ NotAfter(c) \in SUBSET Consumers
          /\ Cardinality(NotAfter(c)) \in Nat /\ c \in NotAfter(c) /\ Age(c) \in Int
      <3>1. MaxLag \in Nat /\ \A e \in Undecided : Age(e) \in 1 .. MaxLag + 1
        BY Half, Facts
      <3> QED BY <1>0, <2>1, <3>1, Facts
    <2>4. /\ Cardinality(Claimers) \in Nat /\ Cardinality(Overcommitters) \in Nat
          /\ Cardinality(Undecided) \in Nat
      BY Facts
    <2>5. CASE found /\ c \in NotAfter(d)
      <3>1. Cardinality(NotAfter(d)') = Cardinality(NotAfter(d)) - 1
        BY <2>2, <2>3, <2>5, Sizes
      <3> QED BY <1>1, <1>4, <1>5, <1>11, <2>1, <2>2, <2>3, <2>4, <2>5, <3>1 DEF EnoughFor
    <2>6. CASE found /\ c \notin NotAfter(d)
      <3>1. NotAfter(d) \in SUBSET (NotAfter(c) \ {c}) /\ NotAfter(c) \ {c} \in SUBSET Consumers
        <4>1. Age(c) < Age(d)
          BY <1>0, <2>3, <2>6 DEF NotAfter
        <4>2. \A e \in NotAfter(d) : Age(e) \in Int /\ Age(e) >= Age(d) /\ e \in Undecided /\ e # c
          <5>1. MaxLag \in Nat /\ \A e \in Undecided : Age(e) \in 1 .. MaxLag + 1
            BY Half, Facts
          <5> QED BY <2>6, <5>1 DEF NotAfter
        <4>3. \A e \in NotAfter(d) : Age(e) >= Age(c)
          BY <2>3, <4>1, <4>2
        <4> QED BY <2>3, <4>2, <4>3 DEF NotAfter
      <3>2. Cardinality(NotAfter(d)) <= Cardinality(NotAfter(c)) - 1
        BY <2>3, <3>1, Sizes
      <3>3. NotAfter(d)' = NotAfter(d)
        BY <2>2, <2>6
      <3>4. Cardinality(Claimers') + Cardinality(NotAfter(d)') <= InQueue'
        BY <1>4, <1>5, <1>10, <1>11, <2>3, <2>4, <2>6, <3>2, <3>3
      <3> QED BY <3>4 DEF EnoughFor
    <2>7. CASE ~ found
      <3>1. Cardinality(NotAfter(d)') <= Cardinality(NotAfter(d)) /\ Cardinality(NotAfter(d)') \in Nat
        BY <2>2, <2>3, Sizes
      <3> QED BY <1>1, <1>4, <1>5, <1>11, <2>1, <2>2, <2>3, <2>4, <2>7, <3>1 DEF EnoughFor
    <2> QED BY <2>5, <2>6, <2>7
  <1> QED BY <1>3, <1>7, <1>9, <1>13, <1>14 DEF WrapInv

LEMMA OvercommitStep ==
  ASSUME WrapInv, NEW c \in Consumers, Overcommit(c)
  PROVE  WrapInv'
  <1>0. WordsOK /\ c \in Overcommitters
    BY DEF WrapInv, Overcommit, Overcommitters
  <1>1. /\ Claimers' = Claimers /\ Undecided' = Undecided /\ Overcommitters' = Overcommitters \ {c}
        /\ c \notin Undecided /\ HaveOvercommit' = HaveOvercommit /\ c \notin HaveOvercommit
    <2>1. c \notin Claimers /\ c \notin Undecided /\ c \notin HaveOvercommit /\ pc' = [pc EXCEPT ![c] = "idle"]
      BY DEF Overcommit, Return, Go, Claimers, Undecided, HaveOvercommit
    <2>2. /\ Claimers' = Claimers \ {c} /\ Undecided' = Undecided \ {c}
          /\ Overcommitters' = Overcommitters \ {c} /\ HaveOvercommit' = HaveOvercommit \ {c}
      BY <1>0, <2>1 DEF WordsOK, Claimers, Undecided, Overcommitters, HaveOvercommit
    <2> QED BY <2>1, <2>2
  <1>2. /\ \A d \in Consumers \ {c} : loc'[d] = loc[d]
        /\ dequeueOvercommit' = Plus(dequeueOvercommit, 1)
        /\ UNCHANGED <<tailIndex, headIndex, dequeueOptimisticCount>>
    BY <1>0 DEF Overcommit, Return, Go, WordsOK
  <1>3. WordsOK'
    <2>1. dequeueOvercommit' \in index_t
      BY <1>2, Facts, OneMore
    <2>2. 0 \in index_t
      BY Half
    <2> QED BY <1>0, <1>2, <2>1, <2>2 DEF Overcommit, Return, Go, WordsOK, NoLocals, Fields
  <1>4. InQueue' = InQueue /\ Cardinality(Overcommitters') = Cardinality(Overcommitters) - 1
    BY <1>0, <1>1, <1>2, Sizes, Facts DEF InQueue
  <1>5. CountsBalance'
    <2>0. Counted' = Counted \ {c} /\ c \in Counted /\ Counted \in SUBSET Consumers
      <3>1. c \notin Claimers
        BY <1>0 DEF Overcommitters, Claimers
      <3> QED BY <1>0, <1>1, <3>1, Facts DEF Counted
    <2>1. /\ Cardinality(Counted) = Cardinality(Counted') + 1 /\ Cardinality(Counted') \in index_t
          /\ Cardinality(Counted) \in index_t
      <3>1. /\ Cardinality(Counted') = Cardinality(Counted) - 1 /\ Cardinality(Counted) >= 1
            /\ Cardinality(Counted) \in Nat /\ Cardinality(Counted) <= Cardinality(Consumers)
        BY <2>0, Sizes
      <3> QED BY <3>1, Half
    <2>2. dequeueOptimisticCount = Plus(headIndex, Plus(dequeueOvercommit, Cardinality(Counted') + 1))
      BY Balanced, <1>0, <2>1 DEF WrapInv
    <2>3. dequeueOptimisticCount = Plus(headIndex, Plus(dequeueOvercommit', Cardinality(Counted')))
      BY <1>2, <2>1, <2>2, Facts, AddOne
    <2> QED BY <1>2, <2>3 DEF CountsBalance, Counted
  <1>6. ElementsForClaims' /\ RoomInBlock'
    BY <1>1, <1>2, <1>4 DEF WrapInv, ElementsForClaims, RoomInBlock, InQueue
  <1>7. ASSUME NEW d \in HaveOvercommit
        PROVE  d # c /\ Missed(d) \in Nat /\ Missed(d)' = Missed(d) + 1 /\ Missed(d) < MaxLag
    <2>1. d # c /\ d \in Consumers /\ loc'[d] = loc[d] /\ loc[d].overcommit \in index_t
      BY <1>0, <1>1, <1>2, <1>7 DEF HaveOvercommit, WordsOK
    <2>2. Missed(d) < MaxLag
      BY <1>7 DEF Overcommit, Missed
    <2>3. Missed(d) \in Nat
      <3>1. Missed(d) \in index_t
        BY <2>1, Facts, OneMore DEF Missed
      <3> QED BY <3>1, WordsAreNat
    <2>4. Minus(dequeueOvercommit, loc[d].overcommit) < IndexRange - 1
      BY <2>2, <2>3, Half DEF Missed
    <2> QED BY <1>2, <2>1, <2>2, <2>3, <2>4, Facts, OneMore DEF Missed
  <1>8. \A d \in Undecided : Age(d)' = Age(d) /\ loc'[d] = loc[d]
    BY <1>1, <1>2 DEF Age, Undecided
  <1>9. Fresh'
    <2>1. \A d \in HaveOvercommit' : Missed(d)' <= MaxLag
      BY <1>1, <1>7, Half
    <2> QED BY <1>1, <1>8, <2>1 DEF Fresh, WrapInv
  <1>10. ASSUME NEW d \in Undecided PROVE EnoughFor(d)'
    <2>1. NotAfter(d)' = NotAfter(d) /\ EnoughFor(d)
      BY <1>1, <1>8, <1>10 DEF NotAfter, WrapInv
    <2>2. /\ Age(d)' = Age(d) /\ Missed(d)' = Missed(d) + 1 /\ Age(d) \in Int /\ Missed(d) \in Nat
          /\ Cardinality(NotAfter(d)) \in Nat
      <3>1. MaxLag \in Nat /\ Age(d) \in 1 .. MaxLag + 1 /\ Cardinality(NotAfter(d)) \in Nat /\ d \in HaveOvercommit
        BY <1>10, Half, Facts
      <3> QED BY <1>7, <1>8, <1>10, <3>1
    <2> QED BY <1>1, <1>4, <2>1, <2>2, Facts DEF EnoughFor
  <1> QED BY <1>1, <1>3, <1>5, <1>6, <1>9, <1>10 DEF WrapInv

LEMMA ClaimStep ==
  ASSUME WrapInv, NEW c \in Consumers, Claim(c)
  PROVE  WrapInv'
  <1>0. WordsOK /\ c \in Claimers
    BY DEF WrapInv, Claim, Claimers
  <1>1. /\ Claimers' = Claimers \ {c} /\ Undecided' = Undecided /\ Overcommitters' = Overcommitters
        /\ c \notin Undecided /\ HaveOvercommit' = HaveOvercommit /\ c \notin HaveOvercommit
    <2>1. /\ c \notin Overcommitters /\ c \notin Undecided /\ c \notin HaveOvercommit
          /\ pc' = [pc EXCEPT ![c] = "idle"]
      BY DEF Claim, Return, Go, Overcommitters, Undecided, HaveOvercommit
    <2>2. /\ Claimers' = Claimers \ {c} /\ Undecided' = Undecided \ {c}
          /\ Overcommitters' = Overcommitters \ {c} /\ HaveOvercommit' = HaveOvercommit \ {c}
      BY <1>0, <2>1 DEF WordsOK, Claimers, Undecided, Overcommitters, HaveOvercommit
    <2> QED BY <2>1, <2>2
  <1>2. /\ \A d \in Consumers \ {c} : loc'[d] = loc[d]
        /\ headIndex' = Plus(headIndex, 1)
        /\ UNCHANGED <<tailIndex, dequeueOvercommit, dequeueOptimisticCount>>
    BY <1>0 DEF Claim, Return, Go, WordsOK
  <1>3. WordsOK'
    <2>1. headIndex' \in index_t
      BY <1>2, Facts, OneMore
    <2>2. 0 \in index_t
      BY Half
    <2> QED BY <1>0, <1>2, <2>1, <2>2 DEF Claim, Return, Go, WordsOK, NoLocals, Fields
  <1>4. /\ Cardinality(Claimers') = Cardinality(Claimers) - 1 /\ Cardinality(Claimers) >= 1
        /\ InQueue \in Nat /\ InQueue >= 1 /\ InQueue' = InQueue - 1
    <2>1. Cardinality(Claimers') = Cardinality(Claimers) - 1 /\ Cardinality(Claimers) >= 1
      BY <1>0, <1>1, Sizes, Facts
    <2>2. InQueue \in Nat
      BY Facts, WordsAreNat
    <2>3. InQueue > 0
      BY <2>1, <2>2, Facts
    <2>4. InQueue' = Minus(tailIndex, Plus(headIndex, 1)) /\ InQueue = Minus(tailIndex, headIndex)
      BY <1>2 DEF InQueue
    <2>5. InQueue' = InQueue - 1
      BY <2>3, <2>4, Facts, OneMore
    <2> QED BY <2>1, <2>2, <2>3, <2>5
  <1>5. CountsBalance'
    <2>0. Counted' = Counted \ {c} /\ c \in Counted /\ Counted \in SUBSET Consumers
      <3>1. c \notin Overcommitters
        BY <1>0 DEF Overcommitters, Claimers
      <3> QED BY <1>0, <1>1, <3>1, Facts DEF Counted
    <2>1. /\ Cardinality(Counted) = Cardinality(Counted') + 1 /\ Cardinality(Counted') \in index_t
          /\ Cardinality(Counted) \in index_t
      <3>1. /\ Cardinality(Counted') = Cardinality(Counted) - 1 /\ Cardinality(Counted) >= 1
            /\ Cardinality(Counted) \in Nat /\ Cardinality(Counted) <= Cardinality(Consumers)
        BY <2>0, Sizes
      <3> QED BY <3>1, Half
    <2>2. dequeueOptimisticCount = Plus(headIndex, Plus(dequeueOvercommit, Cardinality(Counted') + 1))
      BY Balanced, <1>0, <2>1 DEF WrapInv
    <2>3. dequeueOptimisticCount = Plus(headIndex', Plus(dequeueOvercommit, Cardinality(Counted')))
      BY <1>2, <2>1, <2>2, Facts, AddOne
    <2> QED BY <1>2, <2>3 DEF CountsBalance, Counted
  <1>6. ElementsForClaims' /\ RoomInBlock'
    <2>1. tailIndex % BLOCK_SIZE \in Nat /\ BLOCK_SIZE \in Nat /\ IndexRange \div 2 \in Nat
      BY Facts, InBlock, Half, Halves
    <2>2. RoomInBlock'
      BY <1>2, <1>4, <2>1 DEF WrapInv, RoomInBlock
    <2>3. ElementsForClaims'
      BY <1>4, <2>1, Facts DEF ElementsForClaims, InQueue
    <2> QED BY <2>2, <2>3
  <1>7. /\ \A d \in Undecided : Age(d)' = Age(d) /\ loc'[d] = loc[d]
        /\ \A d \in HaveOvercommit : Missed(d)' = Missed(d)
    BY <1>1, <1>2 DEF Age, Missed, Undecided, HaveOvercommit
  <1>8. Fresh'
    BY <1>1, <1>7 DEF Fresh, WrapInv
  <1>9. ASSUME NEW d \in Undecided PROVE EnoughFor(d)'
    <2>1. NotAfter(d)' = NotAfter(d) /\ EnoughFor(d)
      BY <1>1, <1>7, <1>9 DEF NotAfter, WrapInv
    <2>2. Age(d)' = Age(d) /\ Missed(d)' = Missed(d) /\ Cardinality(NotAfter(d)) \in Nat
      BY <1>7, <1>9, Facts
    <2> QED BY <1>1, <1>4, <2>1, <2>2, Facts DEF EnoughFor
  <1> QED BY <1>1, <1>3, <1>5, <1>6, <1>8, <1>9 DEF WrapInv

LEMMA DequeueStep ==
  ASSUME WrapInv, NEW c \in Consumers, Dequeue(c)
  PROVE  WrapInv'
  <1>0. /\ WordsOK /\ DOMAIN loc = Consumers /\ DOMAIN pc = Consumers /\ DOMAIN loc[c] = Fields
        /\ loc[c].overcommit \in index_t /\ loc[c].myDequeueCount \in index_t
        /\ dequeueOvercommit \in index_t /\ 0 \in index_t
    BY Half, CircularCountersAssumption DEF WrapInv, WordsOK
  <1>1. CASE LoadTail(c)
    <2>1. /\ DOMAIN loc' = Consumers /\ \A d \in Consumers \ {c} : loc'[d] = loc[d]
          /\ DOMAIN loc'[c] = Fields /\ loc'[c].overcommit = loc[c].overcommit
          /\ loc'[c].myDequeueCount = loc[c].myDequeueCount
      BY <1>0, <1>1 DEF LoadTail, Fields
    <2> QED BY <1>0, <1>1, <2>1, ConsumerAside DEF LoadTail, Go
  <1>2. CASE LoadOvercommit(c)
    <2>1. /\ DOMAIN loc' = Consumers /\ \A d \in Consumers \ {c} : loc'[d] = loc[d]
          /\ DOMAIN loc'[c] = Fields /\ loc'[c].overcommit = dequeueOvercommit
          /\ loc'[c].myDequeueCount = loc[c].myDequeueCount
      BY <1>0, <1>2 DEF LoadOvercommit, Fields
    <2>2. Missed(c)' = 0
      BY <1>0, <1>2, <2>1, OneMore DEF Missed, LoadOvercommit, counters
    <2>3. Missed(c)' <= MaxLag
      BY <2>2, Half
    <2> QED BY <1>0, <1>2, <2>1, <2>3, ConsumerAside DEF LoadOvercommit, Go
  <1>3. CASE LoadCount(c)
    <2>1. UNCHANGED counters /\ pc[c] = "load_count" /\ c \in HaveOvercommit
      BY <1>3 DEF LoadCount, HaveOvercommit
    <2>2. CASE pc' = [pc EXCEPT ![c] = "count"] /\ loc' = [loc EXCEPT ![c].tail = 0]
      <3>1. /\ DOMAIN loc' = Consumers /\ \A d \in Consumers \ {c} : loc'[d] = loc[d]
            /\ DOMAIN loc'[c] = Fields /\ loc'[c].overcommit = loc[c].overcommit
            /\ loc'[c].myDequeueCount = loc[c].myDequeueCount
        BY <1>0, <2>2 DEF Fields
      <3>2. Missed(c)' = Missed(c) /\ Missed(c) <= MaxLag
        BY <2>1, <3>1 DEF Missed, counters, WrapInv, Fresh
      <3> QED BY <1>0, <2>1, <2>2, <3>1, <3>2, ConsumerAside
    <2>3. CASE Return(c)
      <3>1. /\ DOMAIN loc' = Consumers /\ \A d \in Consumers \ {c} : loc'[d] = loc[d]
            /\ DOMAIN loc'[c] = Fields
            /\ loc'[c].overcommit = 0 /\ loc'[c].myDequeueCount = 0
        BY <1>0, <2>3 DEF Return, NoLocals, Fields
      <3>2. pc' = [pc EXCEPT ![c] = "idle"]
        BY <2>3 DEF Return, Go
      <3> QED BY <1>0, <2>1, <3>1, <3>2, ConsumerAside
    <2> QED BY <1>3, <2>2, <2>3 DEF LoadCount, Go
  <1> QED BY <1>1, <1>2, <1>3, CountStep, ReloadStep, OvercommitStep, ClaimStep DEF Dequeue

LEMMA NextWrapInv == WrapInv /\ [Next]_vars => WrapInv'
  <1> SUFFICES ASSUME WrapInv, [Next]_vars PROVE WrapInv'
    OBVIOUS
  <1>1. CASE UNCHANGED vars
    <2>1. UNCHANGED <<tailIndex, headIndex, dequeueOptimisticCount, dequeueOvercommit, pc, loc>>
      BY <1>1 DEF vars, counters
    <2> QED BY <2>1 DEF WrapInv, WordsOK, CountsBalance, ElementsForClaims, RoomInBlock, Fresh,
                        EnoughFor, InQueue, Claimers, Overcommitters, Undecided, HaveOvercommit,
                        NotAfter, Age, Missed
  <1> QED BY <1>1, EnqueueStep, DequeueStep DEF Next

(* However often the counters have wrapped around, there is an element for *)
(* every consumer that is about to claim one, and no more are in the queue *)
(* than a comparison can tell from less: for any number of consumers, any  *)
(* width of the counters and any block size that divides its half.         *)
THEOREM ElementsAreThere == Spec => []ElementsForClaims
  <1>1. WrapInv => ElementsForClaims
    BY DEF WrapInv
  <1> QED BY <1>1, InitWrapInv, NextWrapInv, PTL DEF Spec

(* No count of dequeueOptimisticCount is forgotten, or taken back twice.   *)
THEOREM CountsAreBalanced == Spec => []CountsBalance
  <1>1. WrapInv => CountsBalance
    BY DEF WrapInv
  <1> QED BY <1>1, InitWrapInv, NextWrapInv, PTL DEF Spec

----------------------------------------------------------------------------
(* One consumer, as each ring of the program has. *)

OneConsumer == \A c, d \in Consumers : c = d

\* The queue holds less than half of all indices, also when its block is full.
RoomToTell ==
  /\ InQueue < IndexRange \div 2
  /\ tailIndex % BLOCK_SIZE # 0 =>
       InQueue + (BLOCK_SIZE - (tailIndex % BLOCK_SIZE)) < IndexRange \div 2

\* What the consumer has loaded is as it is, but for the tail, which may have
\* moved on; and it goes on only if there is an element.
SoleOK(c) ==
  /\ pc[c] # "overcommit"
  /\ pc[c] \in {"load_overcommit", "load_count"} =>
       loc[c].tail \in index_t /\ Minus(loc[c].tail, headIndex) <= InQueue
  /\ pc[c] \in {"load_count", "count", "reload_tail"} => loc[c].overcommit = dequeueOvercommit
  /\ pc[c] = "reload_tail" => loc[c].myDequeueCount = Plus(headIndex, dequeueOvercommit)
  /\ pc[c] \in {"count", "reload_tail"} => InQueue > 0

SoleInv == WrapInv /\ RoomToTell /\ \A c \in Consumers : SoleOK(c)

\* What is added can be taken off again, around the end of the indices.
LEMMA ThereAndBack ==
  ASSUME NEW a \in index_t, NEW b \in index_t
  PROVE  Minus(Plus(a, b), b) = a /\ Plus(b, 0) = b
  <1>1. index_t = 0 .. IndexRange - 1 /\ IndexRange \in Nat /\ 0 \in index_t
    BY Half, CircularCountersAssumption
  <1>2. Plus(a, b) = (IF a + b < IndexRange THEN a + b ELSE a + b - IndexRange) /\ Plus(a, b) \in index_t
    BY <1>1, Words
  <1>3. Minus(Plus(a, b), b) =
          IF Plus(a, b) < b THEN Plus(a, b) - b + IndexRange ELSE Plus(a, b) - b
    BY <1>2, Words
  <1>4. Plus(b, 0) = IF b + 0 < IndexRange THEN b + 0 ELSE b + 0 - IndexRange
    BY <1>1, Words
  <1>5. Minus(Plus(a, b), b) = a
    BY <1>1, <1>2, <1>3
  <1> QED BY <1>1, <1>4, <1>5

\* Of two words less than half of all indices apart, the comparison tells the
\* first from the second.
LEMMA ComparisonTells ==
  ASSUME NEW a \in index_t, NEW b \in index_t, Minus(b, a) < IndexRange \div 2
  PROVE  /\ circular_less_than(a, b) <=> a # b
         /\ Minus(b, a) > 0 <=> a # b
  <1> DEFINE H == IndexRange \div 2
  <1>1. H \in Nat /\ IndexRange = 2 * H /\ index_t = 0 .. IndexRange - 1
    BY Half
  <1>2. /\ Minus(b, a) = IF b < a THEN b - a + IndexRange ELSE b - a
        /\ Minus(a, b) = IF a < b THEN a - b + IndexRange ELSE a - b
    BY Words
  <1>3. circular_less_than(a, b) <=> Minus(a, b) > H
    BY DEF circular_less_than
  <1> HIDE DEF H
  <1>4. Minus(b, a) < H
    BY DEF H
  <1> QED BY <1>1, <1>2, <1>3, <1>4

\* While the consumer is not counted, the counters tell where the head is.
LEMMA CountTellsHead ==
  ASSUME OneConsumer, WrapInv, NEW c \in Consumers, pc[c] \in {"load_count", "count"}
  PROVE  /\ dequeueOptimisticCount = Plus(headIndex, dequeueOvercommit)
         /\ Minus(dequeueOptimisticCount, dequeueOvercommit) = headIndex
  <1>1. Claimers \cup Overcommitters \cup Undecided = {}
    BY DEF OneConsumer, Claimers, Overcommitters, Undecided
  <1>2. Cardinality(Claimers \cup Overcommitters \cup Undecided) = 0
    BY <1>1, FS_EmptySet
  <1>3. dequeueOptimisticCount = Plus(headIndex, Plus(dequeueOvercommit, 0))
    BY <1>2 DEF WrapInv, CountsBalance
  <1> QED BY <1>3, Facts, ThereAndBack

LEMMA EnqueueLeavesRoom ==
  ASSUME WrapInv, RoomToTell, Enqueue
  PROVE  RoomToTell' /\ InQueue' = InQueue + 1 /\ InQueue \in Nat
  <1> DEFINE H == IndexRange \div 2  r == tailIndex % BLOCK_SIZE
  <1>0. /\ tailIndex \in index_t /\ headIndex \in index_t
        /\ tailIndex' = Plus(tailIndex, 1) /\ InQueue < H /\ headIndex' = headIndex
        /\ r # 0 => InQueue + (BLOCK_SIZE - r) < H
    BY DEF WrapInv, WordsOK, Enqueue, RoomToTell
  <1>1. H \in Nat /\ IndexRange = 2 * H /\ index_t = 0 .. IndexRange - 1 /\ H >= 1 /\ BLOCK_SIZE \in 1 .. H
    BY Half, Halves
  <1>2. InQueue = Minus(tailIndex, headIndex) /\ InQueue \in index_t
    BY <1>0, OneMore DEF InQueue
  <1>3. /\ r \in 0 .. BLOCK_SIZE - 1
        /\ tailIndex' % BLOCK_SIZE = IF r = BLOCK_SIZE - 1 THEN 0 ELSE r + 1
    BY <1>0, InBlock
  <1>4. ASSUME r = 0 PROVE InQueue + BLOCK_SIZE < H
    <2> DEFINE end == Plus(tailIndex, BLOCK_SIZE)  left == Minus(headIndex, end)
    <2>1. BLOCK_SIZE \in index_t
      BY <1>1
    <2>2. end \in index_t /\ IsPlus(end, tailIndex, BLOCK_SIZE) /\ IsMinus(InQueue, tailIndex, headIndex)
      BY <1>0, <1>2, <2>1, WordsWrap
    <2>3. left \in index_t /\ IsMinus(left, headIndex, end) /\ left > H
      <3>1. left > H
        BY <1>0, <1>4 DEF Enqueue, circular_less_than
      <3> QED BY <1>0, <2>2, <3>1, WordsWrap
    <2> HIDE DEF H, end, left
    <2> QED BY <1>0, <1>1, <1>2, <2>2, <2>3 DEF IsPlus, IsMinus
  <1>5. InQueue + (BLOCK_SIZE - r) < H /\ InQueue + 1 < H
    <2> HIDE DEF H, r
    <2>1. InQueue + (BLOCK_SIZE - r) < H
      BY <1>0, <1>1, <1>2, <1>3, <1>4
    <2> QED BY <1>1, <1>2, <1>3, <2>1
  <1>6. InQueue' = InQueue + 1
    <2>1. InQueue' = Minus(Plus(tailIndex, 1), headIndex)
      BY <1>0 DEF InQueue
    <2>2. Minus(tailIndex, headIndex) < IndexRange - 1
      BY <1>1, <1>2, <1>5
    <2> QED BY <1>0, <1>2, <2>1, <2>2, OneMore
  <1>7. RoomToTell'
    <2> HIDE DEF H
    <2>1. InQueue' < H
      BY <1>5, <1>6
    <2>2. tailIndex' % BLOCK_SIZE # 0 => InQueue' + (BLOCK_SIZE - (tailIndex' % BLOCK_SIZE)) < H
      BY <1>1, <1>2, <1>3, <1>5, <1>6
    <2> QED BY <2>1, <2>2 DEF RoomToTell, H
  <1> QED BY <1>1, <1>2, <1>6, <1>7

LEMMA SoleInit == Init => SoleInv
  <1> SUFFICES ASSUME Init PROVE SoleInv
    OBVIOUS
  <1>1. WrapInv
    BY InitWrapInv
  <1>2. InQueue = 0 /\ 0 \in index_t
    <2>1. 0 \in index_t
      BY Half
    <2> QED BY <2>1, OneMore DEF Init, InQueue
  <1>3. tailIndex % BLOCK_SIZE = 0
    <2>1. BLOCK_SIZE \in Nat \ {0} /\ 0 = BLOCK_SIZE * 0 + 0
      BY CircularCountersAssumption
    <2> QED BY <2>1, Unique DEF Init
  <1>4. RoomToTell
    BY <1>2, <1>3, Half DEF RoomToTell
  <1> QED BY <1>1, <1>4 DEF SoleInv, SoleOK, Init

\* A step of the consumer keeps what is said of it.
LEMMA SoleSteps ==
  ASSUME OneConsumer, SoleInv, NEW c \in Consumers, Dequeue(c)
  PROVE  /\ RoomToTell' /\ SoleOK(c)'
         /\ pc'[c] = "idle" => \/ headIndex' # headIndex
                               \/ pc[c] = "load_count" /\ loc[c].tail = headIndex
  <1> DEFINE Told == pc'[c] = "idle" => \/ headIndex' # headIndex
                                        \/ pc[c] = "load_count" /\ loc[c].tail = headIndex
  <1>0. /\ WrapInv /\ RoomToTell /\ SoleOK(c) /\ DOMAIN pc = Consumers /\ DOMAIN loc = Consumers
        /\ DOMAIN loc[c] = Fields
        /\ tailIndex \in index_t /\ headIndex \in index_t
        /\ dequeueOptimisticCount \in index_t /\ dequeueOvercommit \in index_t
        /\ InQueue = Minus(tailIndex, headIndex) /\ InQueue \in Nat
    <2>1. InQueue \in index_t
      BY Facts DEF SoleInv
    <2> QED BY <2>1, WordsAreNat DEF SoleInv, WrapInv, WordsOK, InQueue
  <1>1. ASSUME UNCHANGED counters PROVE RoomToTell' /\ InQueue' = InQueue /\ headIndex' = headIndex
    BY <1>0, <1>1 DEF counters, RoomToTell, InQueue
  <1>2. CASE LoadTail(c)
    <2>1. pc'[c] = "load_overcommit" /\ loc'[c].tail = tailIndex /\ UNCHANGED counters
      BY <1>0, <1>2 DEF LoadTail, Go, Fields
    <2>2. Minus(loc'[c].tail, headIndex') <= InQueue'
      BY <1>0, <1>1, <2>1
    <2> QED BY <1>0, <1>1, <2>1, <2>2 DEF SoleOK
  <1>3. CASE LoadOvercommit(c)
    <2>1. /\ pc[c] = "load_overcommit" /\ pc'[c] = "load_count" /\ loc'[c].tail = loc[c].tail
          /\ loc'[c].overcommit = dequeueOvercommit /\ UNCHANGED counters
      BY <1>0, <1>3 DEF LoadOvercommit, Go, Fields
    <2>2. dequeueOvercommit' = dequeueOvercommit
      BY <2>1 DEF counters
    <2> QED BY <1>0, <1>1, <2>1, <2>2 DEF SoleOK
  <1>4. CASE LoadCount(c)
    <2> DEFINE t == loc[c].tail
               found == circular_less_than(Minus(dequeueOptimisticCount, loc[c].overcommit), t)
    <2>1. /\ pc[c] = "load_count" /\ UNCHANGED counters /\ t \in index_t
          /\ Minus(t, headIndex) <= InQueue /\ loc[c].overcommit = dequeueOvercommit
      BY <1>0, <1>4 DEF LoadCount, SoleOK
    <2>2. Minus(dequeueOptimisticCount, loc[c].overcommit) = headIndex
      BY <1>0, <2>1, CountTellsHead
    <2>3. Minus(t, headIndex) \in Nat /\ Minus(t, headIndex) < IndexRange \div 2
      <3>1. Minus(t, headIndex) \in index_t
        BY <1>0, <2>1, OneMore
      <3>2. Minus(t, headIndex) \in Nat /\ InQueue < IndexRange \div 2 /\ IndexRange \div 2 \in Nat
        BY <1>0, <3>1, WordsAreNat, Half DEF RoomToTell
      <3> QED BY <1>0, <2>1, <3>2
    <2>4. (found <=> headIndex # t) /\ (Minus(t, headIndex) > 0 <=> headIndex # t)
      BY <1>0, <2>1, <2>2, <2>3, ComparisonTells
    <2>5. /\ found => pc' = [pc EXCEPT ![c] = "count"] /\ loc' = [loc EXCEPT ![c].tail = 0]
          /\ ~ found => pc' = [pc EXCEPT ![c] = "idle"]
      BY <1>4 DEF LoadCount, Return, Go
    <2>6. dequeueOvercommit' = dequeueOvercommit
      BY <2>1 DEF counters
    <2> HIDE DEF found
    <2>7. CASE found
      <3>1. pc'[c] = "count" /\ loc'[c].overcommit = loc[c].overcommit
        BY <1>0, <2>5, <2>7 DEF Fields
      <3>2. InQueue' > 0
        BY <1>0, <1>1, <2>1, <2>3, <2>4, <2>7
      <3> QED BY <1>1, <2>1, <2>6, <3>1, <3>2 DEF SoleOK
    <2>8. CASE ~ found
      <3>1. pc'[c] = "idle" /\ t = headIndex
        BY <1>0, <2>4, <2>5, <2>8
      <3> QED BY <1>1, <2>1, <3>1 DEF SoleOK
    <2> QED BY <2>7, <2>8
  <1>5. CASE Count(c)
    <2>1. /\ pc[c] = "count" /\ pc'[c] = "reload_tail"
          /\ loc'[c].myDequeueCount = dequeueOptimisticCount /\ loc'[c].overcommit = loc[c].overcommit
          /\ UNCHANGED <<tailIndex, headIndex, dequeueOvercommit>>
      BY <1>0, <1>5 DEF Count, Go, Fields
    <2>2. dequeueOptimisticCount = Plus(headIndex, dequeueOvercommit)
      BY <1>0, <2>1, CountTellsHead
    <2>3. RoomToTell' /\ InQueue' = InQueue
      BY <1>0, <2>1 DEF RoomToTell, InQueue
    <2> QED BY <1>0, <2>1, <2>2, <2>3 DEF SoleOK
  <1>6. CASE ReloadTail(c)
    <2>1. /\ pc[c] = "reload_tail" /\ UNCHANGED counters /\ InQueue > 0
          /\ loc[c].overcommit = dequeueOvercommit
          /\ loc[c].myDequeueCount = Plus(headIndex, dequeueOvercommit)
      BY <1>0, <1>6 DEF ReloadTail, SoleOK
    <2>2. Minus(loc[c].myDequeueCount, loc[c].overcommit) = headIndex
      BY <1>0, <2>1, ThereAndBack
    <2>3. circular_less_than(headIndex, tailIndex)
      BY <1>0, <2>1, ComparisonTells DEF RoomToTell
    <2>4. pc'[c] = "claim"
      BY <1>0, <1>6, <2>2, <2>3 DEF ReloadTail, Go
    <2> QED BY <1>1, <2>1, <2>4 DEF SoleOK
  <1>7. CASE Overcommit(c)
    BY <1>0, <1>7 DEF Overcommit, SoleOK
  <1>8. CASE Claim(c)
    <2>1. /\ pc'[c] = "idle" /\ headIndex' = Plus(headIndex, 1) /\ tailIndex' = tailIndex
          /\ c \in Claimers
      BY <1>0, <1>8 DEF Claim, Return, Go, Claimers
    <2>2. InQueue > 0
      <3>1. Cardinality(Claimers) >= 1 /\ Cardinality(Claimers) \in Nat /\ Cardinality(Claimers) <= InQueue
        BY <1>0, <2>1, Sizes, Facts
      <3> QED BY <1>0, <3>1
    <2>3. headIndex' # headIndex
      <3>1. Minus(Plus(headIndex, 1), headIndex) = 1 /\ Minus(headIndex, headIndex) = 0
        BY <1>0, OneMore
      <3> QED BY <2>1, <3>1
    <2>4. InQueue' = InQueue - 1
      <3>1. InQueue' = Minus(tailIndex, Plus(headIndex, 1))
        BY <2>1 DEF InQueue
      <3>2. Minus(tailIndex, headIndex) > 0
        BY <1>0, <2>2
      <3> QED BY <1>0, <3>1, <3>2, OneMore
    <2>5. RoomToTell'
      <3>1. tailIndex % BLOCK_SIZE \in Int /\ BLOCK_SIZE \in Int /\ IndexRange \div 2 \in Nat
        BY <1>0, InBlock, Half, Halves
      <3> QED BY <1>0, <2>1, <2>2, <2>4, <3>1 DEF RoomToTell
    <2> QED BY <2>1, <2>3, <2>5 DEF SoleOK
  <1> QED BY <1>2, <1>3, <1>4, <1>5, <1>6, <1>7, <1>8 DEF Dequeue

\* What a step of the only consumer may not do.
ToldRight(c) ==
  (pc[c] # "idle" /\ pc'[c] = "idle" /\ headIndex' = headIndex) =>
    (pc[c] = "load_count" /\ loc[c].tail = headIndex)

LEMMA SoleNext ==
  ASSUME OneConsumer, SoleInv, [Next]_vars
  PROVE  SoleInv' /\ \A c \in Consumers : ToldRight(c)
  <1>0. WrapInv' /\ WrapInv /\ RoomToTell
    BY NextWrapInv DEF SoleInv
  <1>1. CASE Enqueue
    <2>1. UNCHANGED <<headIndex, dequeueOptimisticCount, dequeueOvercommit, pc, loc>>
      BY <1>1 DEF Enqueue
    <2>2. RoomToTell' /\ InQueue' = InQueue + 1 /\ InQueue \in Nat
      BY <1>0, <1>1, EnqueueLeavesRoom
    <2>3. ASSUME NEW c \in Consumers PROVE SoleOK(c)' /\ ToldRight(c)
      <3>1. SoleOK(c)
        BY DEF SoleInv
      <3>2. pc[c] \in {"load_overcommit", "load_count"} => Minus(loc[c].tail, headIndex) \in Int
        <4>1. ASSUME pc[c] \in {"load_overcommit", "load_count"} PROVE Minus(loc[c].tail, headIndex) \in Nat
          BY <1>0, <3>1, <4>1, Facts, OneMore, WordsAreNat DEF SoleOK
        <4> QED BY <4>1
      <3> QED BY <2>1, <2>2, <3>1, <3>2 DEF SoleOK, ToldRight
    <2> QED BY <1>0, <2>2, <2>3 DEF SoleInv
  <1>2. ASSUME NEW c \in Consumers, Dequeue(c) PROVE SoleInv' /\ \A d \in Consumers : ToldRight(d)
    <2>1. \A d \in Consumers : d = c
      BY DEF OneConsumer
    <2>2. RoomToTell' /\ SoleOK(c)' /\ ToldRight(c)
      BY <1>2, SoleSteps DEF ToldRight
    <2> QED BY <1>0, <2>1, <2>2 DEF SoleInv
  <1>3. CASE UNCHANGED vars
    <2>1. UNCHANGED <<tailIndex, headIndex, dequeueOvercommit, pc, loc>>
      BY <1>3 DEF vars, counters
    <2> QED BY <1>0, <2>1 DEF SoleInv, SoleOK, RoomToTell, InQueue, ToldRight
  <1> QED BY <1>1, <1>2, <1>3 DEF Next

(* The only consumer of a sub-queue is never told that there is nothing    *)
(* when there was something as it began to look, however often the         *)
(* counters have wrapped around and whatever is enqueued meanwhile.        *)
THEOREM SoleConsumerIsToldRight == ASSUME OneConsumer PROVE Spec => FalseMeansEmpty
  <1>1. SoleInv /\ [Next]_vars => SoleInv' /\ [\A c \in Consumers : ToldRight(c)]_vars
    BY SoleNext
  <1>2. [\A c \in Consumers : ToldRight(c)]_vars <=>
        [\A c \in Consumers :
           (pc[c] # "idle" /\ pc'[c] = "idle" /\ headIndex' = headIndex) =>
             (pc[c] = "load_count" /\ loc[c].tail = headIndex)]_vars
    BY DEF ToldRight
  <1> QED BY <1>1, <1>2, SoleInit, PTL DEF Spec, FalseMeansEmpty

(* The same in the composition.                                            *)
LEMMA CountersRunAlone ==
  QueueSpec => Spec
  <1>1. QueueInit => Init
    BY DEF QueueInit
  <1>2. [QueueNext]_allVars => [Next]_vars
    BY DEF QueueNext, FreeListRuns, HashRuns, ScanRuns, CountersRun, allVars
  <1> QED BY <1>1, <1>2, PTL DEF QueueSpec, Spec

(* The same, in the composition that the runs check.                       *)
THEOREM ElementsStayThere == QueueSpec => []ElementsForClaims
  BY CountersRunAlone, ElementsAreThere, PTL

(* The same, in the composition that the runs check.                       *)
THEOREM CountsStayBalanced == QueueSpec => []CountsBalance
  BY CountersRunAlone, CountsAreBalanced, PTL

(* The same, in the composition that the runs check.                       *)
THEOREM SoleConsumerStaysTold == ASSUME OneConsumer PROVE QueueSpec => FalseMeansEmpty
  BY CountersRunAlone, SoleConsumerIsToldRight, PTL
=============================================================================
