----------------------- MODULE ImplicitProducerProofs -----------------------
(***************************************************************************)
(* Why the consumers of a sub-queue never overtake its producer, find the  *)
(* block of the index they claimed, lose no block, and see a FIFO queue,   *)
(* for any number of consumers and blocks.                                 *)
(*                                                                         *)
(* The counts (CountInv).  A consumer counts itself in                     *)
(* dequeueOptimisticCount before it looks at tailIndex again, so all who   *)
(* may still claim an index are counted; one who finds that it came too    *)
(* late takes its count back through dequeueOvercommit, and who reads that *)
(* counter early only sees less of it than there is.                       *)
(*                                                                         *)
(* The blocks (IndexInv).  A block with an element not yet dequeued has    *)
(* fewer counted than it has room for, so it keeps its entry.  Entries go  *)
(* round the circle in the order of their keys, and the producer uses only *)
(* the oldest again, if its block is gone: so while a block is there, the  *)
(* entries of all later blocks keep their keys.  Whoever counts back from  *)
(* one of them, in whatever header, comes to the entry of that block.      *)
(*                                                                         *)
(* The elements (ContentInv).  An element that somebody will look for is   *)
(* in its slot: it gets there before its index is published, only the one  *)
(* consumer with that index moves it out, and as its block keeps its entry *)
(* nothing is constructed over it.  So what is between headIndex and       *)
(* tailIndex is the queue, and a claim takes its head.                     *)
(*                                                                         *)
(* The calls that fail (SpareInv).  While a consumer has spare elements,   *)
(* those who look together with it cannot use up what it has read to be    *)
(* there, whatever it read early: so it goes on, and claims one.           *)
(***************************************************************************)
EXTENDS ImplicitProducer, FiniteSetTheorems, SequenceTheorems, TLAPS

Claiming == {c \in Consumers : pc[c] = "claim"}     \* found an element, and claim it next

Undecided == {c \in Consumers : pc[c] = "reload_tail"}   \* counted, and look again next

TooLate == {c \in Consumers : pc[c] = "overcommit"}  \* take their count back next

\* The undecided who counted themselves no later than c.
UpTo(c) == {d \in Undecided : loc[d].myDequeueCount <= loc[c].myDequeueCount}

\* The indices below this one are claimed, or will be in the next step of
\* a consumer that can no longer turn back.
Promised == headIndex + Cardinality(Claiming)

\* The local variables of a consumer.
Fields == {"tail", "overcommit", "myDequeueCount", "index", "header", "indexTail",
           "entry", "block", "element"}

CountersOK ==
  /\ tailIndex \in Nat /\ headIndex \in Nat
  /\ dequeueOptimisticCount \in Nat /\ dequeueOvercommit \in Nat
  /\ DOMAIN pc = Consumers /\ DOMAIN loc = Consumers
  /\ \A c \in Consumers :
       /\ DOMAIN loc[c] = Fields
       /\ loc[c].overcommit \in Nat /\ loc[c].myDequeueCount \in Nat

\* Everyone who has counted itself has claimed, will, is too late or was.
AllCounted ==
  dequeueOptimisticCount =
    Promised + dequeueOvercommit + Cardinality(Undecided) + Cardinality(TooLate)

\* What a consumer has read of dequeueOvercommit is no more than there is.
ReadsBehind ==
  \A c \in Consumers : pc[c] \in {"load_count", "count", "reload_tail"} =>
    loc[c].overcommit <= dequeueOvercommit

\* The undecided have counted themselves already.
CountsBehind == \A c \in Undecided : loc[c].myDequeueCount < dequeueOptimisticCount

\* If c finds an element, then there is one for c and for everyone who
\* counted itself before c and may still find one.
RoomUpTo(c) ==
  LET needed == Promised + Cardinality(UpTo(c)) IN
  \/ needed <= tailIndex
  \/ needed <= loc[c].myDequeueCount - loc[c].overcommit + 1

CountInv ==
  /\ CountersOK
  /\ AllCounted
  /\ ReadsBehind
  /\ CountsBehind
  /\ Promised <= tailIndex
  /\ \A c \in Undecided : RoomUpTo(c)

----------------------------------------------------------------------------
(* Sets of consumers and their sizes. *)

LEMMA Sizes ==
  ASSUME NEW S \in SUBSET Consumers
  PROVE  /\ IsFiniteSet(S) /\ Cardinality(S) \in Nat
         /\ \A c \in S : Cardinality(S \ {c}) = Cardinality(S) - 1
         /\ \A c \in Consumers \ S : Cardinality(S \cup {c}) = Cardinality(S) + 1
         /\ \A R \in SUBSET S : Cardinality(R) <= Cardinality(S)
  <1>1. IsFiniteSet(S)
    BY ImplicitProducerAssumption, FS_Subset
  <1> QED BY <1>1, FS_CardinalityType, FS_AddElement, FS_RemoveElement, FS_Subset

LEMMA CountTypes ==
  ASSUME CountersOK
  PROVE  /\ Claiming \in SUBSET Consumers /\ Undecided \in SUBSET Consumers
         /\ TooLate \in SUBSET Consumers
         /\ \A c \in Consumers : UpTo(c) \in SUBSET Consumers
         /\ Promised \in Nat
  <1>1. /\ Claiming \in SUBSET Consumers /\ Undecided \in SUBSET Consumers
        /\ TooLate \in SUBSET Consumers
        /\ \A c \in Consumers : UpTo(c) \in SUBSET Consumers
    BY DEF Claiming, Undecided, TooLate, UpTo
  <1> QED BY <1>1, Sizes DEF CountersOK, Promised

\* Where consumers stand when one of them, c, moves.
LEMMA OneMoves ==
  ASSUME CountersOK, NEW c \in Consumers, NEW w, pc' = [pc EXCEPT ![c] = w]
  PROVE  /\ Claiming' = IF w = "claim" THEN Claiming \cup {c} ELSE Claiming \ {c}
         /\ Undecided' = IF w = "reload_tail" THEN Undecided \cup {c} ELSE Undecided \ {c}
         /\ TooLate' = IF w = "overcommit" THEN TooLate \cup {c} ELSE TooLate \ {c}
  BY DEF CountersOK, Claiming, Undecided, TooLate

LEMMA InitCountInv == Init => CountInv
  <1> SUFFICES ASSUME Init PROVE CountInv
    OBVIOUS
  <1>1. Claiming = {} /\ Undecided = {} /\ TooLate = {}
    BY DEF Init, Claiming, Undecided, TooLate
  <1>2. Promised = 0
    BY <1>1, FS_EmptySet DEF Init, Promised
  <1>3. CountersOK
    BY DEF Init, CountersOK, NoLocals, Fields
  <1>4. ReadsBehind
    BY DEF Init, ReadsBehind
  <1> QED BY <1>1, <1>2, <1>3, <1>4, FS_EmptySet
          DEF Init, CountInv, AllCounted, CountsBehind

----------------------------------------------------------------------------
(* The steps. *)

\* A step that nobody counted takes: no one becomes counted, and tailIndex
\* may grow.
LEMMA AsideStep ==
  ASSUME CountInv, CountersOK', ReadsBehind',
         UNCHANGED <<headIndex, dequeueOptimisticCount, dequeueOvercommit>>,
         tailIndex' >= tailIndex,
         Claiming' = Claiming, Undecided' = Undecided, TooLate' = TooLate,
         \A c \in Undecided : loc'[c] = loc[c]
  PROVE  CountInv'
  <1>0. Promised \in Nat /\ \A c \in Consumers : UpTo(c) \in SUBSET Consumers
    BY CountTypes DEF CountInv
  <1>1. Promised' = Promised
    BY DEF Promised
  <1>2. AllCounted' /\ CountsBehind'
    BY <1>1 DEF CountInv, AllCounted, CountsBehind
  <1>3. Promised' <= tailIndex'
    BY <1>0, <1>1 DEF CountInv, CountersOK
  <1>4. ASSUME NEW c \in Undecided PROVE RoomUpTo(c)'
    <2>1. UpTo(c)' = UpTo(c)
      BY <1>4 DEF UpTo
    <2>2. c \in Consumers /\ Cardinality(UpTo(c)) \in Nat
      BY <1>0, <1>4, Sizes DEF Undecided
    <2>3. loc'[c] = loc[c] /\ RoomUpTo(c)
      BY <1>4 DEF CountInv
    <2> QED BY <1>0, <1>1, <2>1, <2>2, <2>3 DEF RoomUpTo, CountersOK, CountInv
  <1> QED BY <1>2, <1>3, <1>4 DEF CountInv

\* A step of consumer c to w in which no counter changes, and c is counted
\* neither before nor after it.
LEMMA ConsumerAside ==
  ASSUME CountInv, NEW c \in Consumers, NEW w, UNCHANGED counters, pc' = [pc EXCEPT ![c] = w],
         pc[c] \notin {"claim", "reload_tail", "overcommit"},
         w \notin {"claim", "reload_tail", "overcommit"},
         DOMAIN loc' = Consumers, \A d \in Consumers \ {c} : loc'[d] = loc[d],
         DOMAIN loc'[c] = Fields, loc'[c].overcommit \in Nat, loc'[c].myDequeueCount \in Nat,
         w \in {"load_count", "count"} => loc'[c].overcommit <= dequeueOvercommit
  PROVE  CountInv'
  <1> USE DEF counters
  <1>1. Claiming' = Claiming /\ Undecided' = Undecided /\ TooLate' = TooLate /\ c \notin Undecided
    BY OneMoves DEF CountInv, Claiming, Undecided, TooLate
  <1>2. CountersOK'
    BY DEF CountInv, CountersOK
  <1>3. ReadsBehind'
    BY DEF CountInv, CountersOK, ReadsBehind
  <1>4. \A d \in Undecided : loc'[d] = loc[d]
    BY <1>1 DEF Undecided
  <1>5. tailIndex' = tailIndex /\ tailIndex \in Nat
    BY DEF CountInv, CountersOK
  <1> QED BY <1>1, <1>2, <1>3, <1>4, <1>5, AsideStep

\* fetch_add of dequeueOptimisticCount: c is the last to be counted, and all
\* that is counted and not taken back lies below its own count.
LEMMA CountStep ==
  ASSUME CountInv, NEW c \in Consumers, Count(c)
  PROVE  CountInv'
  <1>0. CountersOK /\ Promised \in Nat
    BY CountTypes DEF CountInv
  <1>1. /\ Claiming' = Claiming /\ TooLate' = TooLate
        /\ Undecided' = Undecided \cup {c} /\ c \notin Undecided
    BY <1>0, OneMoves DEF Count, Go, Claiming, Undecided, TooLate
  <1>2. /\ loc'[c].myDequeueCount = dequeueOptimisticCount
        /\ loc'[c].overcommit = loc[c].overcommit
        /\ \A d \in Consumers \ {c} : loc'[d] = loc[d] /\ pc'[d] = pc[d]
    BY <1>0 DEF Count, Go, CountersOK, NoLocals, Fields
  <1>3. CountersOK'
    BY <1>0 DEF Count, Go, CountersOK, NoLocals, Fields
  <1>4. Promised' = Promised /\ Cardinality(Undecided') = Cardinality(Undecided) + 1
    BY <1>0, <1>1, Sizes, CountTypes DEF Promised, Count
  <1>5. Cardinality(Undecided) \in Nat /\ Cardinality(TooLate) \in Nat
    BY <1>0, Sizes, CountTypes
  <1>6. AllCounted'
    BY <1>0, <1>1, <1>4, <1>5 DEF AllCounted, CountInv, Count, CountersOK
  <1>7. ReadsBehind'
    BY <1>2 DEF ReadsBehind, CountInv, Count
  <1>8. CountsBehind'
    BY <1>0, <1>1, <1>2 DEF CountsBehind, CountInv, Count, CountersOK, Undecided
  <1>9. Promised' <= tailIndex'
    BY <1>4 DEF CountInv, Count
  <1>10. ASSUME NEW d \in Undecided PROVE RoomUpTo(d)'
    <2>1. d # c /\ d \in Consumers /\ loc'[d] = loc[d]
      BY <1>1, <1>2, <1>10 DEF Undecided
    <2>2. loc[d].myDequeueCount < dequeueOptimisticCount
      BY <1>10 DEF CountInv, CountsBehind
    <2>3. UpTo(d)' = UpTo(d)
      <3>1. \A e \in Undecided : loc'[e] = loc[e]
        BY <1>1, <1>2 DEF Undecided
      <3> QED BY <1>0, <1>1, <1>2, <2>1, <2>2, <3>1 DEF UpTo, CountersOK
    <2> QED BY <1>4, <1>10, <2>1, <2>3 DEF RoomUpTo, CountInv, Count
  <1>11. RoomUpTo(c)'
    <2>1. loc[c].overcommit <= dequeueOvercommit
      BY DEF Count, CountInv, ReadsBehind
    <2>2. Cardinality(UpTo(c)') <= Cardinality(Undecided) + 1 /\ Cardinality(UpTo(c)') \in Nat
      <3>1. UpTo(c)' \in SUBSET (Undecided') /\ Undecided' \in SUBSET Consumers
        BY <1>3, CountTypes, <1>1 DEF UpTo, Undecided
      <3> QED BY <1>4, <3>1, Sizes
    <2>3. dequeueOptimisticCount >= Promised + dequeueOvercommit + Cardinality(Undecided)
      BY <1>0, <1>5 DEF CountInv, AllCounted, CountersOK
    <2>4. Promised + Cardinality(UpTo(c)')
            <= dequeueOptimisticCount - loc[c].overcommit + 1
      BY <1>0, <1>5, <2>1, <2>2, <2>3 DEF CountersOK
    <2> QED BY <1>2, <1>4, <2>4 DEF RoomUpTo
  <1> QED BY <1>1, <1>3, <1>6, <1>7, <1>8, <1>9, <1>10, <1>11 DEF CountInv

\* The second look at tailIndex.
LEMMA ReloadStep ==
  ASSUME CountInv, NEW c \in Consumers, ReloadTail(c)
  PROVE  CountInv'
  <1> DEFINE found == loc[c].myDequeueCount - loc[c].overcommit < tailIndex
  <1>0. CountersOK /\ Promised \in Nat /\ c \in Undecided /\ UNCHANGED counters
    BY CountTypes DEF CountInv, ReloadTail, Undecided
  <1> USE DEF counters
  <1>1. /\ Undecided' = Undecided \ {c}
        /\ found => Claiming' = Claiming \cup {c} /\ TooLate' = TooLate /\ c \notin Claiming
        /\ ~ found => Claiming' = Claiming /\ TooLate' = TooLate \cup {c} /\ c \notin TooLate
    BY <1>0, OneMoves DEF ReloadTail, Go, Claiming, Undecided, TooLate
  <1>2. \A d \in Consumers \ {c} : loc'[d] = loc[d] /\ pc'[d] = pc[d]
    BY <1>0 DEF ReloadTail, Go, CountersOK
  <1>3. CountersOK'
    BY <1>0 DEF ReloadTail, Go, CountersOK, NoLocals, Fields
  <1>4. /\ Cardinality(Undecided) \in Nat /\ Cardinality(TooLate) \in Nat
        /\ Cardinality(Claiming) \in Nat
        /\ Cardinality(Undecided') = Cardinality(Undecided) - 1
        /\ found => Cardinality(Claiming') = Cardinality(Claiming) + 1
        /\ ~ found => Cardinality(TooLate') = Cardinality(TooLate) + 1
    BY <1>0, <1>1, Sizes, CountTypes
  <1>5. Promised' = IF found THEN Promised + 1 ELSE Promised
    BY <1>0, <1>1, <1>4 DEF Promised, CountersOK
  <1>6. AllCounted'
    BY <1>0, <1>1, <1>4, <1>5 DEF AllCounted, CountInv, CountersOK
  <1>7. ReadsBehind'
    BY <1>0, <1>2 DEF ReadsBehind, CountInv, ReloadTail, Go, CountersOK
  <1>8. CountsBehind'
    BY <1>0, <1>1, <1>2 DEF CountsBehind, CountInv, Undecided
  <1>9. /\ UpTo(c) \in SUBSET Consumers /\ c \in UpTo(c)
        /\ \A d \in Undecided : UpTo(d) \in SUBSET Consumers /\ Cardinality(UpTo(d)) \in Nat
    BY <1>0, CountTypes, Sizes DEF UpTo, CountersOK, Undecided
  <1>10. found => Promised + Cardinality(UpTo(c)) <= tailIndex
    BY <1>0, <1>9 DEF CountInv, RoomUpTo, CountersOK, Undecided
  <1>11. Cardinality(UpTo(c)) >= 1
    <2>1. Cardinality(UpTo(c) \ {c}) = Cardinality(UpTo(c)) - 1
      BY <1>9, Sizes
    <2> QED BY <1>0, <1>9, <2>1, Sizes
  <1>12. Promised' <= tailIndex'
    BY <1>0, <1>5, <1>9, <1>10, <1>11 DEF CountInv, CountersOK
  <1>13. ASSUME NEW d \in Undecided' PROVE RoomUpTo(d)'
    <2>1. d # c /\ d \in Undecided /\ d \in Consumers /\ loc'[d] = loc[d]
      BY <1>1, <1>2, <1>13 DEF Undecided
    <2>2. UpTo(d)' = UpTo(d) \ {c}
      BY <1>1, <1>2, <2>1 DEF UpTo, Undecided
    <2>3. CASE found /\ c \in UpTo(d)
      <3>1. Cardinality(UpTo(d)') = Cardinality(UpTo(d)) - 1
        BY <1>9, <2>1, <2>2, <2>3, Sizes
      <3>2. Promised' + Cardinality(UpTo(d)') = Promised + Cardinality(UpTo(d))
        BY <1>0, <1>5, <1>9, <2>1, <2>3, <3>1
      <3> QED BY <1>0, <2>1, <3>2 DEF RoomUpTo, CountInv
    <2>4. CASE found /\ c \notin UpTo(d)
      <3>1. loc[d].myDequeueCount < loc[c].myDequeueCount
        BY <1>0, <2>1, <2>4 DEF UpTo, CountersOK
      <3>2. UpTo(d) \in SUBSET (UpTo(c) \ {c}) /\ UpTo(c) \ {c} \in SUBSET Consumers
        BY <1>0, <1>9, <2>4, <3>1 DEF UpTo, CountersOK, Undecided
      <3>3. Cardinality(UpTo(d)) <= Cardinality(UpTo(c)) - 1
        BY <1>9, <3>2, Sizes
      <3>4. UpTo(d)' = UpTo(d)
        BY <2>2, <2>4
      <3>5. Promised' + Cardinality(UpTo(d)') <= tailIndex
        BY <1>0, <1>5, <1>9, <1>10, <2>1, <2>4, <3>3, <3>4 DEF CountersOK
      <3> QED BY <1>0, <3>5 DEF RoomUpTo
    <2>5. CASE ~ found
      <3>1. Cardinality(UpTo(d)') <= Cardinality(UpTo(d)) /\ Cardinality(UpTo(d)') \in Nat
        BY <1>9, <2>1, <2>2, Sizes
      <3> QED BY <1>0, <1>5, <1>9, <2>1, <2>5, <3>1 DEF RoomUpTo, CountInv, CountersOK
    <2> QED BY <2>3, <2>4, <2>5
  <1> QED BY <1>3, <1>6, <1>7, <1>8, <1>12, <1>13 DEF CountInv

LEMMA OvercommitStep ==
  ASSUME CountInv, NEW c \in Consumers, Overcommit(c)
  PROVE  CountInv'
  <1>0. CountersOK /\ Promised \in Nat /\ c \in TooLate
    BY CountTypes DEF CountInv, Overcommit, TooLate
  <1>1. /\ Claiming' = Claiming /\ Undecided' = Undecided /\ TooLate' = TooLate \ {c}
        /\ c \notin Undecided
    <2>1. c \notin Claiming /\ c \notin Undecided /\ pc' = [pc EXCEPT ![c] = "idle"]
      BY DEF Overcommit, Return, Go, Claiming, Undecided
    <2>2. /\ Claiming' = Claiming \ {c} /\ Undecided' = Undecided \ {c}
          /\ TooLate' = TooLate \ {c}
      BY <1>0, <2>1 DEF CountersOK, Claiming, Undecided, TooLate
    <2> QED BY <1>0, <2>1, <2>2
  <1>2. \A d \in Consumers \ {c} : loc'[d] = loc[d] /\ pc'[d] = pc[d]
    BY <1>0 DEF Overcommit, Return, Go, CountersOK
  <1>3. CountersOK'
    BY <1>0 DEF Overcommit, Return, Go, CountersOK, NoLocals, Fields
  <1>4. /\ Cardinality(Undecided) \in Nat /\ Cardinality(TooLate) \in Nat
        /\ Cardinality(TooLate') = Cardinality(TooLate) - 1
    BY <1>0, <1>1, Sizes, CountTypes
  <1>5. Promised' = Promised
    BY <1>1 DEF Promised, Overcommit
  <1>6. AllCounted'
    BY <1>0, <1>1, <1>4, <1>5 DEF AllCounted, CountInv, CountersOK, Overcommit
  <1>7. ReadsBehind'
    BY <1>0, <1>2 DEF ReadsBehind, CountInv, Overcommit, Return, Go, CountersOK
  <1>8. \A d \in Undecided : loc'[d] = loc[d]
    BY <1>1, <1>2 DEF Undecided
  <1>9. CountsBehind'
    BY <1>1, <1>8 DEF CountsBehind, CountInv, Overcommit
  <1>10. ASSUME NEW d \in Undecided PROVE RoomUpTo(d)'
    <2>1. UpTo(d)' = UpTo(d)
      BY <1>1, <1>8 DEF UpTo
    <2> QED BY <1>5, <1>8, <2>1 DEF RoomUpTo, CountInv, Overcommit
  <1> QED BY <1>1, <1>3, <1>5, <1>6, <1>7, <1>9, <1>10 DEF CountInv, Overcommit

LEMMA ClaimStep ==
  ASSUME CountInv, NEW c \in Consumers, Claim(c)
  PROVE  CountInv'
  <1>0. CountersOK /\ Promised \in Nat /\ c \in Claiming
    BY CountTypes DEF CountInv, Claim, Claiming
  <1>1. /\ Claiming' = Claiming \ {c} /\ Undecided' = Undecided /\ TooLate' = TooLate
        /\ c \notin Undecided
    <2>1. c \notin TooLate /\ c \notin Undecided /\ pc' = [pc EXCEPT ![c] = "load_header"]
      BY DEF Claim, Go, TooLate, Undecided
    <2>2. /\ Claiming' = Claiming \ {c} /\ Undecided' = Undecided \ {c}
          /\ TooLate' = TooLate \ {c}
      BY <1>0, <2>1 DEF CountersOK, Claiming, Undecided, TooLate
    <2> QED BY <1>0, <2>1, <2>2
  <1>2. \A d \in Consumers \ {c} : loc'[d] = loc[d] /\ pc'[d] = pc[d]
    BY <1>0 DEF Claim, Go, CountersOK
  <1>3. CountersOK'
    BY <1>0 DEF Claim, Go, CountersOK, Fields
  <1>4. Cardinality(Claiming') = Cardinality(Claiming) - 1 /\ Cardinality(Claiming) \in Nat
    BY <1>0, <1>1, Sizes, CountTypes
  <1>5. Promised' = Promised
    BY <1>0, <1>4 DEF Promised, Claim, CountersOK
  <1>6. AllCounted'
    BY <1>1, <1>5 DEF AllCounted, CountInv, Claim
  <1>7. ReadsBehind'
    BY <1>0, <1>2 DEF ReadsBehind, CountInv, Claim, Go, CountersOK
  <1>8. \A d \in Undecided : loc'[d] = loc[d]
    BY <1>1, <1>2 DEF Undecided
  <1>9. CountsBehind'
    BY <1>1, <1>8 DEF CountsBehind, CountInv, Claim
  <1>10. ASSUME NEW d \in Undecided PROVE RoomUpTo(d)'
    <2>1. UpTo(d)' = UpTo(d)
      BY <1>1, <1>8 DEF UpTo
    <2> QED BY <1>5, <1>8, <2>1 DEF RoomUpTo, CountInv, Claim
  <1> QED BY <1>1, <1>3, <1>5, <1>6, <1>7, <1>9, <1>10 DEF CountInv, Claim

LEMMA ProduceStep ==
  ASSUME CountInv, Produce
  PROVE  CountInv'
  <1>1. UNCHANGED <<pc, loc, headIndex, dequeueOptimisticCount, dequeueOvercommit>>
    BY DEF Produce, StartBlock, UseNullIndex, NewBlockIndex, StoreKey, StoreIndexTail, Requisition,
           RewindBlockIndexTail, UnsetEntry, InsertBlock, Construct, Publish, counters
  <1>2. tailIndex' = tailIndex \/ tailIndex' = tailIndex + 1
    BY DEF Produce, StartBlock, UseNullIndex, NewBlockIndex, StoreKey, StoreIndexTail, Requisition,
           RewindBlockIndexTail, UnsetEntry, InsertBlock, Construct, Publish, counters
  <1>3. tailIndex' \in Nat /\ tailIndex' >= tailIndex
    BY <1>2 DEF CountInv, CountersOK
  <1>4. CountersOK' /\ ReadsBehind'
    BY <1>1, <1>3 DEF CountInv, CountersOK, ReadsBehind
  <1>5. Claiming' = Claiming /\ Undecided' = Undecided /\ TooLate' = TooLate
    BY <1>1 DEF Claiming, Undecided, TooLate
  <1> QED BY <1>1, <1>3, <1>4, <1>5, AsideStep

\* What an assignment to other local variables of c leaves alone.
OnlyOthers(c) ==
  /\ DOMAIN loc' = Consumers /\ \A d \in Consumers \ {c} : loc'[d] = loc[d]
  /\ DOMAIN loc'[c] = Fields
  /\ loc'[c].overcommit = loc[c].overcommit /\ loc'[c].myDequeueCount = loc[c].myDequeueCount

LEMMA ConsumeStep ==
  ASSUME CountInv, NEW c \in Consumers, Consume(c)
  PROVE  CountInv'
  <1>0. /\ CountersOK /\ DOMAIN loc[c] = Fields
        /\ loc[c].overcommit \in Nat /\ loc[c].myDequeueCount \in Nat
    BY DEF CountInv, CountersOK
  <1>1. CASE LoadTail(c)
    <2>1. OnlyOthers(c)
      BY <1>0, <1>1 DEF LoadTail, CountersOK, Fields, OnlyOthers
    <2> QED BY <1>0, <1>1, <2>1, ConsumerAside DEF LoadTail, Go, OnlyOthers
  <1>2. CASE LoadOvercommit(c)
    <2>1. /\ DOMAIN loc' = Consumers /\ \A d \in Consumers \ {c} : loc'[d] = loc[d]
          /\ DOMAIN loc'[c] = Fields /\ loc'[c].overcommit = dequeueOvercommit
          /\ loc'[c].myDequeueCount = loc[c].myDequeueCount
      BY <1>0, <1>2 DEF LoadOvercommit, CountersOK, Fields
    <2>2. dequeueOvercommit \in Nat /\ loc'[c].overcommit <= dequeueOvercommit
      BY <1>0, <2>1 DEF CountersOK
    <2> QED BY <1>0, <1>2, <2>1, <2>2, ConsumerAside DEF LoadOvercommit, Go
  <1>3. CASE Return(c) /\ UNCHANGED counters /\ pc[c] \notin {"claim", "reload_tail", "overcommit"}
    <2>1. /\ DOMAIN loc' = Consumers /\ \A d \in Consumers \ {c} : loc'[d] = loc[d]
          /\ DOMAIN loc'[c] = Fields
          /\ loc'[c].overcommit = 0 /\ loc'[c].myDequeueCount = 0
      BY <1>0, <1>3 DEF Return, CountersOK, NoLocals, Fields
    <2>2. pc' = [pc EXCEPT ![c] = "idle"] /\ 0 \in Nat
      BY <1>3 DEF Return, Go
    <2> QED BY <1>3, <2>1, <2>2, ConsumerAside
  <1>4. CASE LoadCount(c)
    <2>1. loc[c].overcommit <= dequeueOvercommit
      BY <1>4 DEF LoadCount, CountInv, ReadsBehind
    <2>2. CASE pc' = [pc EXCEPT ![c] = "count"] /\ loc' = [loc EXCEPT ![c].tail = 0]
      <3>1. OnlyOthers(c)
        BY <1>0, <2>2 DEF CountersOK, Fields, OnlyOthers
      <3> QED BY <1>0, <1>4, <2>1, <2>2, <3>1, ConsumerAside DEF LoadCount, OnlyOthers
    <2>3. CASE Return(c)
      BY <1>3, <1>4, <2>3 DEF LoadCount
    <2> QED BY <1>4, <2>2, <2>3 DEF LoadCount, Go
  <1>5. CASE Count(c)
    BY <1>5, CountStep
  <1>6. CASE ReloadTail(c)
    BY <1>6, ReloadStep
  <1>7. CASE Overcommit(c)
    BY <1>7, OvercommitStep
  <1>8. CASE Claim(c)
    BY <1>8, ClaimStep
  <1>9. CASE LoadHeader(c) \/ LoadIndexTail(c) \/ LoadKey(c) \/ LoadValue(c) \/ Move(c)
    <2>1. OnlyOthers(c)
      <3>1. CASE LoadHeader(c) \/ LoadIndexTail(c) \/ LoadValue(c)
        BY <1>0, <3>1 DEF LoadHeader, LoadIndexTail, LoadValue, CountersOK, Fields, OnlyOthers
      <3>2. CASE LoadKey(c)
        BY <1>0, <3>2 DEF LoadKey, CountersOK, Fields, OnlyOthers
      <3>3. CASE Move(c)
        BY <1>0, <3>3 DEF Move, CountersOK, Fields, OnlyOthers
      <3> QED BY <1>9, <3>1, <3>2, <3>3
    <2>2. UNCHANGED counters
      BY <1>9 DEF LoadHeader, LoadIndexTail, LoadKey, LoadValue, Move
    <2>3. PICK w \in {"load_index_tail", "load_key", "load_value", "move", "set_empty"} :
            pc' = [pc EXCEPT ![c] = w]
      BY <1>9 DEF LoadHeader, LoadIndexTail, LoadKey, LoadValue, Move, Go
    <2>4. pc[c] \notin {"claim", "reload_tail", "overcommit"}
      BY <1>9 DEF LoadHeader, LoadIndexTail, LoadKey, LoadValue, Move
    <2> QED BY <1>0, <2>1, <2>2, <2>3, <2>4, ConsumerAside DEF OnlyOthers
  <1>10. CASE SetEmpty(c) \/ RemoveEntry(c) \/ FreeBlock(c)
    <2>1. UNCHANGED counters /\ pc[c] \notin {"claim", "reload_tail", "overcommit"}
      BY <1>10 DEF SetEmpty, RemoveEntry, FreeBlock
    <2>2. CASE UNCHANGED loc /\ \E w \in {"remove_entry", "free_block"} : pc' = [pc EXCEPT ![c] = w]
      BY <1>0, <2>1, <2>2, ConsumerAside DEF CountersOK
    <2> QED BY <1>3, <1>10, <2>1, <2>2 DEF SetEmpty, RemoveEntry, FreeBlock, Go
  <1> QED BY <1>1, <1>2, <1>4, <1>5, <1>6, <1>7, <1>8, <1>9, <1>10 DEF Consume

LEMMA NextCountInv == CountInv /\ [Next]_vars => CountInv'
  <1> SUFFICES ASSUME CountInv, [Next]_vars PROVE CountInv'
    OBVIOUS
  <1>1. CASE Produce
    BY <1>1, ProduceStep
  <1>2. ASSUME NEW c \in Consumers, Consume(c) PROVE CountInv'
    BY <1>2, ConsumeStep
  <1>3. CASE UNCHANGED vars
    <2>1. UNCHANGED <<counters, pc, loc>>
      BY <1>3 DEF vars
    <2>2. CountersOK' /\ ReadsBehind'
      BY <2>1 DEF CountInv, CountersOK, ReadsBehind, counters
    <2>3. Claiming' = Claiming /\ Undecided' = Undecided /\ TooLate' = TooLate
      BY <2>1 DEF Claiming, Undecided, TooLate
    <2>4. tailIndex' >= tailIndex
      BY <2>1 DEF CountInv, CountersOK, counters
    <2> QED BY <2>1, <2>2, <2>3, <2>4, AsideStep DEF counters
  <1> QED BY <1>1, <1>2, <1>3 DEF Next

(* However many threads dequeue, and however often they find that they     *)
(* came too late, none ever claims an index beyond what is enqueued.       *)
THEOREM ConsumersStayBehind == Spec => []HeadBehindTail
  <1>1. CountInv => HeadBehindTail
    <2> SUFFICES ASSUME CountInv PROVE HeadBehindTail
      OBVIOUS
    <2>1. Claiming \in SUBSET Consumers /\ CountersOK
      BY CountTypes DEF CountInv
    <2>2. Cardinality(Claiming) \in Nat
      BY <2>1, Sizes
    <2> QED BY <2>1, <2>2 DEF CountInv, CountersOK, Promised, HeadBehindTail
  <1> QED BY <1>1, InitCountInv, NextCountInv, PTL DEF Spec


----------------------------------------------------------------------------
(* Indices and blocks, and the slots of a circular block index. *)

Number(i) == i \div BLOCK_SIZE    \* of the block of index i

Key(q) == q * BLOCK_SIZE          \* of the block of that number

\* The slot j before s in a circle of n.
Back(n, s, j) == IF s >= j THEN s - j ELSE s - j + n

LEMMA DivMod ==
  ASSUME NEW n \in Int, NEW d \in Nat \ {0}
  PROVE  /\ n = d * (n \div d) + (n % d)
         /\ n % d \in 0 .. d - 1 /\ n \div d \in Int
  OBVIOUS

LEMMA Unique ==
  ASSUME NEW n \in Int, NEW d \in Nat \ {0}, NEW q \in Int, NEW r \in 0 .. d - 1, n = d * q + r
  PROVE  n % d = r /\ n \div d = q
  OBVIOUS

LEMMA KeyOrder ==
  ASSUME NEW q \in Int, NEW r \in Int
  PROVE  /\ Key(q) \in Int /\ Key(q + 1) = Key(q) + BLOCK_SIZE
         /\ q < r => Key(q) + BLOCK_SIZE <= Key(r)
         /\ q < r <=> Key(q) < Key(r)
         /\ q = r <=> Key(q) = Key(r)
  <1>1. BLOCK_SIZE \in Nat /\ BLOCK_SIZE > 1
    BY ImplicitProducerAssumption
  <1>2. Key(q) \in Int /\ Key(r) \in Int /\ Key(q + 1) = Key(q) + BLOCK_SIZE
    BY <1>1 DEF Key
  <1>3. ASSUME NEW a \in Int, NEW b \in Int, a < b PROVE Key(a) + BLOCK_SIZE <= Key(b)
    <2>1. PICK d \in Nat : b = a + 1 + d
      BY <1>3
    <2>2. (a + 1 + d) * BLOCK_SIZE = a * BLOCK_SIZE + BLOCK_SIZE + d * BLOCK_SIZE
      BY <1>1
    <2>3. d * BLOCK_SIZE >= 0 /\ d * BLOCK_SIZE \in Int /\ a * BLOCK_SIZE \in Int
      BY <1>1
    <2> QED BY <1>1, <2>1, <2>2, <2>3 DEF Key
  <1>4. q < r => Key(q) + BLOCK_SIZE <= Key(r)
    BY <1>3
  <1>5. r < q => Key(r) + BLOCK_SIZE <= Key(q)
    BY <1>3
  <1> QED BY <1>1, <1>2, <1>4, <1>5

LEMMA KeyFacts ==
  ASSUME NEW q \in Nat
  PROVE  /\ Key(q) \in Nat /\ Key(q) # INVALID_BLOCK_BASE
         /\ Key(q) % BLOCK_SIZE = 0 /\ Number(Key(q)) = q /\ Base(Key(q)) = Key(q)
  <1>1. BLOCK_SIZE \in Nat \ {0} /\ BLOCK_SIZE > 1 /\ 0 \in 0 .. BLOCK_SIZE - 1
    BY ImplicitProducerAssumption
  <1>2. Key(q) \in Int /\ Key(q) = BLOCK_SIZE * q + 0
    BY <1>1 DEF Key
  <1>3. Key(q) % BLOCK_SIZE = 0 /\ Key(q) \div BLOCK_SIZE = q
    BY <1>1, <1>2, Unique
  <1>4. Key(0) = 0 /\ (0 < q => Key(0) + BLOCK_SIZE <= Key(q))
    BY <1>1, KeyOrder DEF Key
  <1>5. Key(q) \in Nat /\ Key(q) # INVALID_BLOCK_BASE
    BY <1>1, <1>2, <1>4 DEF INVALID_BLOCK_BASE
  <1> QED BY <1>2, <1>3, <1>5 DEF Number, Base

LEMMA KeysApart ==
  ASSUME NEW q \in Nat, NEW r \in Nat
  PROVE  (Key(q) - Key(r)) \div BLOCK_SIZE = q - r
  <1>1. BLOCK_SIZE \in Nat \ {0} /\ 0 \in 0 .. BLOCK_SIZE - 1 /\ q - r \in Int
    BY ImplicitProducerAssumption
  <1>2. Key(q) - Key(r) = BLOCK_SIZE * (q - r) + 0 /\ Key(q) - Key(r) \in Int
    BY <1>1 DEF Key
  <1> QED BY <1>1, <1>2, Unique

LEMMA IndexFacts ==
  ASSUME NEW i \in Nat
  PROVE  /\ Number(i) \in Nat /\ Base(i) = Key(Number(i)) /\ Base(i) \in Nat
         /\ i % BLOCK_SIZE \in Slot /\ i = Base(i) + (i % BLOCK_SIZE)
         /\ Base(i) <= i /\ i < Base(i) + BLOCK_SIZE
         /\ i % BLOCK_SIZE = 0 <=> Base(i) = i
  <1>1. BLOCK_SIZE \in Nat \ {0}
    BY ImplicitProducerAssumption
  <1>2. /\ i = BLOCK_SIZE * (i \div BLOCK_SIZE) + (i % BLOCK_SIZE)
        /\ i % BLOCK_SIZE \in 0 .. BLOCK_SIZE - 1 /\ i \div BLOCK_SIZE \in Int
    BY <1>1, DivMod
  <1>3. PICK q \in Int, r \in 0 .. BLOCK_SIZE - 1 : q = i \div BLOCK_SIZE /\ r = i % BLOCK_SIZE
    BY <1>2
  <1>4. i = BLOCK_SIZE * q + r
    BY <1>2, <1>3
  <1>5. BLOCK_SIZE * q = Key(q) /\ Key(q) \in Int
    BY <1>1 DEF Key
  <1>6. Base(i) = Key(q) /\ Number(i) = q
    BY <1>3, <1>4, <1>5 DEF Base, Number
  <1>7. q >= 0
    <2>1. q < 0 => Key(q) + BLOCK_SIZE <= Key(0)
      BY KeyOrder
    <2>2. Key(0) = 0
      BY <1>1 DEF Key
    <2> QED BY <1>1, <1>4, <1>5, <2>1, <2>2
  <1>8. Key(q) \in Nat
    BY <1>7, KeyFacts
  <1> QED BY <1>1, <1>3, <1>4, <1>5, <1>6, <1>7, <1>8 DEF Slot

\* The block of the next index is the same, or the next block.
LEMMA NextIndex ==
  ASSUME NEW i \in Nat
  PROVE  Number(i + 1) = IF (i + 1) % BLOCK_SIZE = 0 THEN Number(i) + 1 ELSE Number(i)
  <1>1. /\ BLOCK_SIZE \in Nat /\ BLOCK_SIZE > 1 /\ Number(i) \in Nat /\ Number(i + 1) \in Nat
        /\ Base(i) = Key(Number(i)) /\ Base(i + 1) = Key(Number(i + 1))
        /\ Base(i) <= i /\ i < Base(i) + BLOCK_SIZE
        /\ Base(i + 1) <= i + 1 /\ i + 1 < Base(i + 1) + BLOCK_SIZE
        /\ (i + 1) % BLOCK_SIZE = 0 <=> Base(i + 1) = i + 1
    <2>1. BLOCK_SIZE \in Nat /\ BLOCK_SIZE > 1 /\ i + 1 \in Nat
      BY ImplicitProducerAssumption
    <2>2. /\ Number(i) \in Nat /\ Base(i) = Key(Number(i)) /\ Base(i) <= i /\ i < Base(i) + BLOCK_SIZE
      BY IndexFacts
    <2>3. /\ Number(i + 1) \in Nat /\ Base(i + 1) = Key(Number(i + 1))
          /\ Base(i + 1) <= i + 1 /\ i + 1 < Base(i + 1) + BLOCK_SIZE
          /\ (i + 1) % BLOCK_SIZE = 0 <=> Base(i + 1) = i + 1
      BY <2>1, IndexFacts
    <2> QED BY <2>1, <2>2, <2>3
  <1>2. /\ Number(i) < Number(i + 1) => Key(Number(i)) + BLOCK_SIZE <= Key(Number(i + 1))
        /\ Number(i + 1) < Number(i) => Key(Number(i + 1)) + BLOCK_SIZE <= Key(Number(i))
        /\ Number(i) + 1 < Number(i + 1) => Key(Number(i) + 1) + BLOCK_SIZE <= Key(Number(i + 1))
        /\ Key(Number(i) + 1) = Key(Number(i)) + BLOCK_SIZE
        /\ Key(Number(i)) \in Int /\ Key(Number(i + 1)) \in Int
    <2>1. /\ Number(i) \in Int /\ Number(i + 1) \in Int /\ Number(i) + 1 \in Int
      BY <1>1
    <2>2. /\ Number(i) < Number(i + 1) => Key(Number(i)) + BLOCK_SIZE <= Key(Number(i + 1))
          /\ Key(Number(i) + 1) = Key(Number(i)) + BLOCK_SIZE /\ Key(Number(i)) \in Int
      BY <2>1, KeyOrder
    <2>3. /\ Number(i + 1) < Number(i) => Key(Number(i + 1)) + BLOCK_SIZE <= Key(Number(i))
          /\ Key(Number(i + 1)) \in Int
      BY <2>1, KeyOrder
    <2>4. Number(i) + 1 < Number(i + 1) => Key(Number(i) + 1) + BLOCK_SIZE <= Key(Number(i + 1))
      BY <2>1, KeyOrder
    <2> QED BY <2>2, <2>3, <2>4
  <1>3. PICK a \in Nat, b \in Nat, ka \in Int, kb \in Int :
          a = Number(i) /\ b = Number(i + 1) /\ ka = Key(a) /\ kb = Key(b)
    BY <1>1, <1>2
  <1>4. /\ a < b => ka + BLOCK_SIZE <= kb
        /\ b < a => kb + BLOCK_SIZE <= ka
        /\ a + 1 < b => ka + BLOCK_SIZE + BLOCK_SIZE <= kb
        /\ a = b => ka = kb
        /\ ka <= i /\ i < ka + BLOCK_SIZE /\ kb <= i + 1 /\ i + 1 < kb + BLOCK_SIZE
        /\ (i + 1) % BLOCK_SIZE = 0 <=> kb = i + 1
    BY <1>1, <1>2, <1>3
  <1>5. CASE (i + 1) % BLOCK_SIZE = 0
    <2>1. b = a + 1
      BY <1>1, <1>3, <1>4, <1>5
    <2> QED BY <1>3, <1>5, <2>1
  <1>6. CASE (i + 1) % BLOCK_SIZE # 0
    <2>1. b = a
      BY <1>1, <1>3, <1>4, <1>6
    <2> QED BY <1>3, <1>6, <2>1
  <1> QED BY <1>5, <1>6

LEMMA Wrapped ==
  ASSUME NEW n \in Nat \ {0}, NEW x \in Int, -n <= x, x < 2 * n
  PROVE  x % n = IF x < 0 THEN x + n ELSE IF x < n THEN x ELSE x - n
  <1>1. CASE x < 0
    <2>1. x + n \in 0 .. n - 1 /\ x = n * (-1) + (x + n)
      BY <1>1
    <2> QED BY <1>1, <2>1, Unique
  <1>2. CASE 0 <= x /\ x < n
    <2>1. x \in 0 .. n - 1 /\ x = n * 0 + x
      BY <1>2
    <2> QED BY <1>2, <2>1, Unique
  <1>3. CASE n <= x
    <2>1. x - n \in 0 .. n - 1 /\ x = n * 1 + (x - n)
      BY <1>3
    <2> QED BY <1>3, <2>1, Unique
  <1> QED BY <1>1, <1>2, <1>3

LEMMA FromTheOldest ==
  ASSUME NEW n \in Nat \ {0, 1}, NEW s \in 0 .. n - 1, NEW i \in 0 .. n - 1
  PROVE  (s + 1 + i) % n = Back(n, s, n - 1 - i)
  <1> SUFFICES ASSUME NEW x \in Nat, x = s + 1 + i
               PROVE  x % n = Back(n, s, n - 1 - i)
    OBVIOUS
  <1>1. x % n = IF x < n THEN x ELSE x - n
    <2>1. n \in Nat \ {0} /\ x \in Int /\ -n <= x /\ x < 2 * n /\ ~ (x < 0)
      OBVIOUS
    <2> QED BY <2>1, Wrapped
  <1>2. Back(n, s, n - 1 - i) = IF x < n THEN x ELSE x - n
    BY DEF Back
  <1> QED BY <1>1, <1>2

LEMMA Circle ==
  ASSUME NEW n \in Nat \ {0, 1}, NEW s \in 0 .. n - 1
  PROVE  /\ \A j \in 0 .. n - 1 : Back(n, s, j) \in 0 .. n - 1 /\ (s - j) % n = Back(n, s, j)
         /\ \A i, j \in 0 .. n - 1 : Back(n, s, i) = Back(n, s, j) => i = j
         /\ \A x \in 0 .. n - 1 : \E j \in 0 .. n - 1 : x = Back(n, s, j)
         /\ Back(n, s, 0) = s /\ (s - 1) % n = Back(n, s, 1)
         /\ (s + 1) % n = Back(n, s, n - 1)
         /\ \A i \in 0 .. n - 1 : (s + 1 + i) % n = Back(n, s, n - 1 - i)
  <1>1. \A j \in 0 .. n - 1 : Back(n, s, j) \in 0 .. n - 1 /\ (s - j) % n = Back(n, s, j)
    <2> SUFFICES ASSUME NEW j \in 0 .. n - 1
                 PROVE  Back(n, s, j) \in 0 .. n - 1 /\ (s - j) % n = Back(n, s, j)
      OBVIOUS
    <2>1. (s - j) % n = IF s - j < 0 THEN s - j + n ELSE IF s - j < n THEN s - j ELSE s - j - n
      <3>1. n \in Nat \ {0} /\ s - j \in Int /\ -n <= s - j /\ s - j < 2 * n
        OBVIOUS
      <3> QED BY <3>1, Wrapped
    <2> QED BY <2>1 DEF Back
  <1>2. \A i, j \in 0 .. n - 1 : Back(n, s, i) = Back(n, s, j) => i = j
    BY DEF Back
  <1>3. \A x \in 0 .. n - 1 : \E j \in 0 .. n - 1 : x = Back(n, s, j)
    <2> SUFFICES ASSUME NEW x \in 0 .. n - 1 PROVE \E j \in 0 .. n - 1 : x = Back(n, s, j)
      OBVIOUS
    <2>1. CASE x <= s
      <3>1. s - x \in 0 .. n - 1 /\ x = Back(n, s, s - x)
        BY <2>1 DEF Back
      <3> QED BY <3>1
    <2>2. CASE x > s
      <3>1. s - x + n \in 0 .. n - 1 /\ x = Back(n, s, s - x + n)
        BY <2>2 DEF Back
      <3> QED BY <3>1
    <2> QED BY <2>1, <2>2
  <1>4. \A i \in 0 .. n - 1 : (s + 1 + i) % n = Back(n, s, n - 1 - i)
    BY FromTheOldest
  <1>5. Back(n, s, 0) = s /\ (s - 1) % n = Back(n, s, 1)
    <2>1. 1 \in 0 .. n - 1 /\ Back(n, s, 0) = s
      BY DEF Back
    <2> QED BY <1>1, <2>1
  <1>6. (s + 1) % n = Back(n, s, n - 1)
    <2>1. 0 \in 0 .. n - 1 /\ s + 1 + 0 = s + 1 /\ n - 1 - 0 = n - 1
      OBVIOUS
    <2>2. (s + 1 + 0) % n = Back(n, s, n - 1 - 0)
      BY <1>4, <2>1, Zenon
    <2> QED BY <2>1, <2>2, Zenon
  <1> QED BY <1>1, <1>2, <1>3, <1>4, <1>5, <1>6

\* The circle as it looks from the next slot, and from the one before.
LEMMA Turned ==
  ASSUME NEW n \in Nat \ {0, 1}, NEW s \in 0 .. n - 1, NEW j \in 0 .. n - 1
  PROVE  /\ Back(n, Back(n, s, n - 1), j) = IF j = 0 THEN Back(n, s, n - 1) ELSE Back(n, s, j - 1)
         /\ Back(n, Back(n, s, 1), j) = IF j = n - 1 THEN s ELSE Back(n, s, j + 1)
  BY DEF Back


----------------------------------------------------------------------------
(* The block index, and who relies on it. *)

PSteps == {"idle", "new_index", "store_key", "store_tail", "requisition", "rewind", "unset",
           "insert", "construct", "publish", "crashed"}

Indexed == {"load_header", "load_index_tail", "load_key", "load_value", "move"}

Steps == {"idle"} \cup Before \cup Indexed \cup {"set_empty", "remove_entry", "free_block"}

AnyHeader ==
  UNION {[capacity : {n}, tail : 0 .. n - 1, index : [0 .. n - 1 -> Nat]] : n \in Nat \ {0, 1}}

AnyEntry == [key : Word \cup {INVALID_BLOCK_BASE}, value : Blocks \cup {nullptr, garbage}]

AnyBlock == [slots : [Slot -> Word \cup {nullptr}], dequeued : 0 .. BLOCK_SIZE]

Locals ==
  [tail : Nat, overcommit : Nat, myDequeueCount : Nat, index : Nat, header : Nat, indexTail : Nat,
   entry : Nat, block : Blocks \cup {nullptr, garbage}, element : Word \cup {nullptr}]

Types ==
  /\ tailIndex \in 0 .. MaxTail /\ dequeueOptimisticCount \in 0 .. MaxAttempts
  /\ tailBlock \in Blocks \cup {nullptr}
  /\ blockIndex \in Seq(AnyHeader) /\ entries \in Seq(AnyEntry)
  /\ blocks \in [Blocks -> AnyBlock] /\ pool \subseteq Blocks
  /\ ppc \in PSteps /\ ploc \in [idxEntry : Nat, newBlock : Blocks \cup {nullptr}]
  /\ pc \in [Consumers -> Steps] /\ loc \in [Consumers -> Locals]

KeyOf(e) == entries[e].key

ValueOf(e) == entries[e].value

Allocated == 1 .. Len(entries)

Headers == 1 .. Len(blockIndex)

\* The slots of a header, and the entry j before a slot.
Slots(h) == 0 .. blockIndex[h].capacity - 1

EntryFrom(h, s, j) == blockIndex[h].index[Back(blockIndex[h].capacity, s, j)]

\* The current header, and its entries from the newest to the oldest.
Current == Len(blockIndex)

EntryBack(j) == EntryFrom(Current, blockIndex[Current].tail, j)

Last == EntryBack(blockIndex[Current].capacity - 1)

\* The number of blocks that have been in the index, and the number that the
\* newest entry is for, which is one ahead while a block is inserted.
HasBlock == tailIndex % BLOCK_SIZE # 0 \/ ppc \in {"construct", "publish"}

Due == IF HasBlock THEN Number(tailIndex) + 1 ELSE Number(tailIndex)

AtTail == {"requisition", "rewind", "insert"}

Newest == IF ppc \in AtTail THEN Due ELSE Due - 1

\* The entry that an insertion which failed has left behind.
Stale(j) ==
  /\ j = blockIndex[Current].capacity - 1 /\ Newest = Due - 1 /\ ~ HasBlock
  /\ KeyOf(EntryBack(j)) = Key(Due) /\ ValueOf(EntryBack(j)) \notin Blocks

KeyAt(j) ==
  \/ KeyOf(EntryBack(j)) = INVALID_BLOCK_BASE
  \/ Newest >= j /\ KeyOf(EntryBack(j)) = Key(Newest - j)
  \/ Stale(j)

Inserting == {"store_tail", "unset"} \cup AtTail

Producing == {"new_index", "store_key"} \cup Inserting

ProducerOK ==
  /\ blockIndex = <<>> => tailIndex = 0 /\ entries = <<>> /\ ppc \in {"idle", "crashed"}
  /\ ppc \notin {"idle", "crashed"} => tailIndex < MaxTail
  /\ ppc \in Producing => tailIndex % BLOCK_SIZE = 0
  /\ ppc = "new_index" => KeyOf(Last) # Key(Due)
  /\ ppc \in {"store_key", "store_tail", "unset"} => ploc.idxEntry = Last
  /\ ppc \in AtTail => ploc.idxEntry = EntryBack(0)
  /\ ppc \in {"store_key"} \cup Inserting => ValueOf(ploc.idxEntry) \notin Blocks
  /\ ppc \in Inserting => KeyOf(ploc.idxEntry) = tailIndex
  /\ ppc \in AtTail /\ Newest > 0 => KeyOf(EntryBack(1)) = Key(Newest - 1)
  /\ ppc = "insert" <=> ploc.newBlock # nullptr
  /\ ppc = "insert" => blocks[ploc.newBlock].dequeued = 0

HeadersOK ==
  /\ \A h \in Headers : \A x \in Slots(h) : blockIndex[h].index[x] \in Allocated
  /\ blockIndex # <<>> =>
       /\ \A i, j \in Slots(Current) : EntryBack(i) = EntryBack(j) => i = j
       /\ \A e \in Allocated : \E j \in Slots(Current) : e = EntryBack(j)

KeysOK ==
  /\ blockIndex # <<>> =>
       /\ \A j \in Slots(Current) : KeyAt(j)
       /\ Newest >= 0 => KeyOf(EntryBack(0)) = Key(Newest)
  /\ \A e \in Allocated :
       /\ KeyOf(e) = INVALID_BLOCK_BASE => ValueOf(e) = garbage
       /\ ValueOf(e) = garbage =>
            KeyOf(e) = INVALID_BLOCK_BASE \/ (e = ploc.idxEntry /\ ppc \in Inserting)

\* The consumers that have claimed an index in the block with key k, and are
\* not counted in dequeued.
Holds(c) == pc[c] \in Indexed \cup {"set_empty"}

HeldKey(c) == IF pc[c] = "set_empty" THEN KeyOf(loc[c].entry) ELSE Base(loc[c].index)

HoldersOf(k) == {c \in Consumers : Holds(c) /\ HeldKey(c) = k}

ClaimedOf(k) ==
  IF headIndex <= k THEN 0 ELSE IF headIndex >= k + BLOCK_SIZE THEN BLOCK_SIZE ELSE headIndex - k

\* Block number q still has, or will have, elements that somebody will look for.
Live(q) == q \in 0 .. Due - 1 /\ (headIndex < Key(q) + BLOCK_SIZE \/ HoldersOf(Key(q)) # {})

BlockOK(e) ==
  \E q \in 0 .. Due - 1 :
    /\ KeyOf(e) = Key(q)
    /\ blocks[ValueOf(e)].dequeued + Cardinality(HoldersOf(Key(q))) = ClaimedOf(Key(q))

LiveOK ==
  /\ \A e \in Allocated : ValueOf(e) \in Blocks => BlockOK(e)
  /\ \A q \in Nat : Live(q) => \E e \in Allocated : KeyOf(e) = Key(q) /\ ValueOf(e) \in Blocks

\* Counted back from slot s of header h by keys, one comes to the entry of block q.
Leads(h, s, q) ==
  \E j \in Slots(h) :
    /\ KeyOf(blockIndex[h].index[s]) = Key(q + j)
    /\ KeyOf(EntryFrom(h, s, j)) = Key(q)

UsesEntry == {"load_value", "move", "set_empty", "remove_entry"}

\* What a consumer at access w with local variables l relies on.
ConsumerAt(w, l) ==
  /\ w \in Indexed => l.index < headIndex
  /\ w \in {"load_index_tail", "load_key"} => l.header \in Headers
  /\ w = "load_index_tail" => Leads(l.header, blockIndex[l.header].tail, Number(l.index))
  /\ w = "load_key" => l.indexTail \in Slots(l.header) /\ Leads(l.header, l.indexTail, Number(l.index))
  /\ w \in UsesEntry => l.entry \in Allocated /\ ValueOf(l.entry) \in Blocks
  /\ w \in {"load_value", "move"} => KeyOf(l.entry) = Base(l.index)
  /\ w \in {"move", "set_empty", "remove_entry"} => l.block = ValueOf(l.entry)
  /\ w = "remove_entry" => blocks[l.block].dequeued = BLOCK_SIZE
  /\ w = "free_block" => l.block \in Blocks

ConsumersOK ==
  /\ \A c \in Consumers : ConsumerAt(pc[c], loc[c])
  /\ \A c, d \in Consumers :
       pc[c] = "remove_entry" /\ pc[d] = "remove_entry" /\ loc[c].entry = loc[d].entry => c = d

InIndex(b) == \E e \in Allocated : ValueOf(e) = b

BeingFreed(b) == \E c \in Consumers : pc[c] = "free_block" /\ loc[c].block = b

Places ==
  /\ \A e, f \in Allocated : ValueOf(e) \in Blocks /\ ValueOf(e) = ValueOf(f) => e = f
  /\ \A c, d \in Consumers :
       pc[c] = "free_block" /\ pc[d] = "free_block" /\ loc[c].block = loc[d].block => c = d
  /\ \A b \in Blocks :
       /\ b \in pool \/ b = ploc.newBlock \/ InIndex(b) \/ BeingFreed(b)
       /\ b \in pool => b # ploc.newBlock /\ ~ InIndex(b) /\ ~ BeingFreed(b)
       /\ b = ploc.newBlock => ~ InIndex(b) /\ ~ BeingFreed(b)
       /\ InIndex(b) => ~ BeingFreed(b)
       /\ InIndex(b) => \/ blocks[b].dequeued < BLOCK_SIZE
                        \/ \E c \in Consumers : pc[c] = "remove_entry" /\ loc[c].block = b

IndexInv == Types /\ ProducerOK /\ HeadersOK /\ KeysOK /\ LiveOK /\ ConsumersOK /\ Places

BlockInv == CountInv /\ IndexInv


----------------------------------------------------------------------------
(* What the invariant says of a state. *)

LEMMA Bounds ==
  /\ BLOCK_SIZE \in Nat /\ BLOCK_SIZE > 1 /\ MaxTail \in Nat /\ MaxAttempts \in Nat
  /\ nullptr \notin Blocks /\ garbage \notin Blocks /\ garbage # nullptr /\ nullptr \notin Nat
  BY ImplicitProducerAssumption

LEMMA TypeFacts ==
  ASSUME Types
  PROVE  /\ tailIndex \in Nat /\ Len(blockIndex) \in Nat /\ Len(entries) \in Nat
         /\ \A e \in Allocated : entries[e] \in AnyEntry
         /\ \A h \in Headers : blockIndex[h] \in AnyHeader
         /\ \A c \in Consumers : pc[c] \in Steps /\ loc[c] \in Locals
         /\ \A b \in Blocks : blocks[b] \in AnyBlock
         /\ blockIndex # <<>> => Current \in Headers
         /\ blockIndex = <<>> => Current = 0
  <1>1. blockIndex \in Seq(AnyHeader) /\ entries \in Seq(AnyEntry)
    BY DEF Types
  <1>2. Len(blockIndex) \in Nat /\ Len(entries) \in Nat
    BY <1>1, LenProperties
  <1>3. (\A e \in Allocated : entries[e] \in AnyEntry) /\ (\A h \in Headers : blockIndex[h] \in AnyHeader)
    BY <1>1, ElementOfSeq DEF Allocated, Headers
  <1>4. tailIndex \in Nat
    BY Bounds DEF Types
  <1>5. \A c \in Consumers : pc[c] \in Steps /\ loc[c] \in Locals
    BY DEF Types
  <1>6. \A b \in Blocks : blocks[b] \in AnyBlock
    BY DEF Types
  <1>7. blockIndex = <<>> <=> Len(blockIndex) = 0
    BY <1>1, EmptySeq
  <1> QED BY <1>2, <1>3, <1>4, <1>5, <1>6, <1>7 DEF Current, Headers

LEMMA HeaderFacts ==
  ASSUME Types, NEW h \in Headers
  PROVE  /\ blockIndex[h].capacity \in Nat \ {0, 1} /\ blockIndex[h].tail \in Slots(h)
         /\ blockIndex[h].index \in [Slots(h) -> Nat]
         /\ \A n, i : [blockIndex[h] EXCEPT !.tail = i].capacity = blockIndex[h].capacity
         /\ \A n, i : [blockIndex[h] EXCEPT !.tail = i].index = blockIndex[h].index
         /\ \A n, i : [blockIndex[h] EXCEPT !.tail = i].tail = i
  <1>1. blockIndex[h] \in AnyHeader
    BY TypeFacts
  <1>2. PICK n \in Nat \ {0, 1} :
          blockIndex[h] \in [capacity : {n}, tail : 0 .. n - 1, index : [0 .. n - 1 -> Nat]]
    BY <1>1 DEF AnyHeader
  <1> QED BY <1>2 DEF Slots

LEMMA HeaderType ==
  ASSUME NEW n \in Nat \ {0, 1}, NEW i \in 0 .. n - 1, NEW f \in [0 .. n - 1 -> Nat]
  PROVE  [capacity |-> n, tail |-> i, index |-> f] \in AnyHeader
  BY DEF AnyHeader

LEMMA EntryFacts ==
  ASSUME Types, NEW e \in Allocated
  PROVE  /\ KeyOf(e) \in Word \cup {INVALID_BLOCK_BASE}
         /\ ValueOf(e) \in Blocks \cup {nullptr, garbage}
  BY TypeFacts DEF AnyEntry, KeyOf, ValueOf

\* The slots of a header, by how far they are behind one of them.
LEMMA SlotFacts ==
  ASSUME Types, NEW h \in Headers, NEW s \in Slots(h)
  PROVE  /\ 0 \in Slots(h) /\ 1 \in Slots(h) /\ blockIndex[h].capacity - 1 \in Slots(h)
         /\ \A j \in Slots(h) : Back(blockIndex[h].capacity, s, j) \in Slots(h)
         /\ EntryFrom(h, s, 0) = blockIndex[h].index[s]
  <1>1. blockIndex[h].capacity \in Nat \ {0, 1}
    BY HeaderFacts
  <1>2. PICK n \in Nat \ {0, 1} : n = blockIndex[h].capacity
    BY <1>1
  <1>3. s \in 0 .. n - 1
    BY <1>2 DEF Slots
  <1>4. Back(n, s, 0) = s /\ \A j \in 0 .. n - 1 : Back(n, s, j) \in 0 .. n - 1
    BY <1>3, Circle
  <1>5. 0 \in 0 .. n - 1 /\ 1 \in 0 .. n - 1 /\ n - 1 \in 0 .. n - 1
    OBVIOUS
  <1> QED BY <1>2, <1>4, <1>5 DEF Slots, EntryFrom

LEMMA EntriesBack ==
  ASSUME Types, HeadersOK, NEW h \in Headers, NEW s \in Slots(h), NEW j \in Slots(h)
  PROVE  EntryFrom(h, s, j) \in Allocated
  BY SlotFacts DEF EntryFrom, HeadersOK

LEMMA CurrentEntries ==
  ASSUME Types, HeadersOK, blockIndex # <<>>
  PROVE  /\ Current \in Headers /\ blockIndex[Current].tail \in Slots(Current)
         /\ \A j \in Slots(Current) : EntryBack(j) \in Allocated
         /\ EntryBack(0) = blockIndex[Current].index[blockIndex[Current].tail]
         /\ Last \in Allocated
  <1>1. Current \in Headers
    BY TypeFacts
  <1>2. blockIndex[Current].tail \in Slots(Current)
    BY <1>1, HeaderFacts
  <1>3. \A j \in Slots(Current) : EntryBack(j) \in Allocated
    BY <1>1, <1>2, EntriesBack DEF EntryBack
  <1> QED BY <1>1, <1>2, <1>3, SlotFacts DEF EntryBack, Last

LEMMA DueFacts ==
  ASSUME Types
  PROVE  /\ Due \in Nat /\ Newest \in Int /\ (Newest = Due \/ Newest = Due - 1)
         /\ ~ HasBlock => tailIndex = Key(Due)
         /\ \A i \in Nat : i < tailIndex => Number(i) < Due
         /\ \A i \in Nat : i < tailIndex => Number(i) \in 0 .. Due - 1
  <1>1. /\ tailIndex \in Nat /\ Number(tailIndex) \in Nat /\ Base(tailIndex) = Key(Number(tailIndex))
        /\ tailIndex % BLOCK_SIZE = 0 <=> Base(tailIndex) = tailIndex
        /\ Base(tailIndex) <= tailIndex /\ tailIndex < Base(tailIndex) + BLOCK_SIZE
    BY TypeFacts, IndexFacts
  <1>2. Due \in Nat /\ Newest \in Int /\ (Newest = Due \/ Newest = Due - 1)
    BY <1>1 DEF Due, Newest
  <1>3. ~ HasBlock => tailIndex = Key(Due)
    BY <1>1 DEF HasBlock, Due
  <1>4. ASSUME NEW i \in Nat, i < tailIndex PROVE Number(i) < Due
    <2>1. Number(i) \in Nat /\ Base(i) = Key(Number(i)) /\ Base(i) <= i
      BY IndexFacts
    <2>2. Key(Number(i)) < tailIndex
      BY <1>1, <1>4, <2>1, Bounds, KeyFacts
    <2>3. CASE HasBlock
      <3>1. Due = Number(tailIndex) + 1
        BY <2>3 DEF Due
      <3>2. Number(tailIndex) < Number(i) => Key(Number(tailIndex)) + BLOCK_SIZE <= Key(Number(i))
        BY <1>1, <2>1, KeyOrder
      <3>3. ~ (Key(Number(tailIndex)) + BLOCK_SIZE <= Key(Number(i)))
        BY <1>1, <2>1, <2>2, Bounds, KeyFacts
      <3> QED BY <1>1, <2>1, <3>1, <3>2, <3>3
    <2>4. CASE ~ HasBlock
      <3>1. Key(Number(i)) < Key(Due)
        BY <1>3, <2>2, <2>4
      <3> QED BY <1>2, <2>1, <3>1, KeyOrder
    <2> QED BY <2>3, <2>4
  <1>5. \A i \in Nat : i < tailIndex => Number(i) < Due
    BY <1>4
  <1>6. \A i \in Nat : i < tailIndex => Number(i) \in 0 .. Due - 1
    BY <1>2, <1>5, IndexFacts
  <1> QED BY <1>2, <1>3, <1>5, <1>6

\* The entry of a block that has been in the index is as far behind the
\* newest one as the block.
LEMMA Positions ==
  ASSUME Types, HeadersOK, KeysOK, blockIndex # <<>>,
         NEW e \in Allocated, NEW q \in 0 .. Due - 1, KeyOf(e) = Key(q)
  PROVE  Newest - q \in Slots(Current) /\ e = EntryBack(Newest - q)
  <1>1. PICK j \in Slots(Current) : e = EntryBack(j)
    BY DEF HeadersOK
  <1>2. KeyAt(j)
    BY DEF KeysOK
  <1>3. /\ Due \in Nat /\ Newest \in Int /\ q \in Nat /\ q \in Int /\ q # Due
    BY DueFacts
  <1>4. j \in Int
    BY CurrentEntries, HeaderFacts DEF Slots
  <1>5. Key(q) # INVALID_BLOCK_BASE
    BY <1>3, KeyFacts
  <1>6. Key(q) # Key(Due)
    BY <1>3, KeyOrder
  <1>7. Key(q) = Key(Newest - j)
    BY <1>1, <1>2, <1>5, <1>6 DEF KeyAt, Stale
  <1>8. Newest - j \in Int
    BY <1>3, <1>4
  <1>9. q = Newest - j
    BY <1>3, <1>7, <1>8, KeyOrder
  <1>10. j = Newest - q
    BY <1>3, <1>4, <1>9
  <1> QED BY <1>1, <1>10

LEMMA UniqueEntry ==
  ASSUME Types, HeadersOK, KeysOK, blockIndex # <<>>, NEW e \in Allocated, NEW f \in Allocated,
         NEW q \in 0 .. Due - 1, KeyOf(e) = Key(q), KeyOf(f) = Key(q)
  PROVE  e = f
  BY Positions

\* The newest entry leads to every live block.
LEMMA CurrentLeads ==
  Types /\ HeadersOK /\ KeysOK /\ LiveOK /\ blockIndex # <<>> =>
    \A q \in Nat : Live(q) => Leads(Current, blockIndex[Current].tail, q)
  <1> SUFFICES ASSUME Types, HeadersOK, KeysOK, LiveOK, blockIndex # <<>>, NEW q \in Nat, Live(q)
               PROVE  Leads(Current, blockIndex[Current].tail, q)
    OBVIOUS
  <1>1. PICK e \in Allocated : KeyOf(e) = Key(q)
    BY DEF LiveOK
  <1>2. q \in 0 .. Due - 1
    BY DEF Live
  <1>3. Newest - q \in Slots(Current) /\ e = EntryBack(Newest - q)
    BY <1>1, <1>2, Positions
  <1>4. Newest \in Int /\ Newest - q >= 0
    BY <1>3, DueFacts, CurrentEntries, HeaderFacts DEF Slots
  <1>5. Newest >= 0 /\ q + (Newest - q) = Newest
    BY <1>4
  <1>6. KeyOf(EntryBack(0)) = Key(q + (Newest - q))
    BY <1>5 DEF KeysOK
  <1>7. KeyOf(blockIndex[Current].index[blockIndex[Current].tail]) = Key(q + (Newest - q))
    BY <1>6, CurrentEntries
  <1>8. KeyOf(EntryFrom(Current, blockIndex[Current].tail, Newest - q)) = Key(q)
    BY <1>1, <1>3 DEF EntryBack
  <1> QED BY <1>3, <1>7, <1>8 DEF Leads

\* What a consumer has claimed is in a live block.
LEMMA ClaimsAreLive ==
  CountInv /\ Types =>
    \A c \in Consumers : pc[c] \in Indexed /\ loc[c].index < headIndex =>
      Live(Number(loc[c].index)) /\ Base(loc[c].index) = Key(Number(loc[c].index))
  <1> SUFFICES ASSUME CountInv, Types, NEW c \in Consumers, pc[c] \in Indexed, loc[c].index < headIndex
               PROVE  Live(Number(loc[c].index)) /\ Base(loc[c].index) = Key(Number(loc[c].index))
    OBVIOUS
  <1>1. headIndex \in Nat /\ tailIndex \in Nat /\ headIndex <= tailIndex
    <2>1. Promised <= tailIndex /\ Cardinality(Claiming) \in Nat /\ headIndex \in Nat /\ tailIndex \in Nat
      BY CountTypes, Sizes DEF CountInv, CountersOK
    <2> QED BY <2>1 DEF Promised
  <1>2. PICK i \in Nat : i = loc[c].index
    BY TypeFacts DEF Locals
  <1>3. i < tailIndex
    BY <1>1, <1>2
  <1>4. Number(i) \in 0 .. Due - 1 /\ Base(i) = Key(Number(i))
    BY <1>3, DueFacts, IndexFacts
  <1>5. pc[c] # "set_empty"
    BY DEF Indexed
  <1>6. c \in HoldersOf(Key(Number(i)))
    BY <1>2, <1>4, <1>5 DEF HoldersOf, Holds, HeldKey
  <1> QED BY <1>2, <1>4, <1>6 DEF Live

LEMMA HeadIsBehind ==
  ASSUME CountInv
  PROVE  headIndex \in Nat /\ tailIndex \in Nat /\ headIndex <= tailIndex
  <1>1. Promised <= tailIndex /\ Cardinality(Claiming) \in Nat /\ headIndex \in Nat /\ tailIndex \in Nat
    BY CountTypes, Sizes DEF CountInv, CountersOK
  <1> QED BY <1>1 DEF Promised


----------------------------------------------------------------------------
(* What a step keeps. *)

\* No consumer looks for the block that this entry was for.
Forgotten(e) ==
  KeyOf(e) = INVALID_BLOCK_BASE \/ \E p \in Int : KeyOf(e) = Key(p) /\ \A q \in Nat : Live(q) => p < q

SameKeys == \A e \in Allocated : KeyOf(e)' = KeyOf(e) \/ Forgotten(e)

SameSlots(h) ==
  blockIndex'[h].capacity = blockIndex[h].capacity /\ blockIndex'[h].index = blockIndex[h].index

LEMMA LeadsKept ==
  ASSUME Types, HeadersOK, SameKeys, NEW h \in Headers, SameSlots(h), NEW s \in Slots(h),
         NEW q \in Nat, Live(q), Leads(h, s, q)
  PROVE  Leads(h, s, q)'
  <1>1. PICK j \in Slots(h) : /\ KeyOf(blockIndex[h].index[s]) = Key(q + j)
                              /\ KeyOf(EntryFrom(h, s, j)) = Key(q)
    BY DEF Leads
  <1>2. blockIndex[h].index[s] \in Allocated /\ EntryFrom(h, s, j) \in Allocated
    BY EntriesBack DEF HeadersOK
  <1>3. j \in Nat /\ q + j \in Nat /\ q <= q + j /\ q <= q
    BY HeaderFacts DEF Slots
  <1>4. ASSUME NEW e \in Allocated, NEW r \in Nat, q <= r, KeyOf(e) = Key(r)
        PROVE  KeyOf(e)' = Key(r)
    <2>1. Key(r) # INVALID_BLOCK_BASE
      BY KeyFacts
    <2>2. ASSUME NEW p \in Int, Key(r) = Key(p), p < q PROVE FALSE
      <3>1. r = p
        BY <2>2, KeyOrder
      <3> QED BY <1>4, <2>2, <3>1
    <2>3. ~ Forgotten(e)
      BY <1>4, <2>1, <2>2 DEF Forgotten
    <2> QED BY <1>4, <2>3 DEF SameKeys
  <1>5. Slots(h)' = Slots(h) /\ EntryFrom(h, s, j)' = EntryFrom(h, s, j)
        /\ blockIndex'[h].index[s] = blockIndex[h].index[s]
    BY DEF SameSlots, Slots, EntryFrom
  <1>6. PICK e \in Allocated, f \in Allocated :
          e = blockIndex[h].index[s] /\ f = EntryFrom(h, s, j)
    BY <1>2
  <1>7. KeyOf(e) = Key(q + j) /\ KeyOf(f) = Key(q)
    BY <1>1, <1>6
  <1>8. KeyOf(e)' = Key(q + j) /\ KeyOf(f)' = Key(q)
    BY <1>3, <1>4, <1>7
  <1>9. KeyOf(blockIndex[h].index[s])' = Key(q + j) /\ KeyOf(EntryFrom(h, s, j))' = Key(q)
    BY <1>5, <1>6, <1>8 DEF KeyOf
  <1> QED BY <1>5, <1>9 DEF Leads

\* A step of somebody else leaves a consumer what it relies on.
LEMMA ReliedOn ==
  ASSUME Types, HeadersOK, SameKeys, NEW w \in Steps, NEW l \in Locals, ConsumerAt(w, l),
         headIndex \in Nat, headIndex' \in Nat, headIndex' >= headIndex,
         Len(blockIndex') \in Nat, Len(blockIndex') >= Len(blockIndex),
         Len(entries') \in Nat, Len(entries') >= Len(entries),
         w \in Indexed => Live(Number(l.index)),
         \A h \in Headers : SameSlots(h),
         w = "load_index_tail" =>
           \/ blockIndex'[l.header].tail = blockIndex[l.header].tail
           \/ Leads(l.header, blockIndex[l.header].tail, Number(l.index))',
         w \in UsesEntry => entries'[l.entry] = entries[l.entry],
         w = "remove_entry" => blocks'[l.block].dequeued = blocks[l.block].dequeued
  PROVE  ConsumerAt(w, l)'
  <1>1. l.index \in Nat /\ Number(l.index) \in Nat
    BY IndexFacts DEF Locals
  <1>2. Headers \subseteq Headers' /\ Allocated \subseteq Allocated'
    BY TypeFacts DEF Headers, Allocated
  <1>3. w \in Indexed => l.index < headIndex'
    BY <1>1 DEF ConsumerAt
  <1>4. ASSUME w \in {"load_index_tail", "load_key"}
        PROVE  /\ l.header \in Headers' /\ l.header \in Headers /\ Slots(l.header)' = Slots(l.header)
               /\ SameSlots(l.header) /\ Live(Number(l.index))
    BY <1>2, <1>4 DEF ConsumerAt, SameSlots, Slots, Indexed
  <1>5. ASSUME w = "load_index_tail"
        PROVE  Leads(l.header, blockIndex[l.header].tail, Number(l.index))'
    <2>1. PICK s \in Slots(l.header) : s = blockIndex[l.header].tail
      BY <1>4, <1>5, HeaderFacts
    <2>2. Leads(l.header, s, Number(l.index))
      BY <1>5, <2>1 DEF ConsumerAt
    <2>3. Leads(l.header, s, Number(l.index))'
      BY <1>1, <1>4, <1>5, <2>2, LeadsKept
    <2> QED BY <1>5, <2>1, <2>3
  <1>6. ASSUME w = "load_key"
        PROVE  l.indexTail \in Slots(l.header)' /\ Leads(l.header, l.indexTail, Number(l.index))'
    <2>1. l.indexTail \in Slots(l.header) /\ Leads(l.header, l.indexTail, Number(l.index))
      BY <1>6 DEF ConsumerAt
    <2> QED BY <1>1, <1>4, <1>6, <2>1, LeadsKept
  <1>7. ASSUME w \in UsesEntry
        PROVE  /\ l.entry \in Allocated' /\ ValueOf(l.entry)' = ValueOf(l.entry)
               /\ KeyOf(l.entry)' = KeyOf(l.entry) /\ ValueOf(l.entry) \in Blocks
    BY <1>2, <1>7 DEF ConsumerAt, ValueOf, KeyOf
  <1>8. /\ w \in {"load_value", "move"} => w \in UsesEntry
        /\ w \in {"move", "set_empty", "remove_entry"} => w \in UsesEntry
    BY DEF UsesEntry
  <1>9. /\ w \in {"load_value", "move"} => KeyOf(l.entry)' = Base(l.index)
        /\ w \in {"move", "set_empty", "remove_entry"} => l.block = ValueOf(l.entry)'
        /\ w = "remove_entry" => blocks'[l.block].dequeued = BLOCK_SIZE
        /\ w = "free_block" => l.block \in Blocks
    BY <1>7, <1>8 DEF ConsumerAt
  <1> QED BY <1>3, <1>4, <1>5, <1>6, <1>7, <1>9 DEF ConsumerAt

SameClaims ==
  \A c \in Consumers : (Holds(c)' <=> Holds(c)) /\ (Holds(c) => HeldKey(c)' = HeldKey(c))

LEMMA SameHolders ==
  ASSUME SameClaims, NEW k
  PROVE  HoldersOf(k)' = HoldersOf(k)
  BY DEF SameClaims, HoldersOf

LEMMA HoldersAre ==
  ASSUME NEW k
  PROVE  /\ HoldersOf(k) \in SUBSET Consumers /\ IsFiniteSet(HoldersOf(k))
         /\ Cardinality(HoldersOf(k)) \in Nat
         /\ HoldersOf(k) = {} <=> Cardinality(HoldersOf(k)) = 0
  <1>1. HoldersOf(k) \in SUBSET Consumers
    BY DEF HoldersOf
  <1>2. IsFiniteSet(HoldersOf(k)) /\ Cardinality(HoldersOf(k)) \in Nat
    BY <1>1, Sizes
  <1>3. HoldersOf(k) = {} <=> Cardinality(HoldersOf(k)) = 0
    BY <1>2, FS_EmptySet
  <1> QED BY <1>1, <1>2, <1>3

\* The blocks in the index, their entries, and what is in them, stay.
SameBlocks ==
  /\ \A e \in Allocated : ValueOf(e) \in Blocks =>
       /\ e \in Allocated' /\ entries'[e] = entries[e]
       /\ blocks'[ValueOf(e)].dequeued = blocks[ValueOf(e)].dequeued
  /\ \A e \in Allocated' : entries'[e].value \in Blocks => e \in Allocated /\ entries'[e] = entries[e]

LEMMA LiveSame ==
  ASSUME SameClaims, Due' = Due, headIndex' = headIndex, NEW q
  PROVE  Live(q)' <=> Live(q)
  BY SameHolders DEF Live

LEMMA LiveKept ==
  ASSUME LiveOK, SameClaims, SameBlocks, Due' = Due, headIndex' = headIndex
  PROVE  LiveOK'
  <1>1. ASSUME NEW e \in Allocated', entries'[e].value \in Blocks PROVE BlockOK(e)'
    <2>1. /\ e \in Allocated /\ entries'[e] = entries[e] /\ ValueOf(e) \in Blocks
          /\ blocks'[ValueOf(e)].dequeued = blocks[ValueOf(e)].dequeued
      BY <1>1 DEF SameBlocks, ValueOf
    <2>2. PICK q \in 0 .. Due - 1 :
            /\ KeyOf(e) = Key(q)
            /\ blocks[ValueOf(e)].dequeued + Cardinality(HoldersOf(Key(q))) = ClaimedOf(Key(q))
      BY <2>1 DEF LiveOK, BlockOK
    <2>3. HoldersOf(Key(q))' = HoldersOf(Key(q)) /\ ClaimedOf(Key(q))' = ClaimedOf(Key(q))
      BY SameHolders DEF ClaimedOf
    <2>4. KeyOf(e)' = KeyOf(e) /\ ValueOf(e)' = ValueOf(e)
      BY <2>1 DEF KeyOf, ValueOf
    <2>5. blocks'[ValueOf(e)'].dequeued + Cardinality(HoldersOf(Key(q))') = ClaimedOf(Key(q))'
      BY <2>1, <2>2, <2>3, <2>4
    <2> QED BY <2>2, <2>4, <2>5 DEF BlockOK
  <1>2. ASSUME NEW q \in Nat, Live(q)' PROVE \E e \in Allocated' : KeyOf(e)' = Key(q) /\ ValueOf(e)' \in Blocks
    <2>1. Live(q)
      BY <1>2, LiveSame
    <2>2. PICK e \in Allocated : KeyOf(e) = Key(q) /\ ValueOf(e) \in Blocks
      BY <2>1 DEF LiveOK
    <2>3. e \in Allocated' /\ entries'[e] = entries[e]
      BY <2>2 DEF SameBlocks
    <2> QED BY <2>2, <2>3 DEF KeyOf, ValueOf
  <1> QED BY <1>1, <1>2 DEF LiveOK, ValueOf

\* The index is as it was, except for entries that a block is removed from.
SameIndex ==
  /\ blockIndex' = blockIndex /\ Len(entries') = Len(entries)
  /\ \A e \in Allocated : KeyOf(e)' = KeyOf(e)
  /\ \A e \in Allocated :
       \/ ValueOf(e)' = ValueOf(e)
       \/ ValueOf(e)' \notin Blocks \cup {garbage} /\ KeyOf(e) # INVALID_BLOCK_BASE

LEMMA SameCircle ==
  ASSUME SameIndex
  PROVE  /\ Current' = Current /\ Headers' = Headers /\ Allocated' = Allocated
         /\ \A h : Slots(h)' = Slots(h)
         /\ \A h, s, j : EntryFrom(h, s, j)' = EntryFrom(h, s, j)
         /\ \A j : EntryBack(j)' = EntryBack(j)
         /\ Last' = Last
  BY DEF SameIndex, Current, Headers, Allocated, Slots, EntryFrom, EntryBack, Last

LEMMA HeadersKept ==
  ASSUME HeadersOK, SameIndex
  PROVE  HeadersOK'
  <1>1. /\ Current' = Current /\ Headers' = Headers /\ Allocated' = Allocated /\ blockIndex' = blockIndex
        /\ \A h : Slots(h)' = Slots(h)
        /\ \A j : EntryBack(j)' = EntryBack(j)
    BY SameCircle DEF SameIndex
  <1> QED BY <1>1 DEF HeadersOK

LEMMA KeysKept ==
  ASSUME Types, HeadersOK, KeysOK, SameIndex, Due' = Due, Newest' = Newest, HasBlock' => HasBlock,
         \A e \in Allocated : e = ploc.idxEntry /\ ppc \in Inserting /\ ValueOf(e)' = garbage =>
                                e = ploc'.idxEntry /\ ppc' \in Inserting
  PROVE  KeysOK'
  <1>1. /\ Current' = Current /\ Allocated' = Allocated /\ blockIndex' = blockIndex
        /\ \A h : Slots(h)' = Slots(h)
        /\ \A j : EntryBack(j)' = EntryBack(j)
    BY SameCircle DEF SameIndex
  <1>2. ASSUME blockIndex # <<>>, NEW j \in Slots(Current) PROVE KeyAt(j)'
    <2>1. PICK e \in Allocated : e = EntryBack(j)
      BY <1>2, CurrentEntries
    <2>2. KeyOf(e)' = KeyOf(e) /\ (ValueOf(e) \notin Blocks => ValueOf(e)' \notin Blocks)
      BY DEF SameIndex
    <2>3. /\ KeyOf(EntryBack(j))' = KeyOf(EntryBack(j))
          /\ ValueOf(EntryBack(j)) \notin Blocks => ValueOf(EntryBack(j))' \notin Blocks
      BY <1>1, <2>1, <2>2 DEF KeyOf, ValueOf
    <2>4. KeyAt(j)
      BY <1>2 DEF KeysOK
    <2>5. Stale(j) => Stale(j)'
      BY <1>1, <2>3 DEF Stale
    <2> QED BY <2>3, <2>4, <2>5 DEF KeyAt
  <1>3. ASSUME blockIndex # <<>>, Newest >= 0 PROVE KeyOf(EntryBack(0))' = Key(Newest)
    <2>1. PICK e \in Allocated : e = EntryBack(0)
      BY <1>3, CurrentEntries, SlotFacts
    <2>2. KeyOf(e)' = Key(Newest)
      BY <1>3, <2>1 DEF KeysOK, SameIndex
    <2> QED BY <1>1, <2>1, <2>2 DEF KeyOf
  <1>4. ASSUME NEW e \in Allocated
        PROVE  /\ KeyOf(e)' = INVALID_BLOCK_BASE => ValueOf(e)' = garbage
               /\ ValueOf(e)' = garbage =>
                    KeyOf(e)' = INVALID_BLOCK_BASE \/ (e = ploc'.idxEntry /\ ppc' \in Inserting)
    BY <1>4 DEF KeysOK, SameIndex
  <1> QED BY <1>1, <1>2, <1>3, <1>4 DEF KeysOK

LEMMA PlacesKept ==
  ASSUME Places, pool' = pool, ploc'.newBlock = ploc.newBlock, SameBlocks,
         \A c \in Consumers : \A w \in {"free_block", "remove_entry"} :
           (pc'[c] = w <=> pc[c] = w) /\ (pc[c] = w => loc'[c].block = loc[c].block)
  PROVE  Places'
  <1>1. ASSUME NEW b \in Blocks
        PROVE  /\ InIndex(b)' <=> InIndex(b)
               /\ BeingFreed(b)' <=> BeingFreed(b)
               /\ InIndex(b) => blocks'[b].dequeued = blocks[b].dequeued
    BY <1>1 DEF InIndex, BeingFreed, SameBlocks, ValueOf
  <1>2. ASSUME NEW e \in Allocated', NEW f \in Allocated', ValueOf(e)' \in Blocks, ValueOf(e)' = ValueOf(f)'
        PROVE  e = f
    BY <1>2 DEF SameBlocks, ValueOf, Places
  <1>3. \A c, d \in Consumers :
          pc'[c] = "free_block" /\ pc'[d] = "free_block" /\ loc'[c].block = loc'[d].block => c = d
    BY DEF Places
  <1>4. \A b \in Blocks :
          (\E c \in Consumers : pc[c] = "remove_entry" /\ loc[c].block = b) =>
            \E c \in Consumers : pc'[c] = "remove_entry" /\ loc'[c].block = b
    OBVIOUS
  <1> QED BY <1>1, <1>2, <1>3, <1>4 DEF Places


----------------------------------------------------------------------------
(* The steps of the consumers. *)

LEMMA RelyOn ==
  ASSUME BlockInv, CountInv', Types', NEW d \in Consumers, pc'[d] = pc[d], loc'[d] = loc[d],
         SameKeys, headIndex' >= headIndex,
         Len(blockIndex') >= Len(blockIndex), Len(entries') >= Len(entries),
         \A h \in Headers : SameSlots(h),
         pc[d] = "load_index_tail" =>
           \/ blockIndex'[loc[d].header].tail = blockIndex[loc[d].header].tail
           \/ Leads(loc[d].header, blockIndex[loc[d].header].tail, Number(loc[d].index))',
         pc[d] \in UsesEntry => entries'[loc[d].entry] = entries[loc[d].entry],
         pc[d] = "remove_entry" => blocks'[loc[d].block].dequeued = blocks[loc[d].block].dequeued
  PROVE  ConsumerAt(pc[d], loc[d])'
  <1>1. PICK w \in Steps, l \in Locals : w = pc[d] /\ l = loc[d]
    BY TypeFacts DEF BlockInv, IndexInv
  <1>2. ConsumerAt(w, l)
    BY <1>1 DEF BlockInv, IndexInv, ConsumersOK
  <1>3. w \in Indexed => Live(Number(l.index))
    BY <1>1, <1>2, ClaimsAreLive DEF BlockInv, IndexInv, ConsumerAt
  <1>4. headIndex \in Nat /\ headIndex' \in Nat
    BY DEF BlockInv, CountInv, CountersOK
  <1>5. Len(blockIndex') \in Nat /\ Len(entries') \in Nat
    BY LenProperties DEF Types
  <1>6. w = "load_index_tail" =>
          \/ blockIndex'[l.header].tail = blockIndex[l.header].tail
          \/ Leads(l.header, blockIndex[l.header].tail, Number(l.index))'
    BY <1>1 DEF Leads, Slots, KeyOf, EntryFrom
  <1>7. ConsumerAt(w, l)'
    BY <1>1, <1>2, <1>3, <1>4, <1>5, <1>6, ReliedOn DEF BlockInv, IndexInv
  <1>8. pc'[d] = w /\ loc'[d] = l
    BY <1>1
  <1> QED BY <1>7, <1>8 DEF ConsumerAt, Leads, Slots, KeyOf, ValueOf, EntryFrom, Headers, Allocated

LEMMA LookStep ==
  ASSUME BlockInv, NEW c \in Consumers, NEW w \in Steps, NEW l \in Locals,
         pc' = [pc EXCEPT ![c] = w], loc' = [loc EXCEPT ![c] = l],
         UNCHANGED <<memory, ppc, ploc, tailIndex, headIndex>>,
         dequeueOptimisticCount' \in 0 .. MaxAttempts,
         ConsumerAt(w, l),
         pc[c] \notin {"free_block", "remove_entry", "set_empty"},
         w \notin {"free_block", "remove_entry", "set_empty"},
         pc[c] \in Indexed <=> w \in Indexed, w \in Indexed => l.index = loc[c].index
  PROVE  IndexInv'
  <1>0. Types /\ HeadersOK /\ KeysOK /\ LiveOK /\ ConsumersOK /\ Places /\ ProducerOK
    BY DEF BlockInv, IndexInv
  <1>1. UNCHANGED <<tailBlock, blockIndex, entries, blocks, pool>>
    BY DEF memory
  <1>2. Types'
    BY <1>0, <1>1 DEF Types
  <1>3. \A d \in Consumers : /\ pc'[d] = IF d = c THEN w ELSE pc[d]
                             /\ loc'[d] = IF d = c THEN l ELSE loc[d]
    BY <1>0 DEF Types
  <1>4. SameClaims
    BY <1>1, <1>3 DEF SameClaims, Holds, HeldKey, KeyOf
  <1>5. Due' = Due /\ Newest' = Newest /\ (HasBlock' <=> HasBlock)
    BY DEF Due, Newest, HasBlock
  <1>6. SameIndex /\ SameBlocks
    BY <1>1 DEF SameIndex, SameBlocks, KeyOf, ValueOf, Allocated
  <1>7. ProducerOK'
    BY <1>0, <1>1, <1>5 DEF ProducerOK, KeyOf, ValueOf, Last, EntryBack, EntryFrom, Current
  <1>8. HeadersOK' /\ KeysOK' /\ LiveOK'
    BY <1>0, <1>4, <1>5, <1>6, HeadersKept, KeysKept, LiveKept
  <1>9. Places'
    <2>1. \A d \in Consumers : \A v \in {"free_block", "remove_entry"} :
            (pc'[d] = v <=> pc[d] = v) /\ (pc[d] = v => loc'[d].block = loc[d].block)
      BY <1>3
    <2> QED BY <1>0, <1>1, <1>6, <2>1, PlacesKept
  <1>10. ASSUME NEW d \in Consumers PROVE ConsumerAt(pc[d], loc[d])'
    <2>1. ConsumerAt(pc'[d], loc'[d])
      BY <1>0, <1>3 DEF ConsumersOK
    <2>2. \A h, x, q : Leads(h, x, q)' <=> Leads(h, x, q)
      BY <1>1 DEF Leads, Slots, KeyOf, EntryFrom
    <2>3. /\ Headers' = Headers /\ Allocated' = Allocated
          /\ \A h : Slots(h)' = Slots(h)
          /\ \A e : ValueOf(e)' = ValueOf(e) /\ KeyOf(e)' = KeyOf(e)
      BY <1>1 DEF Headers, Allocated, Slots, ValueOf, KeyOf
    <2> QED BY <1>1, <2>1, <2>2, <2>3 DEF ConsumerAt
  <1>11. ConsumersOK'
    BY <1>0, <1>3, <1>10 DEF ConsumersOK
  <1> QED BY <1>2, <1>7, <1>8, <1>9, <1>11 DEF IndexInv

LEMMA NothingNeeded ==
  ASSUME NEW w \in {"idle"} \cup Before, NEW l
  PROVE  /\ ConsumerAt(w, l) /\ w \in Steps
         /\ w \notin Indexed /\ w \notin {"free_block", "remove_entry", "set_empty"}
  BY DEF ConsumerAt, Before, Indexed, UsesEntry, Steps

LEMMA NoLocalsType == NoLocals \in Locals
  BY Bounds DEF NoLocals, Locals, Word

\* The steps before an element is claimed.
LEMMA BeforeStep ==
  ASSUME BlockInv, NEW c \in Consumers, NEW w \in {"idle"} \cup Before, NEW l \in Locals,
         pc' = [pc EXCEPT ![c] = w], loc' = [loc EXCEPT ![c] = l],
         UNCHANGED <<memory, ppc, ploc, tailIndex, headIndex>>,
         dequeueOptimisticCount' \in 0 .. MaxAttempts,
         pc[c] \in {"idle"} \cup Before
  PROVE  IndexInv'
  <1>1. /\ ConsumerAt(w, l) /\ w \in Steps
        /\ w \notin Indexed /\ w \notin {"free_block", "remove_entry", "set_empty"}
    BY NothingNeeded
  <1>2. pc[c] \notin Indexed /\ pc[c] \notin {"free_block", "remove_entry", "set_empty"}
    BY DEF Before, Indexed
  <1> QED BY <1>1, <1>2, LookStep

LEMMA CountingSteps ==
  ASSUME BlockInv, NEW c \in Consumers, UNCHANGED <<ppc, ploc>>,
         LoadTail(c) \/ LoadOvercommit(c) \/ LoadCount(c) \/ Count(c) \/ ReloadTail(c) \/ Overcommit(c)
  PROVE  IndexInv'
  <1>0. /\ loc[c] \in Locals /\ loc \in [Consumers -> Locals] /\ NoLocals \in Locals
        /\ tailIndex \in Nat /\ dequeueOvercommit \in Nat
        /\ dequeueOptimisticCount \in 0 .. MaxAttempts /\ MaxAttempts \in Nat
    BY TypeFacts, NoLocalsType, Bounds DEF BlockInv, IndexInv, Types, CountInv, CountersOK
  <1>1. CASE LoadTail(c)
    <2>1. [loc[c] EXCEPT !.tail = tailIndex] \in Locals /\ "load_overcommit" \in {"idle"} \cup Before
      BY <1>0 DEF Locals, Before
    <2>2. loc' = [loc EXCEPT ![c] = [loc[c] EXCEPT !.tail = tailIndex]]
      BY <1>0, <1>1 DEF LoadTail
    <2> QED BY <1>0, <1>1, <2>1, <2>2, BeforeStep DEF LoadTail, Go, counters
  <1>2. CASE LoadOvercommit(c)
    <2>1. /\ [loc[c] EXCEPT !.overcommit = dequeueOvercommit] \in Locals
          /\ {"load_count", "load_overcommit"} \subseteq {"idle"} \cup Before
      BY <1>0 DEF Locals, Before
    <2>2. loc' = [loc EXCEPT ![c] = [loc[c] EXCEPT !.overcommit = dequeueOvercommit]]
      BY <1>0, <1>2 DEF LoadOvercommit
    <2> QED BY <1>0, <1>2, <2>1, <2>2, BeforeStep DEF LoadOvercommit, Go, counters
  <1>3. CASE LoadCount(c)
    <2>1. /\ [loc[c] EXCEPT !.tail = 0] \in Locals
          /\ {"load_count", "count", "idle"} \subseteq {"idle"} \cup Before
      BY <1>0 DEF Locals, Before
    <2>2. \/ loc' = [loc EXCEPT ![c] = [loc[c] EXCEPT !.tail = 0]] /\ Go(c, "count")
          \/ loc' = [loc EXCEPT ![c] = NoLocals] /\ Go(c, "idle")
      BY <1>0, <1>3 DEF LoadCount, Return
    <2> QED BY <1>0, <1>3, <2>1, <2>2, BeforeStep DEF LoadCount, Go, counters
  <1>4. CASE Count(c)
    <2>1. /\ [loc[c] EXCEPT !.myDequeueCount = dequeueOptimisticCount] \in Locals
          /\ {"count", "reload_tail"} \subseteq {"idle"} \cup Before
      BY <1>0 DEF Locals, Before
    <2>2. loc' = [loc EXCEPT ![c] = [loc[c] EXCEPT !.myDequeueCount = dequeueOptimisticCount]]
      BY <1>0, <1>4 DEF Count
    <2>3. dequeueOptimisticCount' \in 0 .. MaxAttempts
      BY <1>0, <1>4 DEF Count
    <2> QED BY <1>0, <1>4, <2>1, <2>2, <2>3, BeforeStep DEF Count, Go
  <1>5. CASE ReloadTail(c)
    <2>1. {"reload_tail", "claim", "overcommit"} \subseteq {"idle"} \cup Before
      BY DEF Before
    <2> QED BY <1>0, <1>5, <2>1, BeforeStep DEF ReloadTail, Go, counters
  <1>6. CASE Overcommit(c)
    <2>1. "overcommit" \in {"idle"} \cup Before
      BY DEF Before
    <2> QED BY <1>0, <1>6, <2>1, BeforeStep DEF Overcommit, Go, Return
  <1> QED BY <1>1, <1>2, <1>3, <1>4, <1>5, <1>6


LEMMA ClaimFacts ==
  ASSUME BlockInv, NEW c \in Consumers, pc[c] \in Indexed
  PROVE  /\ loc[c].index \in Nat /\ loc[c].index < headIndex
         /\ Number(loc[c].index) \in Nat /\ Number(loc[c].index) \in 0 .. Due - 1
         /\ Live(Number(loc[c].index))
         /\ Base(loc[c].index) = Key(Number(loc[c].index)) /\ blockIndex # <<>>
  <1>0. Types /\ ProducerOK /\ ConsumersOK /\ CountInv
    BY DEF BlockInv, IndexInv
  <1>1. loc[c].index \in Nat
    BY <1>0, TypeFacts DEF Locals
  <1>2. loc[c].index < headIndex
    BY <1>0 DEF ConsumersOK, ConsumerAt
  <1>3. Live(Number(loc[c].index)) /\ Base(loc[c].index) = Key(Number(loc[c].index))
    BY <1>0, <1>2, ClaimsAreLive
  <1>4. headIndex \in Nat /\ tailIndex \in Nat /\ headIndex <= tailIndex
    BY <1>0, HeadIsBehind
  <1>5. blockIndex # <<>>
    BY <1>0, <1>1, <1>2, <1>4 DEF ProducerOK
  <1>6. Number(loc[c].index) \in Nat
    BY <1>1, IndexFacts
  <1> QED BY <1>1, <1>2, <1>3, <1>5, <1>6 DEF Live

LEMMA LookingSteps ==
  ASSUME BlockInv, NEW c \in Consumers, UNCHANGED <<ppc, ploc>>,
         LoadHeader(c) \/ LoadIndexTail(c) \/ LoadKey(c) \/ LoadValue(c)
  PROVE  IndexInv'
  <1>0. /\ Types /\ ProducerOK /\ HeadersOK /\ KeysOK /\ LiveOK /\ ConsumersOK /\ CountInv
        /\ loc[c] \in Locals /\ loc \in [Consumers -> Locals]
        /\ dequeueOptimisticCount \in 0 .. MaxAttempts
        /\ ConsumerAt(pc[c], loc[c])
    BY TypeFacts DEF BlockInv, IndexInv, Types, ConsumersOK
  <1>1. pc[c] \in {"load_header", "load_index_tail", "load_key", "load_value"}
    BY DEF LoadHeader, LoadIndexTail, LoadKey, LoadValue
  <1>2. pc[c] \in Indexed /\ pc[c] \notin {"free_block", "remove_entry", "set_empty"}
    BY <1>1 DEF Indexed
  <1>3. PICK q \in Nat : q = Number(loc[c].index)
    BY <1>2, ClaimFacts
  <1>4. /\ loc[c].index \in Nat /\ loc[c].index < headIndex /\ q \in 0 .. Due - 1 /\ Live(q)
        /\ Base(loc[c].index) = Key(q) /\ blockIndex # <<>>
    BY <1>2, <1>3, ClaimFacts
  <1>5. ASSUME NEW w \in {"load_index_tail", "load_key", "load_value", "move"}, NEW l \in Locals,
               pc' = [pc EXCEPT ![c] = w], loc' = [loc EXCEPT ![c] = l],
               UNCHANGED <<counters, memory>>, l.index = loc[c].index, ConsumerAt(w, l)
        PROVE  IndexInv'
    <2>1. w \in Indexed /\ w \in Steps /\ w \notin {"free_block", "remove_entry", "set_empty"}
      BY DEF Indexed, Steps
    <2>2. UNCHANGED <<tailIndex, headIndex>> /\ dequeueOptimisticCount' \in 0 .. MaxAttempts
      BY <1>0, <1>5 DEF counters
    <2> QED BY <1>2, <1>5, <2>1, <2>2, LookStep
  <1>6. CASE LoadHeader(c)
    <2> DEFINE l == [loc[c] EXCEPT !.header = Len(blockIndex)]
    <2>1. l \in Locals /\ l.index = loc[c].index /\ l.header = Current
      BY <1>0, TypeFacts DEF Locals, Current
    <2>2. loc' = [loc EXCEPT ![c] = l] /\ pc' = [pc EXCEPT ![c] = "load_index_tail"]
          /\ UNCHANGED <<counters, memory>>
      BY <1>0, <1>6 DEF LoadHeader, Go
    <2> HIDE DEF l
    <2>3. Current \in Headers
      BY <1>0, <1>4, TypeFacts
    <2>4. Leads(Current, blockIndex[Current].tail, q)
      BY <1>0, <1>4, CurrentLeads
    <2>5. ConsumerAt("load_index_tail", l)
      BY <1>3, <1>4, <2>1, <2>3, <2>4 DEF ConsumerAt, UsesEntry
    <2> QED BY <1>5, <2>1, <2>2, <2>5
  <1>7. CASE LoadIndexTail(c)
    <2>1. loc[c].header \in Headers /\ Leads(loc[c].header, blockIndex[loc[c].header].tail, q)
      BY <1>0, <1>3, <1>7 DEF ConsumerAt, LoadIndexTail
    <2>2. PICK s \in Slots(loc[c].header) : s = blockIndex[loc[c].header].tail
      BY <1>0, <2>1, HeaderFacts
    <2>3. s \in Nat
      BY <1>0, <2>1, HeaderFacts DEF Slots
    <2> DEFINE l == [loc[c] EXCEPT !.indexTail = s]
    <2>4. l \in Locals /\ l.index = loc[c].index /\ l.header = loc[c].header /\ l.indexTail = s
      BY <1>0, <2>3 DEF Locals
    <2>5. loc' = [loc EXCEPT ![c] = l] /\ pc' = [pc EXCEPT ![c] = "load_key"]
          /\ UNCHANGED <<counters, memory>>
      BY <1>0, <1>7, <2>2 DEF LoadIndexTail, Go
    <2> HIDE DEF l
    <2>6. ConsumerAt("load_key", l)
      BY <1>3, <1>4, <2>1, <2>2, <2>4 DEF ConsumerAt, UsesEntry
    <2> QED BY <1>5, <2>4, <2>5, <2>6
  <1>8. CASE LoadKey(c)
    <2>1. /\ loc[c].header \in Headers /\ loc[c].indexTail \in Slots(loc[c].header)
          /\ Leads(loc[c].header, loc[c].indexTail, q)
      BY <1>0, <1>3, <1>8 DEF ConsumerAt, LoadKey
    <2>0. PICK h \in Headers : h = loc[c].header
      BY <2>1
    <2>2. PICK s \in Slots(h) : h = loc[c].header /\ s = loc[c].indexTail
      BY <2>0, <2>1
    <2>3. PICK j \in Slots(h) : /\ KeyOf(blockIndex[h].index[s]) = Key(q + j)
                                /\ KeyOf(EntryFrom(h, s, j)) = Key(q)
      BY <2>1, <2>2 DEF Leads
    <2>4. PICK n \in Nat \ {0, 1} : n = blockIndex[h].capacity
      BY <1>0, HeaderFacts
    <2>5. s \in 0 .. n - 1 /\ j \in 0 .. n - 1
      BY <2>4 DEF Slots
    <2>6. (Key(q) - Key(q + j)) \div BLOCK_SIZE = q - (q + j)
      <3>1. q + j \in Nat
        BY <2>5
      <3> QED BY <3>1, KeysApart
    <2>7. (s + (q - (q + j))) % n = Back(n, s, j)
      <3>1. s + (q - (q + j)) = s - j
        BY <2>5
      <3>2. (s - j) % n = Back(n, s, j)
        BY <2>5, Circle
      <3> QED BY <3>1, <3>2
    <2>8. PICK e \in Allocated : e = EntryFrom(h, s, j)
      BY <1>0, EntriesBack
    <2>9. KeyOf(e) = Key(q) /\ e = blockIndex[h].index[Back(n, s, j)]
      BY <2>3, <2>4, <2>8 DEF EntryFrom
    <2>10. ValueOf(e) \in Blocks
      <3>1. PICK f \in Allocated : KeyOf(f) = Key(q) /\ ValueOf(f) \in Blocks
        BY <1>0, <1>4 DEF LiveOK
      <3>2. e = f
        BY <1>0, <1>4, <2>9, <3>1, UniqueEntry
      <3> QED BY <3>1, <3>2
    <2> DEFINE l == [loc[c] EXCEPT !.entry = e, !.header = 0, !.indexTail = 0]
    <2>11. e \in Nat
      BY <1>0, TypeFacts DEF Allocated
    <2>12. l \in Locals /\ l.index = loc[c].index /\ l.entry = e
      BY <1>0, <2>11 DEF Locals
    <2>13. loc' = [loc EXCEPT ![c] = l]
      <3>1. loc' = [loc EXCEPT ![c].entry = blockIndex[h].index[
                      (s + ((Base(loc[c].index) - entries[blockIndex[h].index[s]].key) \div BLOCK_SIZE)) % n],
                               ![c].header = 0, ![c].indexTail = 0]
        BY <1>8, <2>2, <2>4 DEF LoadKey
      <3>2. entries[blockIndex[h].index[s]].key = Key(q + j)
        BY <2>3 DEF KeyOf
      <3>3. loc' = [loc EXCEPT ![c].entry = blockIndex[h].index[
                      (s + ((Key(q) - Key(q + j)) \div BLOCK_SIZE)) % n],
                               ![c].header = 0, ![c].indexTail = 0]
        BY <1>4, <3>1, <3>2
      <3>4. loc' = [loc EXCEPT ![c].entry = e, ![c].header = 0, ![c].indexTail = 0]
        BY <2>6, <2>7, <2>9, <3>3
      <3> QED BY <1>0, <3>4
    <2>14. pc' = [pc EXCEPT ![c] = "load_value"] /\ UNCHANGED <<counters, memory>>
      BY <1>8 DEF LoadKey, Go
    <2> HIDE DEF l
    <2>15. ConsumerAt("load_value", l)
      BY <1>4, <2>9, <2>10, <2>12 DEF ConsumerAt, UsesEntry
    <2> QED BY <1>5, <2>12, <2>13, <2>14, <2>15
  <1>9. CASE LoadValue(c)
    <2>1. /\ loc[c].entry \in Allocated /\ ValueOf(loc[c].entry) \in Blocks
          /\ KeyOf(loc[c].entry) = Base(loc[c].index)
      BY <1>0, <1>9 DEF ConsumerAt, LoadValue, UsesEntry
    <2>2. PICK b \in Blocks : b = ValueOf(loc[c].entry)
      BY <2>1
    <2> DEFINE l == [loc[c] EXCEPT !.block = b]
    <2>3. l \in Locals /\ l.index = loc[c].index /\ l.entry = loc[c].entry /\ l.block = b
      BY <1>0 DEF Locals
    <2>4. loc' = [loc EXCEPT ![c] = l] /\ pc' = [pc EXCEPT ![c] = "move"]
          /\ UNCHANGED <<counters, memory>>
      BY <1>0, <1>9, <2>2 DEF LoadValue, Go, ValueOf
    <2> HIDE DEF l
    <2>5. ConsumerAt("move", l)
      BY <1>4, <2>1, <2>2, <2>3 DEF ConsumerAt, UsesEntry
    <2> QED BY <1>5, <2>3, <2>4, <2>5
  <1> QED BY <1>6, <1>7, <1>8, <1>9


LEMMA OthersRelyOn ==
  ASSUME BlockInv, CountInv', Types', NEW c \in Consumers,
         \A d \in Consumers \ {c} : pc'[d] = pc[d] /\ loc'[d] = loc[d],
         blockIndex' = blockIndex, Len(entries') = Len(entries), headIndex' >= headIndex,
         \A e \in Allocated : KeyOf(e)' = KeyOf(e),
         \A d \in Consumers \ {c} :
           /\ pc[d] \in UsesEntry => entries'[loc[d].entry] = entries[loc[d].entry]
           /\ pc[d] = "remove_entry" => blocks'[loc[d].block].dequeued = blocks[loc[d].block].dequeued
           /\ pc[d] = "remove_entry" /\ pc'[c] = "remove_entry" => loc[d].entry # loc'[c].entry,
         ConsumerAt(pc[c], loc[c])'
  PROVE  ConsumersOK'
  <1>1. SameKeys /\ \A h \in Headers : SameSlots(h)
    BY DEF SameKeys, SameSlots
  <1>2. Len(blockIndex') >= Len(blockIndex) /\ Len(entries') >= Len(entries)
    BY TypeFacts DEF BlockInv, IndexInv
  <1>3. ASSUME NEW d \in Consumers \ {c} PROVE ConsumerAt(pc[d], loc[d])'
    <2>1. /\ pc[d] \in UsesEntry => entries'[loc[d].entry] = entries[loc[d].entry]
          /\ pc[d] = "remove_entry" => blocks'[loc[d].block].dequeued = blocks[loc[d].block].dequeued
          /\ pc'[d] = pc[d] /\ loc'[d] = loc[d]
          /\ blockIndex'[loc[d].header].tail = blockIndex[loc[d].header].tail
      OBVIOUS
    <2> QED BY <1>1, <1>2, <2>1, RelyOn
  <1>4. \A d, b \in Consumers :
          pc'[d] = "remove_entry" /\ pc'[b] = "remove_entry" /\ loc'[d].entry = loc'[b].entry => d = b
    BY DEF BlockInv, IndexInv, ConsumersOK
  <1> QED BY <1>3, <1>4 DEF ConsumersOK

\* One more index of the block is claimed when headIndex moves on.
LEMMA ClaimedGrows ==
  ASSUME headIndex \in Nat, headIndex' = headIndex + 1, NEW q \in Nat
  PROVE  ClaimedOf(Key(q))' = IF q = Number(headIndex) THEN ClaimedOf(Key(q)) + 1 ELSE ClaimedOf(Key(q))
  <1>1. PICK i \in Nat, a \in Nat : i = headIndex /\ a = Number(i)
    BY IndexFacts
  <1>2. Base(i) = Key(a) /\ Key(a) <= i /\ i < Key(a) + BLOCK_SIZE /\ Key(a) \in Nat /\ Key(q) \in Nat
    BY <1>1, IndexFacts, KeyFacts
  <1>3. /\ q < a => Key(q) + BLOCK_SIZE <= Key(a)
        /\ a < q => Key(a) + BLOCK_SIZE <= Key(q)
    BY KeyOrder
  <1>4. BLOCK_SIZE \in Nat /\ BLOCK_SIZE > 1
    BY Bounds
  <1>5. PICK k \in Nat, ka \in Nat : k = Key(q) /\ ka = Key(a)
    BY <1>2
  <1>6. ClaimedOf(k)' = IF q = a THEN ClaimedOf(k) + 1 ELSE ClaimedOf(k)
    <2>1. CASE q = a
      BY <1>1, <1>2, <1>4, <1>5, <2>1 DEF ClaimedOf
    <2>2. CASE q < a
      BY <1>1, <1>2, <1>3, <1>4, <1>5, <2>2 DEF ClaimedOf
    <2>3. CASE a < q
      BY <1>1, <1>2, <1>3, <1>4, <1>5, <2>3 DEF ClaimedOf
    <2> QED BY <2>1, <2>2, <2>3
  <1> QED BY <1>1, <1>5, <1>6

LEMMA ClaimedBound ==
  ASSUME headIndex \in Nat, NEW q \in Nat
  PROVE  /\ ClaimedOf(Key(q)) \in 0 .. BLOCK_SIZE
         /\ ClaimedOf(Key(q)) = BLOCK_SIZE => headIndex >= Key(q) + BLOCK_SIZE
  <1>1. Key(q) \in Nat /\ BLOCK_SIZE \in Nat /\ BLOCK_SIZE > 1
    BY KeyFacts, Bounds
  <1>2. PICK k \in Nat : k = Key(q)
    BY <1>1
  <1> QED BY <1>1, <1>2 DEF ClaimedOf

LEMMA ClaimKeeps ==
  ASSUME BlockInv, CountInv', NEW c \in Consumers, UNCHANGED <<ppc, ploc>>, Claim(c)
  PROVE  IndexInv'
  <1>0. Types /\ HeadersOK /\ KeysOK /\ LiveOK /\ ConsumersOK /\ Places /\ ProducerOK /\ CountInv
    BY DEF BlockInv, IndexInv
  <1>1. UNCHANGED <<tailBlock, blockIndex, entries, blocks, pool, tailIndex, dequeueOptimisticCount>>
    BY DEF Claim, memory
  <1>2. headIndex \in Nat /\ headIndex' = headIndex + 1 /\ pc[c] = "claim"
    BY <1>0, HeadIsBehind DEF Claim
  <1> DEFINE l == [loc[c] EXCEPT !.index = headIndex]
  <1>3. l \in Locals /\ l.index = headIndex
    BY <1>0, <1>2, TypeFacts DEF Locals
  <1>4. pc' = [pc EXCEPT ![c] = "load_header"] /\ loc' = [loc EXCEPT ![c] = l]
    BY <1>0 DEF Claim, Go, Types
  <1> HIDE DEF l
  <1>5. \A d \in Consumers : /\ pc'[d] = IF d = c THEN "load_header" ELSE pc[d]
                             /\ loc'[d] = IF d = c THEN l ELSE loc[d]
    BY <1>0, <1>4 DEF Types
  <1>6. Types'
    <2>1. "load_header" \in Steps
      BY DEF Steps, Indexed
    <2> QED BY <1>0, <1>1, <1>3, <1>4, <2>1 DEF Types
  <1>7. Due' = Due /\ Newest' = Newest /\ (HasBlock' <=> HasBlock)
    BY <1>1 DEF Due, Newest, HasBlock
  <1>8. SameIndex /\ SameBlocks
    BY <1>1 DEF SameIndex, SameBlocks, KeyOf, ValueOf, Allocated
  <1>9. ProducerOK'
    BY <1>0, <1>1, <1>7 DEF ProducerOK, KeyOf, ValueOf, Last, EntryBack, EntryFrom, Current
  <1>10. HeadersOK' /\ KeysOK'
    BY <1>0, <1>7, <1>8, HeadersKept, KeysKept
  <1>11. Places'
    <2>1. \A d \in Consumers : \A v \in {"free_block", "remove_entry"} :
            (pc'[d] = v <=> pc[d] = v) /\ (pc[d] = v => loc'[d].block = loc[d].block)
      BY <1>2, <1>5
    <2> QED BY <1>0, <1>1, <1>8, <2>1, PlacesKept
  <1>12. ConsumersOK'
    <2>1. ConsumerAt(pc[c], loc[c])'
      BY <1>2, <1>3, <1>5 DEF ConsumerAt, UsesEntry
    <2>2. headIndex' >= headIndex /\ \A e \in Allocated : KeyOf(e)' = KeyOf(e)
      BY <1>1, <1>2 DEF KeyOf
    <2>3. \A d \in Consumers \ {c} : pc'[d] = pc[d] /\ loc'[d] = loc[d]
      BY <1>5
    <2>4. pc'[c] # "remove_entry"
      BY <1>5
    <2> QED BY <1>1, <1>6, <2>1, <2>2, <2>3, <2>4, OthersRelyOn
  <1>13. PICK a \in Nat : a = Number(headIndex) /\ Base(headIndex) = Key(a) /\ headIndex < Key(a) + BLOCK_SIZE
    BY <1>2, IndexFacts
  <1>14. ASSUME NEW q \in Nat
         PROVE  /\ c \notin HoldersOf(Key(q))
                /\ HoldersOf(Key(q))' = IF q = a THEN HoldersOf(Key(q)) \cup {c} ELSE HoldersOf(Key(q))
    <2>1. Key(q) = Key(a) <=> q = a
      BY KeyOrder
    <2>2. "claim" \notin Indexed \cup {"set_empty"} /\ "load_header" \in Indexed
      BY DEF Indexed
    <2>3. c \notin HoldersOf(Key(q))
      BY <1>2, <2>2 DEF HoldersOf, Holds
    <2>4. \A d \in Consumers \ {c} : (Holds(d)' <=> Holds(d)) /\ HeldKey(d)' = HeldKey(d)
      BY <1>1, <1>5 DEF Holds, HeldKey, KeyOf
    <2>5. Holds(c)' /\ HeldKey(c)' = Key(a)
      BY <1>3, <1>5, <1>13, <2>2 DEF Holds, HeldKey
    <2> QED BY <2>1, <2>3, <2>4, <2>5 DEF HoldersOf
  <1>15. ASSUME NEW q \in Nat, Live(q)' PROVE Live(q)
    <2>1. Key(q) \in Nat /\ BLOCK_SIZE \in Nat
      BY KeyFacts, Bounds
    <2> QED BY <1>2, <1>7, <1>13, <1>14, <1>15, <2>1 DEF Live
  <1>16. ASSUME NEW e \in Allocated, ValueOf(e) \in Blocks PROVE BlockOK(e)'
    <2>1. PICK q \in 0 .. Due - 1 :
            /\ KeyOf(e) = Key(q)
            /\ blocks[ValueOf(e)].dequeued + Cardinality(HoldersOf(Key(q))) = ClaimedOf(Key(q))
      BY <1>0, <1>16 DEF LiveOK, BlockOK
    <2>2. q \in Nat /\ blocks[ValueOf(e)].dequeued \in Nat
      BY <1>0, <1>16, DueFacts, TypeFacts DEF AnyBlock
    <2>3. ClaimedOf(Key(q))' = IF q = a THEN ClaimedOf(Key(q)) + 1 ELSE ClaimedOf(Key(q))
      BY <1>2, <1>13, <2>2, ClaimedGrows
    <2>4. HoldersOf(Key(q)) \in SUBSET Consumers /\ Cardinality(HoldersOf(Key(q))) \in Nat
      BY HoldersAre
    <2>5. Cardinality(HoldersOf(Key(q))') =
            IF q = a THEN Cardinality(HoldersOf(Key(q))) + 1 ELSE Cardinality(HoldersOf(Key(q)))
      <3>1. c \in Consumers \ HoldersOf(Key(q))
        BY <1>14, <2>2
      <3>2. Cardinality(HoldersOf(Key(q)) \cup {c}) = Cardinality(HoldersOf(Key(q))) + 1
        BY <2>4, <3>1, Sizes
      <3> QED BY <1>14, <2>2, <3>2
    <2>6. blocks[ValueOf(e)].dequeued + Cardinality(HoldersOf(Key(q))') = ClaimedOf(Key(q))'
      <3>1. ClaimedOf(Key(q)) \in Nat
        BY <2>1, <2>2, <2>4
      <3> QED BY <2>1, <2>2, <2>3, <2>4, <2>5, <3>1
    <2>7. KeyOf(e)' = KeyOf(e) /\ ValueOf(e)' = ValueOf(e) /\ blocks' = blocks
      BY <1>1 DEF KeyOf, ValueOf
    <2> QED BY <1>7, <2>1, <2>6, <2>7 DEF BlockOK
  <1>17. LiveOK'
    <2>1. Allocated' = Allocated /\ \A e \in Allocated : KeyOf(e)' = KeyOf(e) /\ ValueOf(e)' = ValueOf(e)
      BY <1>1 DEF Allocated, KeyOf, ValueOf
    <2> QED BY <1>0, <1>15, <1>16, <2>1 DEF LiveOK
  <1> QED BY <1>6, <1>9, <1>10, <1>11, <1>12, <1>17 DEF IndexInv


\* What a consumer that has its block knows.
LEMMA AtEntry ==
  ASSUME BlockInv, NEW c \in Consumers, pc[c] \in UsesEntry
  PROVE  /\ loc[c].entry \in Allocated /\ ValueOf(loc[c].entry) \in Blocks
         /\ \E q \in 0 .. Due - 1 :
              /\ q \in Nat /\ KeyOf(loc[c].entry) = Key(q)
              /\ blocks[ValueOf(loc[c].entry)].dequeued + Cardinality(HoldersOf(Key(q))) = ClaimedOf(Key(q))
              /\ pc[c] \in {"load_value", "move"} => Base(loc[c].index) = Key(q)
              /\ pc[c] # "remove_entry" => c \in HoldersOf(Key(q))
  <1>0. Types /\ LiveOK /\ ConsumerAt(pc[c], loc[c])
    BY DEF BlockInv, IndexInv, ConsumersOK
  <1>1. /\ loc[c].entry \in Allocated /\ ValueOf(loc[c].entry) \in Blocks
        /\ pc[c] \in {"load_value", "move"} => KeyOf(loc[c].entry) = Base(loc[c].index)
    BY <1>0 DEF ConsumerAt
  <1>2. PICK q \in 0 .. Due - 1 :
          /\ KeyOf(loc[c].entry) = Key(q)
          /\ blocks[ValueOf(loc[c].entry)].dequeued + Cardinality(HoldersOf(Key(q))) = ClaimedOf(Key(q))
    BY <1>0, <1>1 DEF LiveOK, BlockOK
  <1>3. q \in Nat
    BY <1>0, DueFacts
  <1>4. pc[c] # "remove_entry" => Holds(c) /\ HeldKey(c) = Key(q)
    BY <1>1, <1>2 DEF UsesEntry, Holds, Indexed, HeldKey
  <1>5. pc[c] # "remove_entry" => c \in HoldersOf(Key(q))
    BY <1>4 DEF HoldersOf
  <1> QED BY <1>1, <1>2, <1>3, <1>5

LEMMA MoveKeeps ==
  ASSUME BlockInv, CountInv', NEW c \in Consumers, UNCHANGED <<ppc, ploc>>, Move(c)
  PROVE  IndexInv'
  <1>0. Types /\ HeadersOK /\ KeysOK /\ LiveOK /\ ConsumersOK /\ Places /\ ProducerOK /\ CountInv
    BY DEF BlockInv, IndexInv
  <1>1. /\ UNCHANGED <<tailBlock, blockIndex, entries, pool, tailIndex, headIndex, dequeueOptimisticCount>>
        /\ pc[c] = "move"
    BY DEF Move, counters
  <1>2. pc[c] \in UsesEntry /\ pc[c] \in Indexed
    BY <1>1 DEF UsesEntry, Indexed
  <1>3. /\ loc[c].entry \in Allocated /\ loc[c].block = ValueOf(loc[c].entry)
        /\ loc[c].block \in Blocks /\ KeyOf(loc[c].entry) = Base(loc[c].index) /\ loc[c].index \in Nat
    BY <1>0, <1>1, <1>2, AtEntry, ClaimFacts DEF ConsumersOK, ConsumerAt
  <1>4. PICK b \in Blocks, s \in Slot : b = loc[c].block /\ s = loc[c].index % BLOCK_SIZE
    BY <1>3, IndexFacts
  <1>5. blocks[b].slots[s] \in Word \cup {nullptr} /\ blocks[b] \in AnyBlock /\ nullptr \in Word \cup {nullptr}
    BY <1>0, TypeFacts DEF AnyBlock
  <1>6. blocks' = [blocks EXCEPT ![b].slots[s] = nullptr]
    BY <1>4 DEF Move
  <1>7. \A k \in Blocks : blocks'[k].dequeued = blocks[k].dequeued
    BY <1>0, <1>6, TypeFacts DEF AnyBlock, Types
  <1>8. blocks' \in [Blocks -> AnyBlock]
    <2>1. [blocks[b] EXCEPT !.slots[s] = nullptr] \in AnyBlock
      BY <1>5 DEF AnyBlock
    <2> QED BY <1>0, <1>6, <2>1 DEF Types
  <1> DEFINE l == [loc[c] EXCEPT !.element = blocks[b].slots[s], !.index = 0]
  <1>9. l \in Locals /\ l.entry = loc[c].entry /\ l.block = loc[c].block
    BY <1>0, <1>5, TypeFacts DEF Locals
  <1>10. pc' = [pc EXCEPT ![c] = "set_empty"] /\ loc' = [loc EXCEPT ![c] = l]
    BY <1>0, <1>4 DEF Move, Go, Types
  <1> HIDE DEF l
  <1>11. \A d \in Consumers : /\ pc'[d] = IF d = c THEN "set_empty" ELSE pc[d]
                              /\ loc'[d] = IF d = c THEN l ELSE loc[d]
    BY <1>0, <1>10 DEF Types
  <1>12. Types'
    <2>1. "set_empty" \in Steps
      BY DEF Steps
    <2> QED BY <1>0, <1>1, <1>8, <1>9, <1>10, <2>1 DEF Types
  <1>13. Due' = Due /\ Newest' = Newest /\ (HasBlock' <=> HasBlock)
    BY <1>1 DEF Due, Newest, HasBlock
  <1>14. SameIndex /\ SameBlocks
    BY <1>1, <1>7 DEF SameIndex, SameBlocks, KeyOf, ValueOf, Allocated
  <1>15. SameClaims
    <2>1. \A d \in Consumers \ {c} : (Holds(d)' <=> Holds(d)) /\ HeldKey(d)' = HeldKey(d)
      BY <1>1, <1>11 DEF Holds, HeldKey, KeyOf
    <2>2. Holds(c)' /\ Holds(c) /\ HeldKey(c)' = HeldKey(c)
      BY <1>1, <1>2, <1>3, <1>9, <1>11 DEF Holds, HeldKey, KeyOf
    <2> QED BY <2>1, <2>2 DEF SameClaims
  <1>16. ProducerOK'
    <2>1. ppc = "insert" => ploc.newBlock \in Blocks
      BY <1>0 DEF ProducerOK, Types
    <2> QED BY <1>0, <1>1, <1>7, <1>13, <2>1
            DEF ProducerOK, KeyOf, ValueOf, Last, EntryBack, EntryFrom, Current
  <1>17. HeadersOK' /\ KeysOK' /\ LiveOK'
    BY <1>0, <1>1, <1>13, <1>14, <1>15, HeadersKept, KeysKept, LiveKept
  <1>18. Places'
    <2>1. \A d \in Consumers : \A v \in {"free_block", "remove_entry"} :
            (pc'[d] = v <=> pc[d] = v) /\ (pc[d] = v => loc'[d].block = loc[d].block)
      BY <1>1, <1>11
    <2> QED BY <1>0, <1>1, <1>14, <2>1, PlacesKept
  <1>19. ConsumersOK'
    <2>1. ConsumerAt(pc[c], loc[c])'
      BY <1>1, <1>3, <1>9, <1>11 DEF ConsumerAt, UsesEntry, Indexed, Allocated, ValueOf
    <2>2. headIndex' >= headIndex /\ \A e \in Allocated : KeyOf(e)' = KeyOf(e)
      BY <1>0, <1>1, HeadIsBehind DEF KeyOf
    <2>3. \A d \in Consumers \ {c} : pc'[d] = pc[d] /\ loc'[d] = loc[d]
      BY <1>11
    <2>4. pc'[c] # "remove_entry"
      BY <1>11
    <2>5. ASSUME NEW d \in Consumers \ {c}, pc[d] = "remove_entry"
          PROVE  blocks'[loc[d].block].dequeued = blocks[loc[d].block].dequeued
      <3>1. pc[d] \in UsesEntry
        BY <2>5 DEF UsesEntry
      <3>2. loc[d].block \in Blocks
        BY <1>0, <2>5, <3>1, AtEntry DEF ConsumersOK, ConsumerAt
      <3> QED BY <1>7, <3>2
    <2> QED BY <1>1, <1>12, <2>1, <2>2, <2>3, <2>4, <2>5, OthersRelyOn
  <1> QED BY <1>12, <1>16, <1>17, <1>18, <1>19 DEF IndexInv

LEMMA FreeKeeps ==
  ASSUME BlockInv, CountInv', NEW c \in Consumers, UNCHANGED <<ppc, ploc>>, FreeBlock(c)
  PROVE  IndexInv'
  <1>0. Types /\ HeadersOK /\ KeysOK /\ LiveOK /\ ConsumersOK /\ Places /\ ProducerOK /\ CountInv
    BY DEF BlockInv, IndexInv
  <1>1. /\ UNCHANGED <<tailBlock, blockIndex, entries, blocks, tailIndex, headIndex, dequeueOptimisticCount>>
        /\ pc[c] = "free_block" /\ pool' = pool \cup {loc[c].block}
    BY DEF FreeBlock, counters
  <1>2. PICK b \in Blocks : b = loc[c].block
    BY <1>0, <1>1 DEF ConsumersOK, ConsumerAt
  <1>3. pc' = [pc EXCEPT ![c] = "idle"] /\ loc' = [loc EXCEPT ![c] = NoLocals]
    BY DEF FreeBlock, Return, Go
  <1>4. \A d \in Consumers : /\ pc'[d] = IF d = c THEN "idle" ELSE pc[d]
                             /\ loc'[d] = IF d = c THEN NoLocals ELSE loc[d]
    BY <1>0, <1>3 DEF Types
  <1>5. Types'
    <2>1. "idle" \in Steps /\ pool' \subseteq Blocks
      BY <1>0, <1>1, <1>2 DEF Steps, Types
    <2> QED BY <1>0, <1>1, <1>3, <2>1, NoLocalsType DEF Types
  <1>6. Due' = Due /\ Newest' = Newest /\ (HasBlock' <=> HasBlock)
    BY <1>1 DEF Due, Newest, HasBlock
  <1>7. SameIndex /\ SameBlocks
    BY <1>1 DEF SameIndex, SameBlocks, KeyOf, ValueOf, Allocated
  <1>8. SameClaims
    BY <1>1, <1>4 DEF SameClaims, Holds, HeldKey, KeyOf, Indexed
  <1>9. ProducerOK'
    BY <1>0, <1>1, <1>6 DEF ProducerOK, KeyOf, ValueOf, Last, EntryBack, EntryFrom, Current
  <1>10. HeadersOK' /\ KeysOK' /\ LiveOK'
    BY <1>0, <1>1, <1>6, <1>7, <1>8, HeadersKept, KeysKept, LiveKept
  <1>11. Places'
    <2>1. ASSUME NEW k \in Blocks PROVE InIndex(k)' <=> InIndex(k)
      BY <1>1 DEF InIndex, Allocated, ValueOf
    <2>2. ASSUME NEW k \in Blocks PROVE BeingFreed(k)' <=> BeingFreed(k) /\ k # b
      BY <1>0, <1>1, <1>2, <1>4 DEF BeingFreed, Places
    <2>3. BeingFreed(b)
      BY <1>1, <1>2 DEF BeingFreed
    <2>4. \A e, f \in Allocated' : ValueOf(e)' \in Blocks /\ ValueOf(e)' = ValueOf(f)' => e = f
      BY <1>0, <1>1 DEF Places, Allocated, ValueOf
    <2>5. \A d, k \in Consumers :
            pc'[d] = "free_block" /\ pc'[k] = "free_block" /\ loc'[d].block = loc'[k].block => d = k
      BY <1>0, <1>4 DEF Places
    <2>6. \A k \in Blocks :
            (\E d \in Consumers : pc[d] = "remove_entry" /\ loc[d].block = k) =>
              \E d \in Consumers : pc'[d] = "remove_entry" /\ loc'[d].block = k
      BY <1>1, <1>4
    <2>7. ASSUME NEW k \in Blocks
          PROVE  /\ k \in pool' \/ k = ploc'.newBlock \/ InIndex(k)' \/ BeingFreed(k)'
                 /\ k \in pool' => k # ploc'.newBlock /\ ~ InIndex(k)' /\ ~ BeingFreed(k)'
                 /\ k = ploc'.newBlock => ~ InIndex(k)' /\ ~ BeingFreed(k)'
                 /\ InIndex(k)' => ~ BeingFreed(k)'
      BY <1>0, <1>1, <1>2, <2>1, <2>2, <2>3 DEF Places
    <2>8. ASSUME NEW k \in Blocks
          PROVE  InIndex(k)' => \/ blocks'[k].dequeued < BLOCK_SIZE
                                \/ \E d \in Consumers : pc'[d] = "remove_entry" /\ loc'[d].block = k
      BY <1>0, <1>1, <2>1, <2>6 DEF Places
    <2> QED BY <2>4, <2>5, <2>7, <2>8 DEF Places
  <1>12. ConsumersOK'
    <2>1. ConsumerAt(pc[c], loc[c])'
      BY <1>4 DEF ConsumerAt, UsesEntry, Indexed
    <2>2. headIndex' >= headIndex /\ \A e \in Allocated : KeyOf(e)' = KeyOf(e)
      BY <1>0, <1>1, HeadIsBehind DEF KeyOf
    <2>3. \A d \in Consumers \ {c} : pc'[d] = pc[d] /\ loc'[d] = loc[d]
      BY <1>4
    <2>4. pc'[c] # "remove_entry"
      BY <1>4
    <2> QED BY <1>1, <1>5, <2>1, <2>2, <2>3, <2>4, OthersRelyOn
  <1> QED BY <1>5, <1>9, <1>10, <1>11, <1>12 DEF IndexInv


\* A consumer that is done with its slot leaves the holders of the block.
LEMMA SetEmptyKeeps ==
  ASSUME BlockInv, CountInv', NEW c \in Consumers, UNCHANGED <<ppc, ploc>>, SetEmpty(c)
  PROVE  IndexInv'
  <1>0. Types /\ HeadersOK /\ KeysOK /\ LiveOK /\ ConsumersOK /\ Places /\ ProducerOK /\ CountInv
    BY DEF BlockInv, IndexInv
  <1>1. /\ UNCHANGED <<tailBlock, blockIndex, entries, pool, tailIndex, headIndex, dequeueOptimisticCount>>
        /\ pc[c] = "set_empty" /\ pc[c] \in UsesEntry /\ headIndex \in Nat
    BY <1>0, HeadIsBehind DEF SetEmpty, counters, UsesEntry
  <1>2. PICK e \in Allocated : e = loc[c].entry
    BY <1>1, AtEntry
  <1>3. PICK b \in Blocks : b = ValueOf(e)
    BY <1>1, <1>2, AtEntry
  <1>4. loc[c].block = b
    BY <1>0, <1>1, <1>2, <1>3 DEF ConsumersOK, ConsumerAt
  <1>5. PICK q \in 0 .. Due - 1 :
          /\ q \in Nat /\ KeyOf(e) = Key(q) /\ c \in HoldersOf(Key(q))
          /\ blocks[b].dequeued + Cardinality(HoldersOf(Key(q))) = ClaimedOf(Key(q))
    BY <1>1, <1>2, <1>3, AtEntry
  <1>6. PICK n \in Nat : n = blocks[b].dequeued
    BY <1>0, TypeFacts DEF AnyBlock
  <1>7. /\ Cardinality(HoldersOf(Key(q))) \in Nat
        /\ Cardinality(HoldersOf(Key(q)) \ {c}) = Cardinality(HoldersOf(Key(q))) - 1
        /\ Cardinality(HoldersOf(Key(q)) \ {c}) \in Nat
    <2>1. HoldersOf(Key(q)) \in SUBSET Consumers /\ HoldersOf(Key(q)) \ {c} \in SUBSET Consumers
      BY HoldersAre
    <2> QED BY <1>5, <2>1, Sizes
  <1>8. BLOCK_SIZE \in Nat /\ n < BLOCK_SIZE
    <2>1. ClaimedOf(Key(q)) \in 0 .. BLOCK_SIZE
      BY <1>1, <1>5, ClaimedBound
    <2> QED BY <1>5, <1>6, <1>7, <2>1, Bounds
  <1>9. blocks' = [blocks EXCEPT ![b].dequeued = n + 1]
    BY <1>4, <1>6 DEF SetEmpty
  <1>10. \A k \in Blocks : blocks'[k].dequeued = IF k = b THEN n + 1 ELSE blocks[k].dequeued
    BY <1>0, <1>9, TypeFacts DEF AnyBlock, Types
  <1>11. blocks' \in [Blocks -> AnyBlock]
    <2>1. blocks[b] \in AnyBlock /\ n + 1 \in 0 .. BLOCK_SIZE
      BY <1>0, <1>6, <1>8 DEF Types
    <2>2. [blocks[b] EXCEPT !.dequeued = n + 1] \in AnyBlock
      BY <2>1 DEF AnyBlock
    <2> QED BY <1>0, <1>9, <2>2 DEF Types
  <1>12. \/ /\ n = BLOCK_SIZE - 1
            /\ pc' = [pc EXCEPT ![c] = "remove_entry"] /\ loc' = [loc EXCEPT ![c] = loc[c]]
         \/ /\ n # BLOCK_SIZE - 1
            /\ pc' = [pc EXCEPT ![c] = "idle"] /\ loc' = [loc EXCEPT ![c] = NoLocals]
    BY <1>0, <1>4, <1>6 DEF SetEmpty, Return, Go, Types
  <1>13. PICK w \in {"remove_entry", "idle"}, l \in {loc[c], NoLocals} :
           /\ pc' = [pc EXCEPT ![c] = w] /\ loc' = [loc EXCEPT ![c] = l]
           /\ w = "remove_entry" => n = BLOCK_SIZE - 1 /\ l = loc[c]
           /\ w # "remove_entry" => n # BLOCK_SIZE - 1
    BY <1>12
  <1>14. l \in Locals
    BY <1>0, TypeFacts, NoLocalsType
  <1>15. \A d \in Consumers : /\ pc'[d] = IF d = c THEN w ELSE pc[d]
                              /\ loc'[d] = IF d = c THEN l ELSE loc[d]
    BY <1>0, <1>13 DEF Types
  <1>16. Types'
    <2>1. w \in Steps
      BY DEF Steps
    <2> QED BY <1>0, <1>1, <1>11, <1>13, <1>14, <2>1 DEF Types
  <1>17. Due' = Due /\ Newest' = Newest /\ (HasBlock' <=> HasBlock)
    BY <1>1 DEF Due, Newest, HasBlock
  <1>18. SameIndex
    BY <1>1 DEF SameIndex, KeyOf, ValueOf, Allocated
  <1>19. ProducerOK'
    <2>1. ppc = "insert" => ploc.newBlock \in Blocks /\ ploc.newBlock # b
      BY <1>0, <1>2, <1>3 DEF ProducerOK, Types, Places, InIndex
    <2>2. ppc' = "insert" => blocks'[ploc'.newBlock].dequeued = 0
      BY <1>0, <1>10, <2>1 DEF ProducerOK
    <2> QED BY <1>0, <1>1, <1>17, <2>2
            DEF ProducerOK, KeyOf, ValueOf, Last, EntryBack, EntryFrom, Current
  <1>20. HeadersOK' /\ KeysOK'
    BY <1>0, <1>1, <1>17, <1>18, HeadersKept, KeysKept
  <1>21. \A k : HoldersOf(k)' = HoldersOf(k) \ {c}
    <2>1. \A d \in Consumers \ {c} : (Holds(d)' <=> Holds(d)) /\ HeldKey(d)' = HeldKey(d)
      BY <1>1, <1>15 DEF Holds, HeldKey, KeyOf
    <2>2. ~ Holds(c)'
      BY <1>15 DEF Holds, Indexed
    <2> QED BY <2>1, <2>2 DEF HoldersOf
  <1>22. \A k : k # Key(q) => HoldersOf(k)' = HoldersOf(k)
    <2>1. HeldKey(c) = Key(q)
      BY <1>5 DEF HoldersOf
    <2> QED BY <1>21, <2>1 DEF HoldersOf
  <1>23. Allocated' = Allocated /\ \A f \in Allocated : KeyOf(f)' = KeyOf(f) /\ ValueOf(f)' = ValueOf(f)
    BY <1>1 DEF Allocated, KeyOf, ValueOf
  <1>24. LiveOK'
    <2>1. ASSUME NEW f \in Allocated, ValueOf(f) \in Blocks PROVE BlockOK(f)'
      <3>1. PICK r \in 0 .. Due - 1 :
              /\ KeyOf(f) = Key(r)
              /\ blocks[ValueOf(f)].dequeued + Cardinality(HoldersOf(Key(r))) = ClaimedOf(Key(r))
        BY <1>0, <2>1 DEF LiveOK, BlockOK
      <3>2. ClaimedOf(Key(r))' = ClaimedOf(Key(r))
        BY <1>1 DEF ClaimedOf
      <3>3. blocks'[ValueOf(f)].dequeued + Cardinality(HoldersOf(Key(r))') = ClaimedOf(Key(r))
        <4>1. CASE Key(r) = Key(q)
          <5>1. blockIndex # <<>>
            BY <1>0, <1>2, TypeFacts DEF ProducerOK, Allocated
          <5>2. f = e
            BY <1>0, <1>5, <3>1, <4>1, <5>1, UniqueEntry
          <5>3. blocks'[ValueOf(f)].dequeued = n + 1 /\ HoldersOf(Key(r))' = HoldersOf(Key(q)) \ {c}
            BY <1>3, <1>10, <1>21, <4>1, <5>2
          <5> QED BY <1>5, <1>6, <1>7, <4>1, <5>3
        <4>2. CASE Key(r) # Key(q)
          <5>1. f # e
            BY <1>5, <3>1, <4>2
          <5>2. ValueOf(f) # b
            BY <1>0, <1>3, <2>1, <5>1 DEF Places
          <5>3. blocks'[ValueOf(f)].dequeued = blocks[ValueOf(f)].dequeued
            BY <1>10, <2>1, <5>2
          <5> QED BY <1>22, <3>1, <4>2, <5>3
        <4> QED BY <4>1, <4>2
      <3> QED BY <1>17, <1>23, <2>1, <3>1, <3>2, <3>3 DEF BlockOK
    <2>2. ASSUME NEW r \in Nat, Live(r)' PROVE Live(r)
      BY <1>1, <1>17, <1>21, <2>2 DEF Live
    <2> QED BY <1>0, <1>23, <2>1, <2>2 DEF LiveOK
  <1>25. Places'
    <2>1. ASSUME NEW k \in Blocks PROVE (InIndex(k)' <=> InIndex(k)) /\ (BeingFreed(k)' <=> BeingFreed(k))
      BY <1>1, <1>15, <1>23 DEF InIndex, BeingFreed
    <2>2. \A f, g \in Allocated' : ValueOf(f)' \in Blocks /\ ValueOf(f)' = ValueOf(g)' => f = g
      BY <1>0, <1>23 DEF Places
    <2>3. \A d, k \in Consumers :
            pc'[d] = "free_block" /\ pc'[k] = "free_block" /\ loc'[d].block = loc'[k].block => d = k
      BY <1>0, <1>15 DEF Places
    <2>4. ASSUME NEW k \in Blocks, InIndex(k)
          PROVE  \/ blocks'[k].dequeued < BLOCK_SIZE
                 \/ \E d \in Consumers : pc'[d] = "remove_entry" /\ loc'[d].block = k
      <3>1. CASE k = b /\ w = "remove_entry"
        <4>1. pc'[c] = "remove_entry" /\ loc'[c].block = k
          BY <1>4, <1>13, <1>15, <3>1
        <4> QED BY <4>1
      <3>2. CASE k = b /\ w # "remove_entry"
        <4>1. n + 1 < BLOCK_SIZE
          BY <1>8, <1>13, <3>2
        <4> QED BY <1>10, <3>2, <4>1
      <3>3. CASE k # b
        <4>1. \/ blocks[k].dequeued < BLOCK_SIZE
              \/ \E d \in Consumers : pc[d] = "remove_entry" /\ loc[d].block = k
          BY <1>0, <2>4 DEF Places
        <4>2. ASSUME NEW d \in Consumers, pc[d] = "remove_entry", loc[d].block = k
              PROVE  pc'[d] = "remove_entry" /\ loc'[d].block = k
          BY <1>1, <1>15, <4>2
        <4> QED BY <1>10, <3>3, <4>1, <4>2
      <3> QED BY <3>1, <3>2, <3>3
    <2> QED BY <1>0, <1>1, <2>1, <2>2, <2>3, <2>4 DEF Places
  <1>26. ConsumersOK'
    <2>1. ConsumerAt(pc[c], loc[c])'
      <3>1. CASE w = "idle"
        BY <1>15, <3>1 DEF ConsumerAt, UsesEntry, Indexed
      <3>2. CASE w = "remove_entry"
        <4>1. /\ loc'[c].entry = e /\ loc'[c].block = b /\ e \in Allocated' /\ ValueOf(e)' = b
              /\ blocks'[b].dequeued = BLOCK_SIZE /\ pc'[c] = "remove_entry"
          BY <1>2, <1>3, <1>4, <1>8, <1>10, <1>13, <1>15, <1>23, <3>2
        <4> QED BY <4>1 DEF ConsumerAt, UsesEntry, Indexed, ValueOf
      <3> QED BY <3>1, <3>2
    <2>2. headIndex' >= headIndex /\ \A f \in Allocated : KeyOf(f)' = KeyOf(f)
      BY <1>1, <1>23
    <2>3. \A d \in Consumers \ {c} : pc'[d] = pc[d] /\ loc'[d] = loc[d]
      BY <1>15
    <2>4. ASSUME NEW d \in Consumers \ {c}, pc[d] = "remove_entry"
          PROVE  /\ blocks'[loc[d].block].dequeued = blocks[loc[d].block].dequeued
                 /\ pc'[c] = "remove_entry" => loc[d].entry # loc'[c].entry
      <3>1. pc[d] \in UsesEntry
        BY <2>4 DEF UsesEntry
      <3>2. /\ loc[d].block \in Blocks /\ loc[d].block = ValueOf(loc[d].entry)
            /\ blocks[loc[d].block].dequeued = BLOCK_SIZE
        BY <1>0, <2>4, <3>1, AtEntry DEF ConsumersOK, ConsumerAt
      <3>3. loc[d].block # b
        BY <1>6, <1>8, <3>2
      <3>4. pc'[c] = "remove_entry" => loc'[c].entry = e
        BY <1>2, <1>13, <1>15
      <3> QED BY <1>3, <1>10, <3>2, <3>3, <3>4
    <2> QED BY <1>1, <1>16, <2>1, <2>2, <2>3, <2>4, OthersRelyOn
  <1> QED BY <1>16, <1>19, <1>20, <1>24, <1>25, <1>26 DEF IndexInv

\* The one that emptied the block takes it out of the index: nobody looks for it.
LEMMA RemoveKeeps ==
  ASSUME BlockInv, CountInv', NEW c \in Consumers, UNCHANGED <<ppc, ploc>>, RemoveEntry(c)
  PROVE  IndexInv'
  <1>0. Types /\ HeadersOK /\ KeysOK /\ LiveOK /\ ConsumersOK /\ Places /\ ProducerOK /\ CountInv
    BY DEF BlockInv, IndexInv
  <1>1. /\ UNCHANGED <<tailBlock, blockIndex, blocks, pool, tailIndex, headIndex, dequeueOptimisticCount>>
        /\ loc' = loc /\ pc' = [pc EXCEPT ![c] = "free_block"]
        /\ pc[c] = "remove_entry" /\ pc[c] \in UsesEntry /\ headIndex \in Nat
    BY <1>0, HeadIsBehind DEF RemoveEntry, counters, UsesEntry, Go
  <1>2. PICK e \in Allocated : e = loc[c].entry
    BY <1>1, AtEntry
  <1>3. PICK b \in Blocks : b = ValueOf(e)
    BY <1>1, <1>2, AtEntry
  <1>4. loc[c].block = b /\ blocks[b].dequeued = BLOCK_SIZE
    BY <1>0, <1>1, <1>2, <1>3 DEF ConsumersOK, ConsumerAt
  <1>5. PICK q \in 0 .. Due - 1 :
          /\ q \in Nat /\ KeyOf(e) = Key(q)
          /\ blocks[b].dequeued + Cardinality(HoldersOf(Key(q))) = ClaimedOf(Key(q))
    BY <1>1, <1>2, <1>3, AtEntry
  <1>6. HoldersOf(Key(q)) = {} /\ headIndex >= Key(q) + BLOCK_SIZE
    <2>1. /\ ClaimedOf(Key(q)) \in 0 .. BLOCK_SIZE
          /\ ClaimedOf(Key(q)) = BLOCK_SIZE => headIndex >= Key(q) + BLOCK_SIZE
      BY <1>1, <1>5, ClaimedBound
    <2>2. Cardinality(HoldersOf(Key(q))) \in Nat /\ (HoldersOf(Key(q)) = {} <=> Cardinality(HoldersOf(Key(q))) = 0)
      BY HoldersAre
    <2>3. Cardinality(HoldersOf(Key(q))) = 0 /\ ClaimedOf(Key(q)) = BLOCK_SIZE
      BY <1>4, <1>5, <2>1, <2>2, Bounds
    <2> QED BY <2>1, <2>2, <2>3
  <1>7. ~ Live(q) /\ Key(q) # INVALID_BLOCK_BASE
    <2>1. Key(q) \in Nat /\ Key(q) # INVALID_BLOCK_BASE
      BY <1>5, KeyFacts
    <2> QED BY <1>1, <1>6, <2>1, Bounds DEF Live
  <1>8. entries' = [entries EXCEPT ![e].value = nullptr]
    BY <1>2 DEF RemoveEntry
  <1>9. /\ DOMAIN entries = Allocated /\ entries[e] \in AnyEntry /\ entries \in Seq(AnyEntry)
    BY <1>0, TypeFacts, LenProperties DEF Types, Allocated
  <1>10. /\ Len(entries') = Len(entries) /\ Allocated' = Allocated /\ entries' \in Seq(AnyEntry)
         /\ \A f \in Allocated : f # e => entries'[f] = entries[f]
         /\ KeyOf(e)' = KeyOf(e) /\ ValueOf(e)' = nullptr
    <2>1. [entries[e] EXCEPT !.value = nullptr] \in AnyEntry
      BY <1>9 DEF AnyEntry
    <2>2. entries' = [entries EXCEPT ![e] = [entries[e] EXCEPT !.value = nullptr]]
      BY <1>8, <1>9
    <2>3. entries' \in Seq(AnyEntry) /\ Len(entries') = Len(entries)
      BY <1>9, <2>1, <2>2, ExceptSeq DEF Allocated
    <2>4. \A f \in Allocated : f # e => entries'[f] = entries[f]
      BY <1>9, <2>2
    <2>5. entries'[e] = [entries[e] EXCEPT !.value = nullptr]
      BY <1>9, <2>2
    <2>6. KeyOf(e)' = KeyOf(e) /\ ValueOf(e)' = nullptr
      BY <1>9, <2>5 DEF AnyEntry, KeyOf, ValueOf
    <2> QED BY <2>3, <2>4, <2>6 DEF Allocated
  <1>11. \A f \in Allocated : KeyOf(f)' = KeyOf(f) /\ ValueOf(f)' = IF f = e THEN nullptr ELSE ValueOf(f)
    BY <1>10 DEF KeyOf, ValueOf
  <1>12. \A d \in Consumers : pc'[d] = IF d = c THEN "free_block" ELSE pc[d]
    BY <1>0, <1>1 DEF Types
  <1>13. Types'
    <2>1. "free_block" \in Steps
      BY DEF Steps
    <2> QED BY <1>0, <1>1, <1>10, <2>1 DEF Types
  <1>14. Due' = Due /\ Newest' = Newest /\ (HasBlock' <=> HasBlock)
    BY <1>1 DEF Due, Newest, HasBlock
  <1>15. SameIndex
    <2>1. nullptr \notin Blocks \cup {garbage}
      BY Bounds
    <2> QED BY <1>1, <1>5, <1>7, <1>10, <1>11, <2>1 DEF SameIndex
  <1>16. blockIndex # <<>>
    BY <1>0, <1>2, TypeFacts DEF ProducerOK, Allocated
  <1>17. ProducerOK'
    <2>1. \A j : EntryBack(j)' = EntryBack(j)
      BY <1>15, SameCircle
    <2>2. Last' = Last /\ blockIndex' = blockIndex
      BY <1>15, SameCircle DEF SameIndex
    <2>3. Last \in Allocated /\ EntryBack(0) \in Allocated /\ EntryBack(1) \in Allocated
      BY <1>0, <1>16, CurrentEntries, SlotFacts
    <2>4. KeyOf(Last)' = KeyOf(Last) /\ KeyOf(EntryBack(1))' = KeyOf(EntryBack(1))
      BY <1>11, <2>1, <2>2, <2>3 DEF KeyOf
    <2>5. ppc \in {"store_key"} \cup Inserting => ploc.idxEntry \in Allocated
      BY <1>0, <2>3 DEF ProducerOK, Inserting
    <2>6. ppc \in {"store_key"} \cup Inserting =>
            KeyOf(ploc.idxEntry)' = KeyOf(ploc.idxEntry) /\ ValueOf(ploc.idxEntry)' \notin Blocks
      <3>1. nullptr \notin Blocks
        BY Bounds
      <3>2. ppc \in {"store_key"} \cup Inserting => ValueOf(ploc.idxEntry) \notin Blocks
        BY <1>0 DEF ProducerOK
      <3>3. KeyOf(ploc.idxEntry)' = entries'[ploc.idxEntry].key /\ ValueOf(ploc.idxEntry)' = entries'[ploc.idxEntry].value
        BY DEF KeyOf, ValueOf
      <3>4. \A f \in Allocated : entries'[f].key = KeyOf(f) /\ entries'[f].value = IF f = e THEN nullptr ELSE ValueOf(f)
        BY <1>11 DEF KeyOf, ValueOf
      <3> QED BY <2>5, <3>1, <3>2, <3>3, <3>4
    <2>7. Inserting \subseteq {"store_key"} \cup Inserting
      OBVIOUS
    <2> QED BY <1>0, <1>1, <1>14, <1>16, <2>1, <2>2, <2>4, <2>6, <2>7 DEF ProducerOK
  <1>18. HeadersOK' /\ KeysOK'
    BY <1>0, <1>1, <1>14, <1>15, HeadersKept, KeysKept
  <1>19. \A k : HoldersOf(k)' = HoldersOf(k)
    <2>1. \A d \in Consumers : Holds(d)' <=> Holds(d)
      BY <1>1, <1>12 DEF Holds, Indexed
    <2>2. ASSUME NEW d \in Consumers, Holds(d) PROVE HeldKey(d)' = HeldKey(d)
      <3>1. CASE pc[d] = "set_empty"
        <4>1. loc[d].entry \in Allocated
          BY <1>0, <3>1 DEF ConsumersOK, ConsumerAt, UsesEntry
        <4>2. KeyOf(loc[d].entry)' = KeyOf(loc[d].entry)
          BY <1>1, <1>11, <4>1 DEF KeyOf
        <4>3. pc'[d] = "set_empty"
          BY <1>1, <1>12, <3>1
        <4> QED BY <3>1, <4>2, <4>3 DEF HeldKey
      <3>2. CASE pc[d] # "set_empty"
        <4>1. pc'[d] # "set_empty"
          BY <1>12, <3>2
        <4> QED BY <1>1, <3>2, <4>1 DEF HeldKey
      <3> QED BY <3>1, <3>2
    <2>3. SameClaims
      BY <2>1, <2>2 DEF SameClaims
    <2> QED BY <2>3, SameHolders
  <1>20. LiveOK'
    <2>1. ASSUME NEW f \in Allocated, ValueOf(f)' \in Blocks PROVE BlockOK(f)'
      <3>1. f # e /\ ValueOf(f) \in Blocks /\ ValueOf(f)' = ValueOf(f)
        BY <1>11, <2>1, Bounds
      <3>2. PICK r \in 0 .. Due - 1 :
              /\ KeyOf(f) = Key(r)
              /\ blocks[ValueOf(f)].dequeued + Cardinality(HoldersOf(Key(r))) = ClaimedOf(Key(r))
        BY <1>0, <3>1 DEF LiveOK, BlockOK
      <3>3. ClaimedOf(Key(r))' = ClaimedOf(Key(r)) /\ KeyOf(f)' = KeyOf(f)
        BY <1>1, <1>11 DEF ClaimedOf
      <3> QED BY <1>1, <1>14, <1>19, <3>1, <3>2, <3>3 DEF BlockOK
    <2>2. ASSUME NEW r \in Nat, Live(r)'
          PROVE  \E f \in Allocated : KeyOf(f)' = Key(r) /\ ValueOf(f)' \in Blocks
      <3>1. Live(r)
        BY <1>1, <1>14, <1>19, <2>2 DEF Live
      <3>2. PICK f \in Allocated : KeyOf(f) = Key(r) /\ ValueOf(f) \in Blocks
        BY <1>0, <3>1 DEF LiveOK
      <3>3. f # e
        BY <1>5, <1>7, <3>1, <3>2, KeyOrder
      <3> QED BY <1>11, <3>2, <3>3
    <2> QED BY <1>10, <2>1, <2>2 DEF LiveOK
  <1>21. Places'
    <2>1. ASSUME NEW k \in Blocks PROVE InIndex(k)' <=> InIndex(k) /\ k # b
      BY <1>0, <1>3, <1>10, <1>11, Bounds DEF InIndex, Places
    <2>2. ASSUME NEW k \in Blocks PROVE BeingFreed(k)' <=> BeingFreed(k) \/ k = b
      BY <1>1, <1>4, <1>12 DEF BeingFreed
    <2>3. InIndex(b)
      BY <1>2, <1>3 DEF InIndex
    <2>4. \A f, g \in Allocated' : ValueOf(f)' \in Blocks /\ ValueOf(f)' = ValueOf(g)' => f = g
      BY <1>0, <1>10, <1>11, Bounds DEF Places
    <2>5. \A d, k \in Consumers :
            pc'[d] = "free_block" /\ pc'[k] = "free_block" /\ loc'[d].block = loc'[k].block => d = k
      <3>1. \A d \in Consumers : pc[d] = "free_block" => loc[d].block # b
        BY <1>0, <2>3 DEF Places, BeingFreed
      <3> QED BY <1>0, <1>1, <1>4, <1>12, <3>1 DEF Places
    <2>6. ASSUME NEW k \in Blocks, InIndex(k)'
          PROVE  \/ blocks'[k].dequeued < BLOCK_SIZE
                 \/ \E d \in Consumers : pc'[d] = "remove_entry" /\ loc'[d].block = k
      <3>1. InIndex(k) /\ k # b
        BY <2>1, <2>6
      <3>2. \/ blocks[k].dequeued < BLOCK_SIZE
            \/ \E d \in Consumers : pc[d] = "remove_entry" /\ loc[d].block = k
        BY <1>0, <3>1 DEF Places
      <3>3. ASSUME NEW d \in Consumers, pc[d] = "remove_entry", loc[d].block = k
            PROVE  pc'[d] = "remove_entry" /\ loc'[d].block = k
        BY <1>1, <1>4, <1>12, <3>1, <3>3
      <3> QED BY <1>1, <3>2, <3>3
    <2>7. ASSUME NEW k \in Blocks
          PROVE  /\ k \in pool' \/ k = ploc'.newBlock \/ InIndex(k)' \/ BeingFreed(k)'
                 /\ k \in pool' => k # ploc'.newBlock /\ ~ InIndex(k)' /\ ~ BeingFreed(k)'
                 /\ k = ploc'.newBlock => ~ InIndex(k)' /\ ~ BeingFreed(k)'
                 /\ InIndex(k)' => ~ BeingFreed(k)'
      BY <1>0, <1>1, <2>1, <2>2, <2>3 DEF Places
    <2> QED BY <2>4, <2>5, <2>6, <2>7 DEF Places
  <1>22. ConsumersOK'
    <2>1. ConsumerAt(pc[c], loc[c])'
      BY <1>1, <1>4, <1>12 DEF ConsumerAt, UsesEntry, Indexed
    <2>2. headIndex' >= headIndex /\ \A f \in Allocated : KeyOf(f)' = KeyOf(f)
      BY <1>1, <1>11
    <2>3. \A d \in Consumers \ {c} : pc'[d] = pc[d] /\ loc'[d] = loc[d]
      BY <1>1, <1>12
    <2>4. ASSUME NEW d \in Consumers \ {c}, pc[d] \in UsesEntry
          PROVE  entries'[loc[d].entry] = entries[loc[d].entry]
      <3>1. loc[d].entry # e
        <4>1. CASE pc[d] = "remove_entry"
          BY <1>0, <1>1, <1>2, <4>1 DEF ConsumersOK
        <4>2. CASE pc[d] # "remove_entry"
          <5>1. PICK r \in 0 .. Due - 1 : KeyOf(loc[d].entry) = Key(r) /\ d \in HoldersOf(Key(r))
            BY <2>4, <4>2, AtEntry
          <5> QED BY <1>5, <1>6, <5>1
        <4> QED BY <4>1, <4>2
      <3>2. loc[d].entry \in Allocated
        BY <2>4, AtEntry
      <3> QED BY <1>10, <3>1, <3>2
    <2>5. pc'[c] # "remove_entry"
      BY <1>12
    <2> QED BY <1>1, <1>10, <1>13, <2>1, <2>2, <2>3, <2>4, <2>5, OthersRelyOn
  <1> QED BY <1>13, <1>17, <1>18, <1>20, <1>21, <1>22 DEF IndexInv


----------------------------------------------------------------------------
(* The steps of the producer. *)

LEMMA ConsumersRely ==
  ASSUME BlockInv, CountInv', Types', UNCHANGED <<pc, loc, headIndex>>, SameKeys,
         Len(blockIndex') >= Len(blockIndex), Len(entries') >= Len(entries),
         \A h \in Headers : SameSlots(h),
         \A d \in Consumers :
           /\ pc[d] = "load_index_tail" =>
                \/ blockIndex'[loc[d].header].tail = blockIndex[loc[d].header].tail
                \/ Leads(loc[d].header, blockIndex[loc[d].header].tail, Number(loc[d].index))'
           /\ pc[d] \in UsesEntry => entries'[loc[d].entry] = entries[loc[d].entry]
           /\ pc[d] = "remove_entry" => blocks'[loc[d].block].dequeued = blocks[loc[d].block].dequeued
  PROVE  ConsumersOK'
  <1>1. headIndex' >= headIndex
    BY HeadIsBehind DEF BlockInv
  <1>2. ASSUME NEW d \in Consumers PROVE ConsumerAt(pc[d], loc[d])'
    <2>1. /\ pc[d] = "load_index_tail" =>
               \/ blockIndex'[loc[d].header].tail = blockIndex[loc[d].header].tail
               \/ Leads(loc[d].header, blockIndex[loc[d].header].tail, Number(loc[d].index))'
          /\ pc[d] \in UsesEntry => entries'[loc[d].entry] = entries[loc[d].entry]
          /\ pc[d] = "remove_entry" => blocks'[loc[d].block].dequeued = blocks[loc[d].block].dequeued
          /\ pc'[d] = pc[d] /\ loc'[d] = loc[d]
      OBVIOUS
    <2> QED BY <1>1, <2>1, RelyOn
  <1> QED BY <1>2 DEF BlockInv, IndexInv, ConsumersOK

\* Nobody uses the entry that the producer is inserting.
LEMMA NotInUse ==
  ASSUME BlockInv, ppc \in {"store_key"} \cup Inserting, blockIndex # <<>>
  PROVE  /\ ploc.idxEntry \in Allocated /\ ValueOf(ploc.idxEntry) \notin Blocks
         /\ \A d \in Consumers : pc[d] \in UsesEntry => loc[d].entry # ploc.idxEntry /\ loc[d].entry \in Allocated
  <1>1. Types /\ HeadersOK /\ ProducerOK
    BY DEF BlockInv, IndexInv
  <1>2. Last \in Allocated /\ EntryBack(0) \in Allocated
    BY <1>1, CurrentEntries, SlotFacts
  <1>3. ploc.idxEntry \in Allocated /\ ValueOf(ploc.idxEntry) \notin Blocks
    BY <1>1, <1>2 DEF ProducerOK, Inserting
  <1> QED BY <1>3, AtEntry

\* Steps after which the index is as it was.
LEMMA ProducerAside ==
  ASSUME BlockInv, CountInv',
         UNCHANGED <<tailBlock, blockIndex, entries, pool, pc, loc, headIndex, dequeueOptimisticCount>>,
         tailIndex' \in 0 .. MaxTail, blocks' \in [Blocks -> AnyBlock],
         \A b \in Blocks : blocks'[b].dequeued = blocks[b].dequeued,
         ppc' \in PSteps, ploc' \in [idxEntry : Nat, newBlock : Blocks \cup {nullptr}],
         ploc'.newBlock = ploc.newBlock,
         Due' = Due, Newest' = Newest, HasBlock' => HasBlock,
         ppc \in Inserting => ppc' \in Inserting /\ ploc'.idxEntry = ploc.idxEntry,
         ProducerOK'
  PROVE  IndexInv'
  <1>0. Types /\ HeadersOK /\ KeysOK /\ LiveOK /\ ConsumersOK /\ Places /\ CountInv
    BY DEF BlockInv, IndexInv
  <1>1. Types'
    BY <1>0 DEF Types
  <1>2. SameIndex /\ SameBlocks
    BY DEF SameIndex, SameBlocks, KeyOf, ValueOf, Allocated
  <1>3. SameClaims
    BY DEF SameClaims, Holds, HeldKey, KeyOf
  <1>4. HeadersOK' /\ KeysOK' /\ LiveOK'
    BY <1>0, <1>2, <1>3, HeadersKept, KeysKept, LiveKept
  <1>5. Places'
    BY <1>0, <1>2, PlacesKept
  <1>6. ConsumersOK'
    <2>1. SameKeys /\ \A h \in Headers : SameSlots(h)
      BY DEF SameKeys, SameSlots, KeyOf
    <2>2. Len(blockIndex') >= Len(blockIndex) /\ Len(entries') >= Len(entries)
      BY <1>0, TypeFacts
    <2>3. \A d \in Consumers : pc[d] = "remove_entry" => loc[d].block \in Blocks
      BY <1>0 DEF ConsumersOK, ConsumerAt, UsesEntry
    <2> QED BY <1>1, <2>1, <2>2, <2>3, ConsumersRely
  <1> QED BY <1>1, <1>4, <1>5, <1>6 DEF IndexInv

\* What a producer step that only moves on, or sets idxEntry, leaves alone.
LEMMA ProducerMoves ==
  ASSUME BlockInv, CountInv', UNCHANGED <<counters, memory, pc, loc>>,
         ppc' \in PSteps, NEW e \in Nat, ploc' = [ploc EXCEPT !.idxEntry = e],
         HasBlock' <=> HasBlock, ppc' \in AtTail <=> ppc \in AtTail,
         ppc \in Inserting => ppc' \in Inserting /\ e = ploc.idxEntry,
         ProducerOK'
  PROVE  IndexInv'
  <1>0. Types /\ CountInv
    BY DEF BlockInv, IndexInv
  <1>1. /\ UNCHANGED <<tailBlock, blockIndex, entries, pool, blocks, headIndex, dequeueOptimisticCount, tailIndex>>
        /\ tailIndex' \in 0 .. MaxTail /\ blocks' \in [Blocks -> AnyBlock]
    BY <1>0 DEF counters, memory, Types
  <1>2. /\ ploc' \in [idxEntry : Nat, newBlock : Blocks \cup {nullptr}]
        /\ ploc'.newBlock = ploc.newBlock /\ ploc'.idxEntry = e
    BY <1>0 DEF Types
  <1>3. Due' = Due /\ Newest' = Newest
    BY <1>1 DEF Due, Newest
  <1> QED BY <1>1, <1>2, <1>3, ProducerAside

\* insert_block_index_entry: the entry after the newest is not in use, or there
\* is another block in it, which is not one whose insertion failed.
LEMMA StartKeeps ==
  ASSUME BlockInv, CountInv', UNCHANGED <<pc, loc>>, StartBlock
  PROVE  IndexInv'
  <1>0. Types /\ HeadersOK /\ KeysOK /\ ProducerOK
    BY DEF BlockInv, IndexInv
  <1>1. /\ UNCHANGED <<counters, memory>> /\ UNCHANGED <<tailIndex, blockIndex, entries>>
        /\ ppc = "idle" /\ tailIndex < MaxTail /\ tailIndex % BLOCK_SIZE = 0 /\ blockIndex # <<>>
    BY DEF StartBlock, counters, memory
  <1>2. Current \in Headers /\ Last \in Allocated /\ Last \in Nat
    BY <1>0, <1>1, CurrentEntries, TypeFacts DEF Allocated
  <1>3. PICK n \in Nat \ {0, 1} : n = blockIndex[Current].capacity
    BY <1>0, <1>2, HeaderFacts
  <1>4. PICK s \in 0 .. n - 1 : s = blockIndex[Current].tail
    BY <1>0, <1>2, <1>3, HeaderFacts DEF Slots
  <1>5. Header.index[NextSlot(Header)] = Last
    <2>1. (s + 1) % n = Back(n, s, n - 1)
      BY Circle
    <2>2. NextSlot(Header) = Back(n, s, n - 1)
      BY <1>3, <1>4, <2>1 DEF NextSlot, Header, Current
    <2> QED BY <1>3, <1>4, <2>2 DEF Last, EntryBack, EntryFrom, Header, Current
  <1>6. HasBlock' <=> HasBlock
    BY <1>1 DEF HasBlock, StartBlock, PGo
  <1>7. ~ HasBlock /\ Newest = Due - 1
    BY <1>1 DEF HasBlock, Newest, AtTail
  <1>8. Last' = Last /\ Due' = Due
    BY <1>1, <1>6 DEF Last, EntryBack, EntryFrom, Current, Due
  <1>9. ploc.newBlock = nullptr /\ (KeyOf(Last) = INVALID_BLOCK_BASE => ValueOf(Last) = garbage)
    BY <1>0, <1>1, <1>2 DEF ProducerOK, KeysOK
  <1>10. CASE KeyOf(Last) = INVALID_BLOCK_BASE \/ ValueOf(Last) = nullptr
    <2>1. ppc' = "store_key" /\ ploc' = [ploc EXCEPT !.idxEntry = Last]
      BY <1>5, <1>10 DEF StartBlock, PGo, KeyOf, ValueOf
    <2>2. ploc'.idxEntry = Last /\ ploc'.newBlock = nullptr
      BY <1>0, <1>9, <2>1 DEF Types
    <2>3. ValueOf(Last) \notin Blocks
      BY <1>9, <1>10, Bounds
    <2>4. ProducerOK'
      BY <1>1, <1>8, <2>1, <2>2, <2>3 DEF ProducerOK, AtTail, Inserting, Producing, ValueOf
    <2>5. "store_key" \in PSteps
      BY DEF PSteps
    <2> QED BY <1>1, <1>2, <1>6, <2>1, <2>4, <2>5, ProducerMoves DEF AtTail, Inserting
  <1>11. CASE ~ (KeyOf(Last) = INVALID_BLOCK_BASE \/ ValueOf(Last) = nullptr)
    <2>1. ppc' = "new_index" /\ ploc' = ploc
      BY <1>5, <1>11 DEF StartBlock, PGo, KeyOf, ValueOf
    <2>2. KeyOf(Last) # Key(Due)
      <3> SUFFICES ASSUME KeyOf(Last) = Key(Due) PROVE FALSE
        OBVIOUS
      <3>1. PICK j \in Slots(Current) : j = n - 1 /\ Last = EntryBack(j)
        BY <1>0, <1>2, <1>3 DEF Last, Slots
      <3>2. KeyAt(j)
        BY <1>0, <1>1 DEF KeysOK
      <3>3. Due \in Nat /\ Newest - j \in Int /\ Newest - j # Due
        BY <1>0, <1>3, <1>7, <3>1, DueFacts DEF Slots
      <3>4. Key(Newest - j) # Key(Due)
        BY <3>3, KeyOrder
      <3>5. Stale(j)
        BY <1>11, <3>1, <3>2, <3>4 DEF KeyAt
      <3>6. ValueOf(Last) = garbage
        BY <1>0, <1>2, <1>11, <3>1, <3>5, EntryFacts DEF Stale
      <3> QED BY <1>0, <1>1, <1>2, <1>11, <3>6 DEF KeysOK, Inserting, AtTail
    <2>3. ProducerOK'
      BY <1>1, <1>8, <1>9, <2>1, <2>2 DEF ProducerOK, AtTail, Inserting, Producing, KeyOf
    <2>4. "new_index" \in PSteps /\ ploc' = [ploc EXCEPT !.idxEntry = ploc.idxEntry] /\ ploc.idxEntry \in Nat
      BY <1>0, <2>1 DEF PSteps, Types
    <2> QED BY <1>1, <1>6, <2>1, <2>3, <2>4, ProducerMoves DEF AtTail, Inserting
  <1> QED BY <1>10, <1>11

LEMMA NullKeeps ==
  ASSUME BlockInv, CountInv', UNCHANGED <<pc, loc>>, UseNullIndex
  PROVE  IndexInv'
  <1>0. Types /\ ProducerOK
    BY DEF BlockInv, IndexInv
  <1>1. /\ UNCHANGED <<counters, memory>> /\ UNCHANGED <<tailIndex, blockIndex, entries>>
        /\ ppc = "idle" /\ ppc' = "crashed" /\ ploc' = ploc
    BY DEF UseNullIndex, PGo, counters, memory
  <1>2. "crashed" \in PSteps /\ ploc' = [ploc EXCEPT !.idxEntry = ploc.idxEntry] /\ ploc.idxEntry \in Nat
    BY <1>0, <1>1 DEF PSteps, Types
  <1>3. HasBlock' <=> HasBlock
    BY <1>1 DEF HasBlock
  <1>4. ProducerOK'
    BY <1>0, <1>1 DEF ProducerOK, AtTail, Inserting, Producing
  <1> QED BY <1>1, <1>2, <1>3, <1>4, ProducerMoves DEF AtTail, Inserting

LEMMA ConstructKeeps ==
  ASSUME BlockInv, CountInv', UNCHANGED <<pc, loc>>, Construct
  PROVE  IndexInv'
  <1>0. Types /\ ProducerOK
    BY DEF BlockInv, IndexInv
  <1>1. /\ UNCHANGED <<tailIndex, headIndex, dequeueOptimisticCount, tailBlock, blockIndex, entries, pool, ploc>>
        /\ ppc' = "publish" /\ tailIndex < MaxTail
        /\ ppc = "construct" \/ (ppc = "idle" /\ tailIndex % BLOCK_SIZE # 0)
    BY <1>0 DEF Construct, PGo, counters, ProducerOK
  <1>2. HasBlock /\ HasBlock' /\ Due' = Due /\ Newest' = Newest
    BY <1>1 DEF HasBlock, Due, Newest, AtTail
  <1>3. tailIndex \in Word /\ tailIndex % BLOCK_SIZE \in Slot
    <2>1. tailIndex \in Nat /\ tailIndex <= MaxTail
      BY <1>0, Bounds DEF Types
    <2>2. tailIndex \in Word
      BY <2>1, Bounds DEF Word
    <2> QED BY <2>1, <2>2, IndexFacts
  <1>4. \A b \in Blocks : [blocks[b] EXCEPT !.slots[tailIndex % BLOCK_SIZE] = tailIndex] \in AnyBlock
    BY <1>0, <1>3, TypeFacts DEF AnyBlock
  <1>5. blocks' = [blocks EXCEPT ![tailBlock].slots[tailIndex % BLOCK_SIZE] = tailIndex]
    BY DEF Construct
  <1>6. blocks' \in [Blocks -> AnyBlock]
    BY <1>0, <1>4, <1>5 DEF Types
  <1>7. \A b \in Blocks : blocks'[b].dequeued = blocks[b].dequeued
    <2>1. \A b \in Blocks : DOMAIN blocks[b] = {"slots", "dequeued"}
      BY <1>0, TypeFacts DEF AnyBlock
    <2> QED BY <1>0, <1>5, <2>1 DEF Types
  <1>8. ProducerOK'
    <2>1. 0 % BLOCK_SIZE = 0
      BY Bounds
    <2>2. blockIndex # <<>>
      BY <1>0, <1>1, <2>1 DEF ProducerOK
    <2> QED BY <1>0, <1>1, <2>2 DEF ProducerOK, AtTail, Inserting, Producing
  <1>9. "publish" \in PSteps /\ ploc' \in [idxEntry : Nat, newBlock : Blocks \cup {nullptr}]
    BY <1>0, <1>1 DEF PSteps, Types
  <1>10. tailIndex' \in 0 .. MaxTail
    BY <1>0, <1>1 DEF Types
  <1> QED BY <1>1, <1>2, <1>6, <1>7, <1>8, <1>9, <1>10, ProducerAside DEF Inserting, AtTail

LEMMA PublishKeeps ==
  ASSUME BlockInv, CountInv', UNCHANGED <<pc, loc>>, Publish
  PROVE  IndexInv'
  <1>0. Types /\ ProducerOK
    BY DEF BlockInv, IndexInv
  <1>1. /\ UNCHANGED <<headIndex, dequeueOptimisticCount, tailBlock, blockIndex, entries, blocks, pool, ploc>>
        /\ ppc = "publish" /\ ppc' = "idle" /\ tailIndex' = tailIndex + 1 /\ tailIndex < MaxTail
    BY <1>0 DEF Publish, PGo, memory, ProducerOK
  <1>2. PICK i \in Nat : i = tailIndex
    BY <1>0, TypeFacts
  <1>3. Number(i + 1) = IF (i + 1) % BLOCK_SIZE = 0 THEN Number(i) + 1 ELSE Number(i)
    BY NextIndex
  <1>4. Number(tailIndex)' = Number(i + 1) /\ Number(tailIndex) = Number(i) /\ HasBlock
    BY <1>1, <1>2 DEF Number, HasBlock
  <1>5. HasBlock' <=> (i + 1) % BLOCK_SIZE # 0
    BY <1>1, <1>2 DEF HasBlock
  <1>6. Due' = Due
    BY <1>3, <1>4, <1>5 DEF Due
  <1>7. Newest' = Newest
    BY <1>1, <1>6 DEF Newest, AtTail
  <1>8. ProducerOK'
    <2>1. blockIndex # <<>>
      BY <1>0, <1>1 DEF ProducerOK
    <2> QED BY <1>0, <1>1, <2>1 DEF ProducerOK, AtTail, Inserting, Producing
  <1>9. "idle" \in PSteps /\ blocks' \in [Blocks -> AnyBlock]
        /\ ploc' \in [idxEntry : Nat, newBlock : Blocks \cup {nullptr}]
    BY <1>0, <1>1 DEF PSteps, Types
  <1>10. tailIndex' \in 0 .. MaxTail
    BY <1>0, <1>1, Bounds DEF Types
  <1> QED BY <1>1, <1>4, <1>6, <1>7, <1>8, <1>9, <1>10, ProducerAside DEF Inserting, AtTail

\* requisition_block, whether or not there is a block.
LEMMA RequisitionKeeps ==
  ASSUME BlockInv, CountInv', UNCHANGED <<pc, loc>>, Requisition
  PROVE  IndexInv'
  <1>0. Types /\ HeadersOK /\ KeysOK /\ LiveOK /\ ConsumersOK /\ Places /\ ProducerOK /\ CountInv
    BY DEF BlockInv, IndexInv
  <1>1. /\ UNCHANGED <<counters, tailBlock, blockIndex, entries>>
        /\ UNCHANGED <<tailIndex, headIndex, dequeueOptimisticCount>> /\ ppc = "requisition"
    BY DEF Requisition, counters
  <1>2. ppc' \in {"insert", "rewind"}
    BY DEF Requisition, PGo
  <1>3. Due' = Due /\ Newest' = Newest /\ (HasBlock' <=> HasBlock)
    BY <1>1, <1>2 DEF Due, Newest, HasBlock, AtTail
  <1>4. /\ EntryBack(0)' = EntryBack(0) /\ EntryBack(1)' = EntryBack(1) /\ blockIndex # <<>>
        /\ EntryBack(0) \in Allocated /\ EntryBack(1) \in Allocated /\ ploc.newBlock = nullptr
    BY <1>0, <1>1, CurrentEntries, SlotFacts DEF ProducerOK, EntryBack, EntryFrom, Current
  <1>5. CASE UNCHANGED <<pool, blocks, ploc>> /\ ppc' = "rewind"
    <2>1. ProducerOK'
      BY <1>0, <1>1, <1>3, <1>4, <1>5 DEF ProducerOK, AtTail, Inserting, Producing, KeyOf, ValueOf
    <2>2. "rewind" \in PSteps /\ ploc' = [ploc EXCEPT !.idxEntry = ploc.idxEntry] /\ ploc.idxEntry \in Nat
      BY <1>0, <1>5 DEF PSteps, Types
    <2> QED BY <1>1, <1>3, <1>5, <2>1, <2>2, ProducerMoves DEF AtTail, Inserting, memory
  <1>6. ASSUME NEW b \in pool, pool' = pool \ {b}, blocks' = [blocks EXCEPT ![b].dequeued = 0],
               ploc' = [ploc EXCEPT !.newBlock = b], ppc' = "insert"
        PROVE  IndexInv'
    <2>1. b \in Blocks /\ ~ InIndex(b) /\ ~ BeingFreed(b)
      BY <1>0, <1>6 DEF Types, Places
    <2>2. ploc' \in [idxEntry : Nat, newBlock : Blocks \cup {nullptr}]
          /\ ploc'.newBlock = b /\ ploc'.idxEntry = ploc.idxEntry
      BY <1>0, <1>6, <2>1 DEF Types
    <2>3. blocks' \in [Blocks -> AnyBlock]
      <3>1. blocks[b] \in AnyBlock /\ 0 \in 0 .. BLOCK_SIZE
        BY <1>0, <2>1, Bounds DEF Types
      <3>2. [blocks[b] EXCEPT !.dequeued = 0] \in AnyBlock
        BY <3>1 DEF AnyBlock
      <3> QED BY <1>0, <1>6, <3>2 DEF Types
    <2>4. \A k \in Blocks : blocks'[k].dequeued = IF k = b THEN 0 ELSE blocks[k].dequeued
      BY <1>0, <1>6, TypeFacts DEF AnyBlock, Types
    <2>5. Types'
      <3>1. "insert" \in PSteps /\ pool' \subseteq Blocks
        BY <1>0, <1>6 DEF PSteps, Types
      <3> QED BY <1>0, <1>1, <1>6, <2>2, <2>3, <3>1 DEF Types
    <2>6. SameIndex /\ SameClaims
      BY <1>1 DEF SameIndex, SameClaims, Holds, HeldKey, KeyOf, ValueOf, Allocated
    <2>7. SameBlocks
      BY <1>1, <2>1, <2>4 DEF SameBlocks, ValueOf, Allocated, InIndex
    <2>8. ProducerOK'
      BY <1>0, <1>1, <1>3, <1>4, <1>6, <2>1, <2>2, <2>4, Bounds
         DEF ProducerOK, AtTail, Inserting, Producing, KeyOf, ValueOf
    <2>9. HeadersOK' /\ KeysOK' /\ LiveOK'
      <3>1. ppc' \in Inserting
        BY <1>6 DEF Inserting, AtTail
      <3> QED BY <1>0, <1>1, <1>3, <2>2, <2>6, <2>7, <3>1, HeadersKept, KeysKept, LiveKept
    <2>10. Places'
      <3>1. ASSUME NEW k \in Blocks PROVE (InIndex(k)' <=> InIndex(k)) /\ (BeingFreed(k)' <=> BeingFreed(k))
        BY <1>1 DEF InIndex, BeingFreed, Allocated, ValueOf
      <3>2. ASSUME NEW k \in Blocks
            PROVE  /\ k \in pool' \/ k = ploc'.newBlock \/ InIndex(k)' \/ BeingFreed(k)'
                   /\ k \in pool' => k # ploc'.newBlock /\ ~ InIndex(k)' /\ ~ BeingFreed(k)'
                   /\ k = ploc'.newBlock => ~ InIndex(k)' /\ ~ BeingFreed(k)'
                   /\ InIndex(k)' => ~ BeingFreed(k)'
        BY <1>0, <1>4, <1>6, <2>1, <2>2, <3>1, Bounds DEF Places
      <3>3. ASSUME NEW k \in Blocks, InIndex(k)'
            PROVE  \/ blocks'[k].dequeued < BLOCK_SIZE
                   \/ \E d \in Consumers : pc'[d] = "remove_entry" /\ loc'[d].block = k
        BY <1>0, <2>1, <2>4, <3>1, <3>3 DEF Places
      <3>4. \A f, g \in Allocated' : ValueOf(f)' \in Blocks /\ ValueOf(f)' = ValueOf(g)' => f = g
        BY <1>0, <1>1 DEF Places, Allocated, ValueOf
      <3>5. \A d, k \in Consumers :
              pc'[d] = "free_block" /\ pc'[k] = "free_block" /\ loc'[d].block = loc'[k].block => d = k
        BY <1>0 DEF Places
      <3> QED BY <3>2, <3>3, <3>4, <3>5 DEF Places
    <2>11. ConsumersOK'
      <3>1. SameKeys /\ \A h \in Headers : SameSlots(h)
        BY <1>1 DEF SameKeys, SameSlots, KeyOf
      <3>2. Len(blockIndex') >= Len(blockIndex) /\ Len(entries') >= Len(entries)
        BY <1>0, <1>1, TypeFacts
      <3>3. ASSUME NEW d \in Consumers, pc[d] = "remove_entry"
            PROVE  blocks'[loc[d].block].dequeued = blocks[loc[d].block].dequeued
        <4>1. loc[d].entry \in Allocated /\ loc[d].block = ValueOf(loc[d].entry) /\ loc[d].block \in Blocks
          BY <1>0, <3>3 DEF ConsumersOK, ConsumerAt, UsesEntry
        <4> QED BY <2>1, <2>4, <4>1 DEF InIndex
      <3> QED BY <1>1, <2>5, <3>1, <3>2, <3>3, ConsumersRely
    <2> QED BY <2>5, <2>8, <2>9, <2>10, <2>11 DEF IndexInv
  <1> QED BY <1>5, <1>6 DEF Requisition, PGo


LEMMA Written ==
  ASSUME Types, NEW e \in Allocated, NEW x \in AnyEntry, entries' = [entries EXCEPT ![e] = x]
  PROVE  /\ entries' \in Seq(AnyEntry) /\ Len(entries') = Len(entries) /\ Allocated' = Allocated
         /\ \A f \in Allocated : entries'[f] = IF f = e THEN x ELSE entries[f]
  <1>1. entries \in Seq(AnyEntry) /\ e \in 1 .. Len(entries)
    BY DEF Types, Allocated
  <1>2. entries' \in Seq(AnyEntry) /\ Len(entries') = Len(entries)
    BY <1>1, ExceptSeq
  <1>3. DOMAIN entries = Allocated
    BY <1>1, LenProperties DEF Allocated
  <1> QED BY <1>2, <1>3 DEF Allocated

\* The key is stored over one that nobody relies on.
LEMMA StoreKeyKeeps ==
  ASSUME BlockInv, CountInv', UNCHANGED <<pc, loc>>, StoreKey
  PROVE  IndexInv'
  <1>0. Types /\ HeadersOK /\ KeysOK /\ LiveOK /\ ConsumersOK /\ Places /\ ProducerOK /\ CountInv
    BY DEF BlockInv, IndexInv
  <1>1. /\ UNCHANGED <<tailIndex, headIndex, dequeueOptimisticCount, tailBlock, blockIndex, blocks, pool, ploc>>
        /\ ppc = "store_key" /\ ppc' = "store_tail" /\ tailIndex % BLOCK_SIZE = 0 /\ blockIndex # <<>>
        /\ tailIndex < MaxTail
    BY <1>0 DEF StoreKey, PGo, counters, ProducerOK, Producing
  <1>2. PICK n \in Nat \ {0, 1} : n = blockIndex[Current].capacity
    BY <1>0, <1>1, CurrentEntries, HeaderFacts
  <1>3. PICK e \in Allocated : e = ploc.idxEntry /\ e = Last /\ e = EntryBack(n - 1)
    BY <1>0, <1>1, <1>2, CurrentEntries DEF ProducerOK, Last
  <1>4. n - 1 \in Slots(Current) /\ 0 \in Slots(Current)
    BY <1>2 DEF Slots
  <1>5. /\ ~ HasBlock /\ ~ HasBlock' /\ Due' = Due /\ Newest' = Newest /\ Newest = Due - 1
    BY <1>1 DEF HasBlock, Due, Newest, AtTail
  <1>6. tailIndex = Key(Due) /\ Due \in Nat /\ Key(Due) # INVALID_BLOCK_BASE
    BY <1>0, <1>5, DueFacts, KeyFacts
  <1>7. ValueOf(e) \notin Blocks
    BY <1>0, <1>1, <1>3 DEF ProducerOK
  <1>8. /\ entries' \in Seq(AnyEntry) /\ Len(entries') = Len(entries) /\ Allocated' = Allocated
        /\ \A f \in Allocated : f # e => entries'[f] = entries[f]
        /\ KeyOf(e)' = Key(Due) /\ ValueOf(e)' = ValueOf(e)
    <2>1. entries[e] \in AnyEntry /\ tailIndex \in Word
      <3>1. tailIndex \in Nat /\ tailIndex <= MaxTail
        BY <1>0, Bounds DEF Types
      <3> QED BY <1>0, <3>1, TypeFacts, Bounds DEF Word
    <2> DEFINE x == [entries[e] EXCEPT !.key = tailIndex]
    <2>2. x \in AnyEntry /\ x.key = tailIndex /\ x.value = ValueOf(e)
      BY <2>1 DEF AnyEntry, ValueOf
    <2>3. entries' = [entries EXCEPT ![e] = x]
      BY <1>3 DEF StoreKey
    <2> HIDE DEF x
    <2>4. /\ entries' \in Seq(AnyEntry) /\ Len(entries') = Len(entries) /\ Allocated' = Allocated
          /\ \A f \in Allocated : entries'[f] = IF f = e THEN x ELSE entries[f]
      BY <1>0, <2>2, <2>3, Written
    <2> QED BY <1>6, <2>2, <2>4 DEF KeyOf, ValueOf
  <1>9. \A f \in Allocated : /\ KeyOf(f)' = IF f = e THEN Key(Due) ELSE KeyOf(f)
                             /\ ValueOf(f)' = ValueOf(f)
    BY <1>8 DEF KeyOf, ValueOf
  <1>10. \A j : EntryBack(j)' = EntryBack(j)
    BY <1>1 DEF EntryBack, EntryFrom, Current
  <1>11. Current' = Current /\ Headers' = Headers /\ Last' = Last /\ \A h : Slots(h)' = Slots(h)
    BY <1>1 DEF Current, Headers, Slots, Last, EntryBack, EntryFrom
  <1>12. Types'
    <2>1. "store_tail" \in PSteps
      BY DEF PSteps
    <2> QED BY <1>0, <1>1, <1>8, <2>1 DEF Types
  <1>13. HeadersOK'
    BY <1>0, <1>1, <1>8, <1>10, <1>11 DEF HeadersOK
  <1>14. ASSUME NEW j \in Slots(Current), j # n - 1
         PROVE  EntryBack(j) \in Allocated /\ EntryBack(j) # e
    BY <1>0, <1>1, <1>3, <1>4, <1>14, CurrentEntries DEF HeadersOK
  <1>15. KeysOK'
    <2>1. ASSUME NEW j \in Slots(Current) PROVE KeyAt(j)'
      <3>1. CASE j = n - 1
        <4>1. KeyOf(EntryBack(j))' = Key(Due) /\ ValueOf(EntryBack(j))' \notin Blocks
          BY <1>3, <1>7, <1>8, <1>10, <3>1 DEF KeyOf, ValueOf
        <4>2. blockIndex'[Current'].capacity = n
          BY <1>1, <1>2, <1>11
        <4> QED BY <1>5, <3>1, <4>1, <4>2 DEF KeyAt, Stale
      <3>2. CASE j # n - 1
        <4>1. KeyOf(EntryBack(j))' = KeyOf(EntryBack(j))
          BY <1>9, <1>10, <1>14, <3>2 DEF KeyOf
        <4>2. KeyAt(j) /\ ~ Stale(j)
          BY <1>0, <1>1, <1>2, <3>2 DEF KeysOK, Stale
        <4> QED BY <1>5, <4>1, <4>2 DEF KeyAt
      <3> QED BY <3>1, <3>2
    <2>2. Newest >= 0 => KeyOf(EntryBack(0))' = Key(Newest)
      <3>1. EntryBack(0) \in Allocated /\ EntryBack(0) # e
        BY <1>4, <1>14, <1>2
      <3>2. KeyOf(EntryBack(0))' = KeyOf(EntryBack(0))
        BY <1>9, <1>10, <3>1 DEF KeyOf
      <3> QED BY <1>0, <1>1, <3>2 DEF KeysOK
    <2>3. ASSUME NEW f \in Allocated
          PROVE  /\ KeyOf(f)' = INVALID_BLOCK_BASE => ValueOf(f)' = garbage
                 /\ ValueOf(f)' = garbage =>
                      KeyOf(f)' = INVALID_BLOCK_BASE \/ (f = ploc'.idxEntry /\ ppc' \in Inserting)
      BY <1>0, <1>1, <1>3, <1>6, <1>9 DEF KeysOK, Inserting
    <2> QED BY <1>1, <1>5, <1>8, <1>11, <2>1, <2>2, <2>3 DEF KeysOK
  <1>16. \A d \in Consumers : pc[d] \in UsesEntry => loc[d].entry # e /\ loc[d].entry \in Allocated
    BY <1>1, <1>3, NotInUse
  <1>17. SameClaims
    <2>1. ASSUME NEW d \in Consumers, Holds(d) PROVE HeldKey(d)' = HeldKey(d)
      <3>1. CASE pc[d] = "set_empty"
        <4>1. KeyOf(loc[d].entry)' = KeyOf(loc[d].entry)
          BY <1>9, <1>16, <3>1 DEF UsesEntry, KeyOf
        <4> QED BY <3>1, <4>1 DEF HeldKey
      <3>2. CASE pc[d] # "set_empty"
        BY <3>2 DEF HeldKey
      <3> QED BY <3>1, <3>2
    <2> QED BY <2>1 DEF SameClaims, Holds
  <1>18. SameBlocks
    BY <1>1, <1>7, <1>8, <1>9 DEF SameBlocks, ValueOf
  <1>19. LiveOK' /\ Places'
    BY <1>0, <1>1, <1>5, <1>17, <1>18, LiveKept, PlacesKept
  <1>20. KeyOf(e) = Key(Due) \/ Forgotten(e)
    <2>1. KeyAt(n - 1)
      BY <1>0, <1>1, <1>4 DEF KeysOK
    <2>2. CASE Newest >= n - 1 /\ KeyOf(e) = Key(Newest - (n - 1))
      <3>1. Newest - (n - 1) \in Int /\ Newest \in Int
        BY <1>5, <1>6
      <3>2. ASSUME NEW q \in Nat, Live(q) PROVE Newest - (n - 1) < q
        <4>1. PICK f \in Allocated : KeyOf(f) = Key(q) /\ ValueOf(f) \in Blocks
          BY <1>0, <3>2 DEF LiveOK
        <4>2. q \in 0 .. Due - 1
          BY <3>2 DEF Live
        <4>3. Newest - q \in Slots(Current) /\ f = EntryBack(Newest - q)
          BY <1>0, <1>1, <4>1, <4>2, Positions
        <4>4. Newest - q # n - 1
          BY <1>3, <1>7, <4>1, <4>3
        <4> QED BY <1>2, <3>1, <4>3, <4>4 DEF Slots
      <3> QED BY <2>2, <3>1, <3>2 DEF Forgotten
    <2>3. CASE KeyOf(e) = INVALID_BLOCK_BASE
      BY <2>3 DEF Forgotten
    <2>4. CASE Stale(n - 1)
      BY <1>3, <2>4 DEF Stale
    <2> QED BY <1>3, <2>1, <2>2, <2>3, <2>4 DEF KeyAt
  <1>21. ConsumersOK'
    <2>1. SameKeys /\ \A h \in Headers : SameSlots(h)
      BY <1>1, <1>9, <1>20 DEF SameKeys, SameSlots
    <2>2. Len(blockIndex') >= Len(blockIndex) /\ Len(entries') >= Len(entries)
      BY <1>0, <1>1, <1>8, TypeFacts
    <2>3. \A d \in Consumers : pc[d] \in UsesEntry => entries'[loc[d].entry] = entries[loc[d].entry]
      BY <1>8, <1>16
    <2> QED BY <1>1, <1>12, <2>1, <2>2, <2>3, ConsumersRely
  <1>22. ProducerOK'
    <2>1. KeyOf(ploc.idxEntry)' = tailIndex /\ ValueOf(ploc.idxEntry)' \notin Blocks
      BY <1>1, <1>3, <1>6, <1>7, <1>8 DEF KeyOf, ValueOf
    <2>2. ploc'.newBlock = nullptr
      BY <1>0, <1>1 DEF ProducerOK
    <2> QED BY <1>1, <1>3, <1>11, <2>1, <2>2 DEF ProducerOK, AtTail, Inserting, Producing
  <1> QED BY <1>12, <1>13, <1>15, <1>19, <1>21, <1>22 DEF IndexInv

----------------------------------------------------------------------------
(* The newest entry moves on, or back. *)

LEMMA Retailed ==
  ASSUME Types, blockIndex # <<>>, NEW t \in Slots(Current),
         blockIndex' = [blockIndex EXCEPT ![Len(blockIndex)].tail = t]
  PROVE  /\ blockIndex' \in Seq(AnyHeader) /\ Len(blockIndex') = Len(blockIndex) /\ blockIndex' # <<>>
         /\ Current' = Current /\ Headers' = Headers
         /\ \A h \in Headers : SameSlots(h) /\ Slots(h)' = Slots(h)
         /\ \A h \in Headers : h # Current => blockIndex'[h].tail = blockIndex[h].tail
         /\ blockIndex'[Current].tail = t
         /\ \A j : EntryBack(j)' = EntryFrom(Current, t, j)
  <1>1. Current \in Headers /\ blockIndex \in Seq(AnyHeader) /\ Current \in 1 .. Len(blockIndex)
    BY TypeFacts DEF Types, Headers
  <1>2. PICK n \in Nat \ {0, 1} :
          blockIndex[Current] \in [capacity : {n}, tail : 0 .. n - 1, index : [0 .. n - 1 -> Nat]]
    BY <1>1, TypeFacts DEF AnyHeader
  <1> DEFINE x == [blockIndex[Current] EXCEPT !.tail = t]
  <1>3. t \in 0 .. n - 1
    BY <1>2 DEF Slots
  <1>4. /\ x \in [capacity : {n}, tail : 0 .. n - 1, index : [0 .. n - 1 -> Nat]] /\ x.tail = t
        /\ x.capacity = blockIndex[Current].capacity /\ x.index = blockIndex[Current].index
    BY <1>2, <1>3
  <1>5. x \in AnyHeader
    BY <1>4 DEF AnyHeader
  <1>6. blockIndex' = [blockIndex EXCEPT ![Current] = x]
    BY DEF Current
  <1> HIDE DEF x
  <1>7. blockIndex' \in Seq(AnyHeader) /\ Len(blockIndex') = Len(blockIndex)
    BY <1>1, <1>5, <1>6, ExceptSeq
  <1>8. DOMAIN blockIndex = Headers
    BY <1>1, LenProperties DEF Headers
  <1>9. \A h \in Headers : blockIndex'[h] = IF h = Current THEN x ELSE blockIndex[h]
    BY <1>6, <1>8
  <1>10. Current' = Current /\ Headers' = Headers /\ blockIndex' # <<>>
    <2>1. blockIndex' = <<>> => Len(blockIndex') = 0
      BY <1>7, EmptySeq
    <2> QED BY <1>1, <1>7, <2>1 DEF Current, Headers
  <1>11. \A h \in Headers : SameSlots(h) /\ Slots(h)' = Slots(h)
    BY <1>4, <1>9 DEF SameSlots, Slots
  <1>12. blockIndex'[Current].tail = t
    BY <1>1, <1>4, <1>9
  <1>13. \A j : EntryBack(j)' = EntryFrom(Current, t, j)
    BY <1>1, <1>10, <1>11, <1>12 DEF EntryBack, EntryFrom, SameSlots
  <1> QED BY <1>1, <1>7, <1>9, <1>10, <1>11, <1>12, <1>13

\* From wherever one counts, one comes by each entry once.
LEMMA Rotated ==
  ASSUME Types, HeadersOK, blockIndex # <<>>, entries' = entries, NEW t \in Slots(Current),
         blockIndex' = [blockIndex EXCEPT ![Len(blockIndex)].tail = t]
  PROVE  HeadersOK'
  <1>1. Current \in Headers /\ blockIndex[Current].tail \in Slots(Current)
    BY CurrentEntries
  <1>2. /\ Current' = Current /\ Headers' = Headers /\ blockIndex' # <<>>
        /\ \A h \in Headers : SameSlots(h) /\ Slots(h)' = Slots(h)
        /\ \A j : EntryBack(j)' = EntryFrom(Current, t, j)
    BY Retailed
  <1>3. PICK n \in Nat \ {0, 1} : n = blockIndex[Current].capacity
    BY <1>1, HeaderFacts
  <1>4. PICK s \in 0 .. n - 1, u \in 0 .. n - 1 : s = blockIndex[Current].tail /\ u = t
    BY <1>1, <1>3 DEF Slots
  <1>5. PICK f : f = blockIndex[Current].index
    OBVIOUS
  <1>6. /\ \A j : EntryBack(j) = f[Back(n, s, j)]
        /\ \A j : EntryBack(j)' = f[Back(n, u, j)]
    BY <1>2, <1>3, <1>4, <1>5 DEF EntryBack, EntryFrom
  <1>7. Slots(Current) = 0 .. n - 1 /\ Slots(Current)' = 0 .. n - 1 /\ Slots(Current') = 0 .. n - 1
    BY <1>1, <1>2, <1>3 DEF Slots
  <1>8. \A x, y \in 0 .. n - 1 : f[x] = f[y] => x = y
    <2> SUFFICES ASSUME NEW x \in 0 .. n - 1, NEW y \in 0 .. n - 1, f[x] = f[y] PROVE x = y
      OBVIOUS
    <2>1. PICK i \in 0 .. n - 1 : x = Back(n, s, i)
      BY Circle
    <2>2. PICK j \in 0 .. n - 1 : y = Back(n, s, j)
      BY Circle
    <2>3. i = j
      BY <1>6, <1>7, <2>1, <2>2 DEF HeadersOK
    <2> QED BY <2>1, <2>2, <2>3
  <1>9. \A i, j \in 0 .. n - 1 : EntryBack(i)' = EntryBack(j)' => i = j
    <2> SUFFICES ASSUME NEW i \in 0 .. n - 1, NEW j \in 0 .. n - 1, EntryBack(i)' = EntryBack(j)' PROVE i = j
      OBVIOUS
    <2>1. Back(n, u, i) \in 0 .. n - 1 /\ Back(n, u, j) \in 0 .. n - 1
      BY Circle
    <2>2. Back(n, u, i) = Back(n, u, j)
      BY <1>6, <1>8, <2>1
    <2> QED BY <2>2, Circle
  <1>10. \A e \in Allocated : \E j \in 0 .. n - 1 : e = EntryBack(j)'
    <2> SUFFICES ASSUME NEW e \in Allocated PROVE \E j \in 0 .. n - 1 : e = EntryBack(j)'
      OBVIOUS
    <2>1. PICK i \in 0 .. n - 1 : e = EntryBack(i)
      BY <1>7 DEF HeadersOK
    <2>2. Back(n, s, i) \in 0 .. n - 1
      BY Circle
    <2>3. PICK j \in 0 .. n - 1 : Back(n, s, i) = Back(n, u, j)
      BY <2>2, Circle
    <2> QED BY <1>6, <2>1, <2>3
  <1>11. Allocated' = Allocated
    BY DEF Allocated
  <1>12. \A h \in Headers : \A x \in Slots(h) : blockIndex'[h].index[x] \in Allocated
    BY <1>2 DEF SameSlots, HeadersOK
  <1> QED BY <1>2, <1>7, <1>9, <1>10, <1>11, <1>12 DEF HeadersOK

LEMMA TailMoves ==
  ASSUME BlockInv, CountInv', UNCHANGED <<counters, tailBlock, entries, blocks, pool, ploc, pc, loc>>,
         blockIndex # <<>>, NEW t \in Slots(Current),
         blockIndex' = [blockIndex EXCEPT ![Len(blockIndex)].tail = t],
         ppc' \in PSteps, HasBlock' <=> HasBlock, KeysOK', ProducerOK'
  PROVE  IndexInv'
  <1>0. Types /\ HeadersOK /\ KeysOK /\ LiveOK /\ ConsumersOK /\ Places /\ CountInv
    BY DEF BlockInv, IndexInv
  <1>1. /\ UNCHANGED <<tailIndex, headIndex, dequeueOptimisticCount>>
    BY DEF counters
  <1>2. /\ blockIndex' \in Seq(AnyHeader) /\ Len(blockIndex') = Len(blockIndex) /\ blockIndex' # <<>>
        /\ Current' = Current /\ Headers' = Headers
        /\ \A h \in Headers : SameSlots(h) /\ Slots(h)' = Slots(h)
        /\ \A h \in Headers : h # Current => blockIndex'[h].tail = blockIndex[h].tail
    BY <1>0, Retailed
  <1>3. Types'
    BY <1>0, <1>1, <1>2 DEF Types
  <1>4. HeadersOK'
    BY <1>0, Rotated
  <1>5. Due' = Due
    BY <1>1 DEF Due
  <1>6. SameClaims /\ SameBlocks
    BY DEF SameClaims, SameBlocks, Holds, HeldKey, KeyOf, ValueOf, Allocated
  <1>7. LiveOK' /\ Places'
    BY <1>0, <1>1, <1>5, <1>6, LiveKept, PlacesKept
  <1>8. ConsumersOK'
    <2>1. SameKeys
      BY DEF SameKeys, KeyOf
    <2>2. Len(blockIndex') >= Len(blockIndex) /\ Len(entries') >= Len(entries)
      BY <1>0, <1>2, TypeFacts
    <2>3. (Types /\ HeadersOK /\ KeysOK /\ LiveOK /\ blockIndex # <<>> =>
            \A q \in Nat : Live(q) => Leads(Current, blockIndex[Current].tail, q))'
      BY CurrentLeads, PTL
    <2>4. ASSUME NEW d \in Consumers, pc[d] = "load_index_tail"
          PROVE  \/ blockIndex'[loc[d].header].tail = blockIndex[loc[d].header].tail
                 \/ Leads(loc[d].header, blockIndex[loc[d].header].tail, Number(loc[d].index))'
      <3>1. loc[d].header \in Headers
        BY <1>0, <2>4 DEF ConsumersOK, ConsumerAt
      <3>2. CASE loc[d].header # Current
        BY <1>2, <3>1, <3>2
      <3>3. CASE loc[d].header = Current
        <4>1. PICK q \in Nat : q = Number(loc[d].index) /\ Live(q)
          BY <2>4, ClaimFacts DEF Indexed
        <4>2. Live(q)'
          BY <1>1, <1>5, <1>6, <4>1, LiveSame
        <4>3. Leads(Current, blockIndex[Current].tail, q)'
          BY <1>2, <1>3, <1>4, <1>7, <2>3, <4>2
        <4>4. loc'[d].header = Current' /\ Number(loc[d].index)' = q
          BY <1>2, <3>3, <4>1 DEF Number
        <4> QED BY <4>3, <4>4 DEF Leads, Slots, EntryFrom, KeyOf
      <3> QED BY <3>2, <3>3
    <2> QED BY <1>1, <1>2, <1>3, <2>1, <2>2, <2>4, ConsumersRely
  <1> QED BY <1>3, <1>4, <1>7, <1>8 DEF IndexInv


LEMMA StoreTailKeeps ==
  ASSUME BlockInv, CountInv', UNCHANGED <<pc, loc>>, StoreIndexTail
  PROVE  IndexInv'
  <1>0. Types /\ HeadersOK /\ KeysOK /\ ProducerOK
    BY DEF BlockInv, IndexInv
  <1>1. /\ UNCHANGED <<counters, tailBlock, entries, blocks, pool, ploc, pc, loc>> /\ UNCHANGED tailIndex
        /\ ppc = "store_tail" /\ ppc' = "requisition" /\ tailIndex % BLOCK_SIZE = 0 /\ blockIndex # <<>>
        /\ tailIndex < MaxTail /\ ppc \in Inserting
    BY <1>0 DEF StoreIndexTail, PGo, counters, ProducerOK, Producing, Inserting
  <1>2. PICK n \in Nat \ {0, 1} : n = blockIndex[Current].capacity
    BY <1>0, <1>1, CurrentEntries, HeaderFacts
  <1>3. PICK s \in 0 .. n - 1 : s = blockIndex[Current].tail
    BY <1>0, <1>1, <1>2, CurrentEntries DEF Slots
  <1>4. PICK t \in Slots(Current) : t = Back(n, s, n - 1) /\ t = NextSlot(Header)
    <2>1. (s + 1) % n = Back(n, s, n - 1) /\ n - 1 \in 0 .. n - 1
      BY Circle
    <2>2. Back(n, s, n - 1) \in 0 .. n - 1
      BY <2>1, Circle
    <2>3. NextSlot(Header) = Back(n, s, n - 1)
      BY <1>2, <1>3, <2>1 DEF NextSlot, Header, Current
    <2> QED BY <1>2, <2>2, <2>3 DEF Slots
  <1>5. blockIndex' = [blockIndex EXCEPT ![Len(blockIndex)].tail = t]
    BY <1>4 DEF StoreIndexTail
  <1>6. /\ Current' = Current /\ Headers' = Headers /\ blockIndex' # <<>> /\ Current \in Headers
        /\ \A h \in Headers : SameSlots(h) /\ Slots(h)' = Slots(h)
        /\ \A j : EntryBack(j)' = EntryFrom(Current, t, j)
    BY <1>0, <1>1, <1>5, Retailed, CurrentEntries
  <1>7. Slots(Current) = 0 .. n - 1
    BY <1>2 DEF Slots
  <1>8. \A j \in 0 .. n - 1 : EntryBack(j)' = IF j = 0 THEN Last ELSE EntryBack(j - 1)
    <2> SUFFICES ASSUME NEW j \in 0 .. n - 1
                 PROVE  EntryBack(j)' = IF j = 0 THEN Last ELSE EntryBack(j - 1)
      OBVIOUS
    <2>1. Back(n, Back(n, s, n - 1), j) = IF j = 0 THEN Back(n, s, n - 1) ELSE Back(n, s, j - 1)
      BY Turned
    <2>2. EntryBack(j)' = blockIndex[Current].index[Back(n, t, j)]
      BY <1>2, <1>6 DEF EntryFrom
    <2>3. /\ Last = blockIndex[Current].index[Back(n, s, n - 1)]
          /\ EntryBack(j - 1) = blockIndex[Current].index[Back(n, s, j - 1)]
      BY <1>2, <1>3 DEF Last, EntryBack, EntryFrom
    <2> QED BY <1>4, <2>1, <2>2, <2>3
  <1>9. /\ ~ HasBlock /\ ~ HasBlock' /\ Due' = Due /\ Newest = Due - 1 /\ Newest' = Due /\ Due \in Nat
        /\ tailIndex = Key(Due)
    BY <1>0, <1>1, DueFacts DEF HasBlock, Due, Newest, AtTail
  <1>10. PICK e \in Allocated : e = Last /\ e = ploc.idxEntry /\ KeyOf(e) = Key(Due) /\ ValueOf(e) \notin Blocks
    <2>1. Last \in Allocated /\ ploc.idxEntry = Last
      BY <1>0, <1>1, CurrentEntries DEF ProducerOK
    <2> QED BY <1>0, <1>1, <1>9, <2>1 DEF ProducerOK
  <1>11. \A f : KeyOf(f)' = KeyOf(f) /\ ValueOf(f)' = ValueOf(f)
    BY <1>1 DEF KeyOf, ValueOf
  <1>12. \A j : KeyOf(EntryBack(j))' = entries[EntryBack(j)'].key
    BY <1>1 DEF KeyOf
  <1>13. 0 \in 0 .. n - 1 /\ 1 \in 0 .. n - 1
    BY <1>2
  <1>14. KeyOf(EntryBack(0))' = Key(Due)
    BY <1>8, <1>10, <1>12, <1>13 DEF KeyOf
  <1>15. KeysOK'
    <2>1. ASSUME NEW j \in 0 .. n - 1 PROVE KeyAt(j)'
      <3>1. CASE j = 0
        <4>1. Due >= j /\ Due - j = Due
          BY <1>9, <3>1
        <4> QED BY <1>9, <1>14, <3>1, <4>1 DEF KeyAt
      <3>2. CASE j # 0
        <4>1. j - 1 \in 0 .. n - 1 /\ j - 1 # n - 1 /\ Newest - (j - 1) = Due - j /\ (Newest >= j - 1 => Due >= j)
          BY <1>9, <3>2
        <4>2. KeyAt(j - 1)
          BY <1>0, <1>1, <1>7, <4>1 DEF KeysOK
        <4>3. KeyOf(EntryBack(j - 1)) = INVALID_BLOCK_BASE
              \/ (Newest >= j - 1 /\ KeyOf(EntryBack(j - 1)) = Key(Due - j))
          BY <1>2, <4>1, <4>2 DEF KeyAt, Stale
        <4>4. KeyOf(EntryBack(j))' = KeyOf(EntryBack(j - 1))
          BY <1>8, <1>12, <3>2 DEF KeyOf
        <4> QED BY <1>9, <4>1, <4>3, <4>4 DEF KeyAt
      <3> QED BY <3>1, <3>2
    <2>2. ASSUME NEW f \in Allocated
          PROVE  /\ KeyOf(f)' = INVALID_BLOCK_BASE => ValueOf(f)' = garbage
                 /\ ValueOf(f)' = garbage =>
                      KeyOf(f)' = INVALID_BLOCK_BASE \/ (f = ploc'.idxEntry /\ ppc' \in Inserting)
      BY <1>0, <1>1, <1>11 DEF KeysOK, Inserting, AtTail
    <2>3. Allocated' = Allocated /\ Slots(Current)' = 0 .. n - 1 /\ KeyOf(EntryBack(0))' = Key(Newest')
      BY <1>1, <1>6, <1>7, <1>9, <1>14 DEF Allocated, Slots
    <2> QED BY <1>9, <2>1, <2>2, <2>3 DEF KeysOK
  <1>16. ProducerOK'
    <2>1. EntryBack(0)' = ploc'.idxEntry
      BY <1>1, <1>8, <1>10, <1>13
    <2>2. KeyOf(ploc.idxEntry)' = tailIndex' /\ ValueOf(ploc.idxEntry)' \notin Blocks
      BY <1>1, <1>9, <1>10 DEF KeyOf, ValueOf
    <2>3. Newest' > 0 => KeyOf(EntryBack(1))' = Key(Newest' - 1)
      <3>1. KeyOf(EntryBack(1))' = KeyOf(EntryBack(0))
        BY <1>8, <1>12, <1>13 DEF KeyOf
      <3>2. Newest' > 0 => Newest >= 0 /\ Newest' - 1 = Newest
        BY <1>9
      <3> QED BY <1>0, <1>1, <3>1, <3>2 DEF KeysOK
    <2>4. ploc'.newBlock = nullptr
      BY <1>0, <1>1 DEF ProducerOK
    <2> QED BY <1>1, <1>6, <2>1, <2>2, <2>3, <2>4 DEF ProducerOK, AtTail, Inserting, Producing
  <1>17. "requisition" \in PSteps
    BY DEF PSteps
  <1> QED BY <1>1, <1>5, <1>9, <1>15, <1>16, <1>17, TailMoves

LEMMA RewindKeeps ==
  ASSUME BlockInv, CountInv', UNCHANGED <<pc, loc>>, RewindBlockIndexTail
  PROVE  IndexInv'
  <1>0. Types /\ HeadersOK /\ KeysOK /\ ProducerOK
    BY DEF BlockInv, IndexInv
  <1>1. /\ UNCHANGED <<counters, tailBlock, entries, blocks, pool, ploc, pc, loc>> /\ UNCHANGED tailIndex
        /\ ppc = "rewind" /\ ppc' = "unset" /\ tailIndex % BLOCK_SIZE = 0 /\ blockIndex # <<>>
        /\ tailIndex < MaxTail /\ ppc \in Inserting /\ ppc \in AtTail
    BY <1>0 DEF RewindBlockIndexTail, PGo, counters, ProducerOK, Producing, Inserting, AtTail
  <1>2. PICK n \in Nat \ {0, 1} : n = blockIndex[Current].capacity
    BY <1>0, <1>1, CurrentEntries, HeaderFacts
  <1>3. PICK s \in 0 .. n - 1 : s = blockIndex[Current].tail
    BY <1>0, <1>1, <1>2, CurrentEntries DEF Slots
  <1>4. PICK t \in Slots(Current) : t = Back(n, s, 1) /\ t = (s - 1) % n
    <2>1. (s - 1) % n = Back(n, s, 1) /\ 1 \in 0 .. n - 1
      BY Circle
    <2>2. Back(n, s, 1) \in 0 .. n - 1
      BY <2>1, Circle
    <2> QED BY <1>2, <2>1, <2>2 DEF Slots
  <1>5. blockIndex' = [blockIndex EXCEPT ![Len(blockIndex)].tail = t]
    <2>1. blockIndex' = [blockIndex EXCEPT ![Len(blockIndex)].tail =
                           (blockIndex[Len(blockIndex)].tail - 1) % blockIndex[Len(blockIndex)].capacity]
      BY <1>0, <1>1, TypeFacts DEF RewindBlockIndexTail, Header
    <2> QED BY <1>2, <1>3, <1>4, <2>1 DEF Current
  <1>6. /\ Current' = Current /\ Headers' = Headers /\ blockIndex' # <<>> /\ Current \in Headers
        /\ \A h \in Headers : SameSlots(h) /\ Slots(h)' = Slots(h)
        /\ \A j : EntryBack(j)' = EntryFrom(Current, t, j)
    BY <1>0, <1>1, <1>5, Retailed, CurrentEntries
  <1>7. Slots(Current) = 0 .. n - 1 /\ blockIndex'[Current'].capacity = n
    BY <1>2, <1>6 DEF Slots, SameSlots
  <1>8. \A j \in 0 .. n - 1 : EntryBack(j)' = IF j = n - 1 THEN EntryBack(0) ELSE EntryBack(j + 1)
    <2> SUFFICES ASSUME NEW j \in 0 .. n - 1
                 PROVE  EntryBack(j)' = IF j = n - 1 THEN EntryBack(0) ELSE EntryBack(j + 1)
      OBVIOUS
    <2>1. Back(n, Back(n, s, 1), j) = IF j = n - 1 THEN s ELSE Back(n, s, j + 1)
      BY Turned
    <2>2. EntryBack(j)' = blockIndex[Current].index[Back(n, t, j)]
      BY <1>2, <1>6 DEF EntryFrom
    <2>3. /\ EntryBack(0) = blockIndex[Current].index[s]
          /\ EntryBack(j + 1) = blockIndex[Current].index[Back(n, s, j + 1)]
      BY <1>0, <1>1, <1>2, <1>3, CurrentEntries DEF EntryBack, EntryFrom
    <2> QED BY <1>4, <2>1, <2>2, <2>3
  <1>9. /\ ~ HasBlock /\ ~ HasBlock' /\ Due' = Due /\ Newest = Due /\ Newest' = Due - 1 /\ Due \in Nat
        /\ tailIndex = Key(Due)
    BY <1>0, <1>1, DueFacts DEF HasBlock, Due, Newest, AtTail
  <1>10. PICK e \in Allocated : /\ e = EntryBack(0) /\ e = ploc.idxEntry
                                /\ KeyOf(e) = Key(Due) /\ ValueOf(e) \notin Blocks
    <2>1. EntryBack(0) \in Allocated /\ ploc.idxEntry = EntryBack(0)
      BY <1>0, <1>1, CurrentEntries, SlotFacts DEF ProducerOK
    <2> QED BY <1>0, <1>1, <1>9, <2>1 DEF ProducerOK
  <1>11. \A f : KeyOf(f)' = KeyOf(f) /\ ValueOf(f)' = ValueOf(f)
    BY <1>1 DEF KeyOf, ValueOf
  <1>12. \A j : KeyOf(EntryBack(j))' = entries[EntryBack(j)'].key /\ ValueOf(EntryBack(j))' = entries[EntryBack(j)'].value
    BY <1>1 DEF KeyOf, ValueOf
  <1>13. n - 1 \in 0 .. n - 1 /\ 0 \in 0 .. n - 1 /\ 0 # n - 1 /\ 0 + 1 = 1
    BY <1>2
  <1>14. KeysOK'
    <2>1. ASSUME NEW j \in 0 .. n - 1 PROVE KeyAt(j)'
      <3>1. CASE j = n - 1
        <4>1. KeyOf(EntryBack(j))' = Key(Due) /\ ValueOf(EntryBack(j))' \notin Blocks
          BY <1>8, <1>10, <1>12, <3>1 DEF KeyOf, ValueOf
        <4> QED BY <1>7, <1>9, <3>1, <4>1 DEF KeyAt, Stale
      <3>2. CASE j # n - 1
        <4>1. j + 1 \in 0 .. n - 1 /\ Newest - (j + 1) = Newest' - j /\ (Newest >= j + 1 => Newest' >= j)
          BY <1>9, <3>2
        <4>2. KeyAt(j + 1)
          BY <1>0, <1>1, <1>7, <4>1 DEF KeysOK
        <4>3. KeyOf(EntryBack(j + 1)) = INVALID_BLOCK_BASE
              \/ (Newest >= j + 1 /\ KeyOf(EntryBack(j + 1)) = Key(Newest' - j))
          BY <1>9, <4>1, <4>2 DEF KeyAt, Stale
        <4>4. KeyOf(EntryBack(j))' = KeyOf(EntryBack(j + 1))
          BY <1>8, <1>12, <3>2 DEF KeyOf
        <4> QED BY <4>1, <4>3, <4>4 DEF KeyAt
      <3> QED BY <3>1, <3>2
    <2>2. ASSUME NEW f \in Allocated
          PROVE  /\ KeyOf(f)' = INVALID_BLOCK_BASE => ValueOf(f)' = garbage
                 /\ ValueOf(f)' = garbage =>
                      KeyOf(f)' = INVALID_BLOCK_BASE \/ (f = ploc'.idxEntry /\ ppc' \in Inserting)
      BY <1>0, <1>1, <1>11 DEF KeysOK, Inserting, AtTail
    <2>3. Newest' >= 0 => KeyOf(EntryBack(0))' = Key(Newest')
      <3>1. KeyOf(EntryBack(0))' = KeyOf(EntryBack(1))
        BY <1>8, <1>12, <1>13 DEF KeyOf
      <3>2. Newest' >= 0 => Newest > 0 /\ Newest' = Newest - 1
        BY <1>9
      <3> QED BY <1>0, <1>1, <3>1, <3>2 DEF ProducerOK
    <2>4. Allocated' = Allocated /\ Slots(Current)' = 0 .. n - 1
      BY <1>1, <1>6, <1>7 DEF Allocated, Slots
    <2> QED BY <2>1, <2>2, <2>3, <2>4 DEF KeysOK
  <1>15. ProducerOK'
    <2>1. Last' = ploc'.idxEntry
      <3>1. Last' = EntryBack(n - 1)'
        BY <1>7 DEF Last, EntryBack
      <3> QED BY <1>1, <1>8, <1>10, <1>13, <3>1
    <2>2. KeyOf(ploc.idxEntry)' = tailIndex' /\ ValueOf(ploc.idxEntry)' \notin Blocks
      BY <1>1, <1>9, <1>10 DEF KeyOf, ValueOf
    <2>3. ploc'.newBlock = nullptr
      BY <1>0, <1>1 DEF ProducerOK
    <2> QED BY <1>1, <1>6, <2>1, <2>2, <2>3 DEF ProducerOK, AtTail, Inserting, Producing
  <1>16. "unset" \in PSteps
    BY DEF PSteps
  <1> QED BY <1>1, <1>5, <1>9, <1>14, <1>15, <1>16, TailMoves

\* The insertion fails: its entry is left with the key, and without a block.
LEMMA UnsetKeeps ==
  ASSUME BlockInv, CountInv', UNCHANGED <<pc, loc>>, UnsetEntry
  PROVE  IndexInv'
  <1>0. Types /\ HeadersOK /\ KeysOK /\ LiveOK /\ ConsumersOK /\ Places /\ ProducerOK /\ CountInv
    BY DEF BlockInv, IndexInv
  <1>1. /\ UNCHANGED <<tailIndex, headIndex, dequeueOptimisticCount, tailBlock, blockIndex, blocks, pool>>
        /\ ppc = "unset" /\ ppc' = "idle" /\ tailIndex % BLOCK_SIZE = 0 /\ blockIndex # <<>>
        /\ ppc \in Inserting
    BY <1>0 DEF UnsetEntry, PGo, counters, ProducerOK, Producing, Inserting
  <1>2. PICK e \in Allocated : e = ploc.idxEntry
    BY <1>1, NotInUse
  <1>3. /\ ValueOf(e) \notin Blocks /\ KeyOf(e) = tailIndex
        /\ \A d \in Consumers : pc[d] \in UsesEntry => loc[d].entry # e /\ loc[d].entry \in Allocated
    BY <1>0, <1>1, <1>2, NotInUse DEF ProducerOK
  <1>4. /\ ~ HasBlock /\ ~ HasBlock' /\ Due' = Due /\ Newest' = Newest
    BY <1>1 DEF HasBlock, Due, Newest, AtTail
  <1>5. KeyOf(e) # INVALID_BLOCK_BASE
    BY <1>0, <1>3, <1>4, DueFacts, KeyFacts
  <1>6. /\ ploc' \in [idxEntry : Nat, newBlock : Blocks \cup {nullptr}]
        /\ ploc'.newBlock = ploc.newBlock /\ ploc.newBlock = nullptr
    BY <1>0, <1>1 DEF UnsetEntry, Types, ProducerOK
  <1>7. /\ entries' \in Seq(AnyEntry) /\ Len(entries') = Len(entries) /\ Allocated' = Allocated
        /\ \A f \in Allocated : f # e => entries'[f] = entries[f]
        /\ KeyOf(e)' = KeyOf(e) /\ ValueOf(e)' = nullptr
    <2> DEFINE x == [entries[e] EXCEPT !.value = nullptr]
    <2>1. x \in AnyEntry /\ x.key = KeyOf(e) /\ x.value = nullptr
      BY <1>0, TypeFacts DEF AnyEntry, KeyOf
    <2>2. entries' = [entries EXCEPT ![e] = x]
      BY <1>2 DEF UnsetEntry
    <2> HIDE DEF x
    <2>3. /\ entries' \in Seq(AnyEntry) /\ Len(entries') = Len(entries) /\ Allocated' = Allocated
          /\ \A f \in Allocated : entries'[f] = IF f = e THEN x ELSE entries[f]
      BY <1>0, <2>1, <2>2, Written
    <2> QED BY <2>1, <2>3 DEF KeyOf, ValueOf
  <1>8. \A f \in Allocated : KeyOf(f)' = KeyOf(f) /\ ValueOf(f)' = IF f = e THEN nullptr ELSE ValueOf(f)
    BY <1>7 DEF KeyOf, ValueOf
  <1>9. Types'
    <2>1. "idle" \in PSteps
      BY DEF PSteps
    <2> QED BY <1>0, <1>1, <1>6, <1>7, <2>1 DEF Types
  <1>10. nullptr \notin Blocks \cup {garbage}
    BY Bounds
  <1>11. SameIndex
    BY <1>1, <1>5, <1>7, <1>8, <1>10 DEF SameIndex
  <1>12. SameBlocks
    BY <1>1, <1>3, <1>7, <1>8, <1>10 DEF SameBlocks, ValueOf
  <1>13. SameClaims
    <2>1. ASSUME NEW d \in Consumers, Holds(d) PROVE HeldKey(d)' = HeldKey(d)
      <3>1. CASE pc[d] = "set_empty"
        <4>1. KeyOf(loc[d].entry)' = KeyOf(loc[d].entry)
          BY <1>3, <1>8, <3>1 DEF UsesEntry, KeyOf
        <4> QED BY <3>1, <4>1 DEF HeldKey
      <3>2. CASE pc[d] # "set_empty"
        BY <3>2 DEF HeldKey
      <3> QED BY <3>1, <3>2
    <2> QED BY <2>1 DEF SameClaims, Holds
  <1>14. HeadersOK' /\ LiveOK' /\ Places'
    BY <1>0, <1>1, <1>4, <1>6, <1>11, <1>12, <1>13, HeadersKept, LiveKept, PlacesKept
  <1>15. KeysOK'
    <2>1. \A f \in Allocated : f = ploc.idxEntry => ValueOf(f)' # garbage
      BY <1>2, <1>8, <1>10
    <2> QED BY <1>0, <1>4, <1>11, <2>1, KeysKept
  <1>16. ConsumersOK'
    <2>1. SameKeys /\ \A h \in Headers : SameSlots(h)
      BY <1>1, <1>8 DEF SameKeys, SameSlots
    <2>2. Len(blockIndex') >= Len(blockIndex) /\ Len(entries') >= Len(entries)
      BY <1>0, <1>1, <1>7, TypeFacts
    <2>3. \A d \in Consumers : pc[d] \in UsesEntry => entries'[loc[d].entry] = entries[loc[d].entry]
      BY <1>3, <1>7
    <2> QED BY <1>1, <1>9, <2>1, <2>2, <2>3, ConsumersRely
  <1>17. ProducerOK'
    BY <1>1, <1>6 DEF ProducerOK, AtTail, Inserting, Producing
  <1> QED BY <1>9, <1>14, <1>15, <1>16, <1>17 DEF IndexInv


\* The block is in the index, and counts from now on.
LEMMA InsertKeeps ==
  ASSUME BlockInv, CountInv', UNCHANGED <<pc, loc>>, InsertBlock
  PROVE  IndexInv'
  <1>0. Types /\ HeadersOK /\ KeysOK /\ LiveOK /\ ConsumersOK /\ Places /\ ProducerOK /\ CountInv
    BY DEF BlockInv, IndexInv
  <1>1. /\ UNCHANGED <<tailIndex, headIndex, dequeueOptimisticCount, blockIndex, blocks, pool>>
        /\ ppc = "insert" /\ ppc' = "construct" /\ tailIndex % BLOCK_SIZE = 0 /\ blockIndex # <<>>
        /\ ppc \in Inserting /\ ppc \in AtTail /\ tailIndex < MaxTail
    BY <1>0 DEF InsertBlock, PGo, counters, ProducerOK, Producing, Inserting, AtTail
  <1>2. PICK e \in Allocated : e = ploc.idxEntry
    BY <1>1, NotInUse
  <1>3. /\ ValueOf(e) \notin Blocks /\ KeyOf(e) = tailIndex
        /\ \A d \in Consumers : pc[d] \in UsesEntry => loc[d].entry # e /\ loc[d].entry \in Allocated
    BY <1>0, <1>1, <1>2, NotInUse DEF ProducerOK
  <1>4. /\ ~ HasBlock /\ HasBlock' /\ Newest = Due /\ tailIndex = Key(Due) /\ Due \in Nat
        /\ Due' = Due + 1 /\ Newest' = Newest
    <2>1. ~ HasBlock /\ HasBlock'
      BY <1>1 DEF HasBlock, AtTail
    <2>2. Due = Number(tailIndex) /\ Due' = Number(tailIndex) + 1
      BY <1>1, <2>1 DEF Due, Number
    <2>3. tailIndex = Key(Due) /\ Due \in Nat
      BY <1>0, <2>1, DueFacts
    <2> QED BY <1>1, <2>1, <2>2, <2>3 DEF Newest, AtTail
  <1>5. Key(Due) \in Nat /\ Key(Due) # INVALID_BLOCK_BASE /\ headIndex \in Nat /\ headIndex <= Key(Due)
    BY <1>0, <1>4, KeyFacts, HeadIsBehind
  <1>6. PICK b \in Blocks : b = ploc.newBlock
    BY <1>0, <1>1 DEF ProducerOK, Types
  <1>7. blocks[b].dequeued = 0 /\ ~ InIndex(b) /\ ~ BeingFreed(b) /\ b \notin pool /\ b # nullptr /\ b # garbage
    BY <1>0, <1>1, <1>6, Bounds DEF ProducerOK, Places
  <1>8. ploc' = [idxEntry |-> 0, newBlock |-> nullptr] /\ tailBlock' = b
    BY <1>6 DEF InsertBlock
  <1>9. /\ entries' \in Seq(AnyEntry) /\ Len(entries') = Len(entries) /\ Allocated' = Allocated
        /\ \A f \in Allocated : f # e => entries'[f] = entries[f]
        /\ KeyOf(e)' = KeyOf(e) /\ ValueOf(e)' = b
    <2> DEFINE x == [entries[e] EXCEPT !.value = b]
    <2>1. x \in AnyEntry /\ x.key = KeyOf(e) /\ x.value = b
      BY <1>0, TypeFacts DEF AnyEntry, KeyOf
    <2>2. entries' = [entries EXCEPT ![e] = x]
      BY <1>2, <1>6 DEF InsertBlock
    <2> HIDE DEF x
    <2>3. /\ entries' \in Seq(AnyEntry) /\ Len(entries') = Len(entries) /\ Allocated' = Allocated
          /\ \A f \in Allocated : entries'[f] = IF f = e THEN x ELSE entries[f]
      BY <1>0, <2>1, <2>2, Written
    <2> QED BY <2>1, <2>3 DEF KeyOf, ValueOf
  <1>10. \A f \in Allocated : KeyOf(f)' = KeyOf(f) /\ ValueOf(f)' = IF f = e THEN b ELSE ValueOf(f)
    BY <1>9 DEF KeyOf, ValueOf
  <1>11. Types'
    <2>1. "construct" \in PSteps /\ ploc' \in [idxEntry : Nat, newBlock : Blocks \cup {nullptr}]
      BY <1>8 DEF PSteps
    <2> QED BY <1>0, <1>1, <1>8, <1>9, <2>1 DEF Types
  <1>12. /\ Current' = Current /\ Headers' = Headers /\ \A h : Slots(h)' = Slots(h)
         /\ \A j : EntryBack(j)' = EntryBack(j)
    BY <1>1 DEF Current, Headers, Slots, EntryBack, EntryFrom
  <1>13. HeadersOK'
    BY <1>0, <1>1, <1>9, <1>12 DEF HeadersOK
  <1>14. KeysOK'
    <2>1. ASSUME NEW j \in Slots(Current) PROVE KeyOf(EntryBack(j))' = KeyOf(EntryBack(j))
      <3>1. EntryBack(j) \in Allocated
        BY <1>0, <1>1, <2>1, CurrentEntries
      <3> QED BY <1>10, <1>12, <3>1 DEF KeyOf
    <2>2. ASSUME NEW j \in Slots(Current) PROVE KeyAt(j)'
      <3>1. KeyAt(j) /\ ~ Stale(j)
        BY <1>0, <1>1, <1>4, <2>2 DEF KeysOK, Stale
      <3> QED BY <1>4, <2>1, <3>1 DEF KeyAt
    <2>3. Newest >= 0 => KeyOf(EntryBack(0))' = Key(Newest)
      <3>1. 0 \in Slots(Current)
        BY <1>0, <1>1, CurrentEntries, SlotFacts
      <3> QED BY <1>0, <1>1, <2>1, <3>1 DEF KeysOK
    <2>4. ASSUME NEW f \in Allocated
          PROVE  /\ KeyOf(f)' = INVALID_BLOCK_BASE => ValueOf(f)' = garbage
                 /\ ValueOf(f)' = garbage =>
                      KeyOf(f)' = INVALID_BLOCK_BASE \/ (f = ploc'.idxEntry /\ ppc' \in Inserting)
      BY <1>0, <1>2, <1>3, <1>4, <1>5, <1>7, <1>10 DEF KeysOK
    <2> QED BY <1>1, <1>4, <1>9, <1>12, <2>2, <2>3, <2>4 DEF KeysOK
  <1>15. SameClaims
    <2>1. ASSUME NEW d \in Consumers, Holds(d) PROVE HeldKey(d)' = HeldKey(d)
      <3>1. CASE pc[d] = "set_empty"
        <4>1. KeyOf(loc[d].entry)' = KeyOf(loc[d].entry)
          BY <1>3, <1>10, <3>1 DEF UsesEntry, KeyOf
        <4> QED BY <3>1, <4>1 DEF HeldKey
      <3>2. CASE pc[d] # "set_empty"
        BY <3>2 DEF HeldKey
      <3> QED BY <3>1, <3>2
    <2> QED BY <2>1 DEF SameClaims, Holds
  <1>22. PICK r \in Nat : r = Due /\ r \in 0 .. Due' - 1
    BY <1>4
  <1>16. HoldersOf(Key(r)) = {} /\ ClaimedOf(Key(r)) = 0
    <2>1. ASSUME NEW d \in Consumers, Holds(d) PROVE HeldKey(d) # Key(r)
      <3>1. CASE pc[d] = "set_empty"
        <4>1. PICK q \in 0 .. Due - 1 : q \in Nat /\ KeyOf(loc[d].entry) = Key(q)
          BY <3>1, AtEntry DEF UsesEntry
        <4> QED BY <1>4, <1>22, <3>1, <4>1, KeyOrder DEF HeldKey
      <3>2. CASE pc[d] # "set_empty"
        <4>1. pc[d] \in Indexed
          BY <2>1, <3>2 DEF Holds
        <4>2. PICK q \in 0 .. Due - 1 : q \in Nat /\ Base(loc[d].index) = Key(q)
          BY <4>1, ClaimFacts
        <4> QED BY <1>4, <1>22, <3>2, <4>2, KeyOrder DEF HeldKey
      <3> QED BY <3>1, <3>2
    <2>2. HoldersOf(Key(r)) = {}
      BY <2>1 DEF HoldersOf
    <2> QED BY <1>5, <1>22, <2>2 DEF ClaimedOf
  <1>17. \A k : HoldersOf(k)' = HoldersOf(k) /\ ClaimedOf(k)' = ClaimedOf(k)
    BY <1>1, <1>15, SameHolders DEF ClaimedOf
  <1>18. LiveOK'
    <2>1. ASSUME NEW f \in Allocated, ValueOf(f)' \in Blocks PROVE BlockOK(f)'
      <3>1. CASE f = e
        <4>1. KeyOf(f)' = Key(r)
          BY <1>3, <1>4, <1>10, <1>22, <3>1
        <4>2. blocks'[ValueOf(f)'].dequeued = 0
          BY <1>1, <1>7, <1>10, <3>1
        <4>3. Cardinality(HoldersOf(Key(r))') = 0 /\ ClaimedOf(Key(r))' = 0
          BY <1>16, <1>17, FS_EmptySet
        <4> QED BY <1>22, <4>1, <4>2, <4>3 DEF BlockOK
      <3>2. CASE f # e
        <4>1. ValueOf(f)' = ValueOf(f) /\ ValueOf(f) \in Blocks /\ KeyOf(f)' = KeyOf(f)
          BY <1>10, <2>1, <3>2
        <4>2. PICK q \in 0 .. Due - 1 :
                /\ KeyOf(f) = Key(q)
                /\ blocks[ValueOf(f)].dequeued + Cardinality(HoldersOf(Key(q))) = ClaimedOf(Key(q))
          BY <1>0, <4>1 DEF LiveOK, BlockOK
        <4>3. q \in 0 .. Due' - 1
          BY <1>4
        <4> QED BY <1>1, <1>17, <4>1, <4>2, <4>3 DEF BlockOK
      <3> QED BY <3>1, <3>2
    <2>2. ASSUME NEW q \in Nat, Live(q)'
          PROVE  \E f \in Allocated : KeyOf(f)' = Key(q) /\ ValueOf(f)' \in Blocks
      <3>1. CASE q = Due
        BY <1>3, <1>4, <1>10, <3>1
      <3>2. CASE q # Due
        <4>1. q \in 0 .. Due - 1
          BY <1>4, <2>2, <3>2 DEF Live
        <4>2. Live(q)
          BY <1>1, <1>17, <2>2, <4>1 DEF Live
        <4>3. PICK f \in Allocated : KeyOf(f) = Key(q) /\ ValueOf(f) \in Blocks
          BY <1>0, <4>2 DEF LiveOK
        <4> QED BY <1>3, <1>10, <4>3
      <3> QED BY <3>1, <3>2
    <2> QED BY <1>9, <2>1, <2>2 DEF LiveOK
  <1>19. Places'
    <2>1. ASSUME NEW k \in Blocks PROVE InIndex(k)' <=> InIndex(k) \/ k = b
      BY <1>3, <1>9, <1>10 DEF InIndex
    <2>2. ASSUME NEW k \in Blocks PROVE BeingFreed(k)' <=> BeingFreed(k)
      BY DEF BeingFreed
    <2>3. ASSUME NEW k \in Blocks
          PROVE  /\ k \in pool' \/ k = ploc'.newBlock \/ InIndex(k)' \/ BeingFreed(k)'
                 /\ k \in pool' => k # ploc'.newBlock /\ ~ InIndex(k)' /\ ~ BeingFreed(k)'
                 /\ k = ploc'.newBlock => ~ InIndex(k)' /\ ~ BeingFreed(k)'
                 /\ InIndex(k)' => ~ BeingFreed(k)'
      BY <1>0, <1>1, <1>6, <1>7, <1>8, <2>1, <2>2, Bounds DEF Places
    <2>4. ASSUME NEW k \in Blocks, InIndex(k)'
          PROVE  \/ blocks'[k].dequeued < BLOCK_SIZE
                 \/ \E d \in Consumers : pc'[d] = "remove_entry" /\ loc'[d].block = k
      BY <1>0, <1>1, <1>7, <2>1, <2>4, Bounds DEF Places
    <2>5. \A f, g \in Allocated' : ValueOf(f)' \in Blocks /\ ValueOf(f)' = ValueOf(g)' => f = g
      BY <1>0, <1>7, <1>9, <1>10 DEF Places, InIndex
    <2>6. \A d, k \in Consumers :
            pc'[d] = "free_block" /\ pc'[k] = "free_block" /\ loc'[d].block = loc'[k].block => d = k
      BY <1>0 DEF Places
    <2> QED BY <2>3, <2>4, <2>5, <2>6 DEF Places
  <1>20. ConsumersOK'
    <2>1. SameKeys /\ \A h \in Headers : SameSlots(h)
      BY <1>1, <1>10 DEF SameKeys, SameSlots
    <2>2. Len(blockIndex') >= Len(blockIndex) /\ Len(entries') >= Len(entries)
      BY <1>0, <1>1, <1>9, TypeFacts
    <2>3. \A d \in Consumers : pc[d] \in UsesEntry => entries'[loc[d].entry] = entries[loc[d].entry]
      BY <1>3, <1>9
    <2> QED BY <1>1, <1>11, <2>1, <2>2, <2>3, ConsumersRely
  <1>21. ProducerOK'
    BY <1>1, <1>8 DEF ProducerOK, AtTail, Inserting, Producing
  <1> QED BY <1>11, <1>13, <1>14, <1>18, <1>19, <1>20, <1>21 DEF IndexInv

\* A larger block index: the entries of the old one, and as many new ones.
LEMMA NewIndexKeeps ==
  ASSUME BlockInv, CountInv', UNCHANGED <<pc, loc>>, NewBlockIndex
  PROVE  IndexInv'
  <1>0. Types /\ HeadersOK /\ KeysOK /\ LiveOK /\ ConsumersOK /\ Places /\ ProducerOK /\ CountInv
    BY DEF BlockInv, IndexInv
  <1>1. /\ UNCHANGED <<counters, tailBlock, blocks, pool>>
        /\ UNCHANGED <<tailIndex, headIndex, dequeueOptimisticCount>>
        /\ ppc = "new_index" /\ tailIndex % BLOCK_SIZE = 0 /\ blockIndex # <<>> /\ tailIndex < MaxTail
        /\ KeyOf(Last) # Key(Due) /\ ploc.newBlock = nullptr
    BY <1>0 DEF NewBlockIndex, counters, ProducerOK, Producing
  <1>2. CASE ppc' = "idle" /\ UNCHANGED <<blockIndex, entries, ploc>>
    <2>1. ProducerOK'
      BY <1>1, <1>2 DEF ProducerOK, AtTail, Inserting, Producing
    <2>2. "idle" \in PSteps /\ ploc' = [ploc EXCEPT !.idxEntry = ploc.idxEntry] /\ ploc.idxEntry \in Nat
      BY <1>0, <1>2 DEF PSteps, Types
    <2>3. (HasBlock' <=> HasBlock) /\ UNCHANGED memory
      BY <1>1, <1>2 DEF HasBlock, memory
    <2> QED BY <1>1, <1>2, <2>1, <2>2, <2>3, ProducerMoves DEF AtTail, Inserting
  <1>3. CASE /\ blockIndex' = Append(blockIndex, GrownHeader(Header))
             /\ entries' = entries \o NoEntries(Header.capacity)
             /\ ploc' = [ploc EXCEPT !.idxEntry = GrownHeader(Header).index[Header.capacity]]
             /\ ppc' = "store_key"
    <2>1. Current \in Headers /\ Header = blockIndex[Current]
      BY <1>0, <1>1, TypeFacts DEF Header, Current
    <2>2. PICK n \in Nat \ {0, 1} : n = blockIndex[Current].capacity
      BY <1>0, <2>1, HeaderFacts
    <2>3. PICK s \in 0 .. n - 1 : s = blockIndex[Current].tail
      BY <1>0, <1>1, <2>2, CurrentEntries DEF Slots
    <2>4. PICK m \in Nat : m = Len(entries)
      BY <1>0, TypeFacts
    <2>5. Slots(Current) = 0 .. n - 1 /\ Allocated = 1 .. m
      BY <2>2, <2>4 DEF Slots, Allocated
    <2> DEFINE f == [i \in 0 .. 2 * n - 1 |->
                       IF i < n THEN blockIndex[Current].index[(s + 1 + i) % n] ELSE m + i - n + 1]
               x == [capacity |-> 2 * n, tail |-> n - 1, index |-> f]
    <2>6. GrownHeader(Header) = x
      BY <2>1, <2>2, <2>3, <2>4 DEF GrownHeader
    <2>7. ASSUME NEW j \in 0 .. n - 1
          PROVE  /\ n - 1 - j \in 0 .. 2 * n - 1 /\ Back(2 * n, n - 1, j) = n - 1 - j
                 /\ f[n - 1 - j] = EntryBack(j) /\ EntryBack(j) \in Allocated
      <3>1. n - 1 - j \in 0 .. n - 1 /\ n - 1 - (n - 1 - j) = j
        OBVIOUS
      <3>2. PICK i \in 0 .. n - 1 : i = n - 1 - j /\ n - 1 - i = j
        BY <3>1
      <3>3. (s + 1 + i) % n = Back(n, s, n - 1 - i)
        BY FromTheOldest
      <3>4. i \in 0 .. 2 * n - 1 /\ i < n
        OBVIOUS
      <3>5. f[i] = blockIndex[Current].index[Back(n, s, j)]
        BY <3>2, <3>3, <3>4
      <3>6. EntryBack(j) = blockIndex[Current].index[Back(n, s, j)]
        BY <2>2, <2>3 DEF EntryBack, EntryFrom
      <3>7. EntryBack(j) \in Allocated
        BY <1>0, <1>1, <2>5, CurrentEntries
      <3> QED BY <3>2, <3>4, <3>5, <3>6, <3>7 DEF Back
    <2>8. ASSUME NEW j \in n .. 2 * n - 1
          PROVE  /\ 3 * n - 1 - j \in 0 .. 2 * n - 1 /\ Back(2 * n, n - 1, j) = 3 * n - 1 - j
                 /\ f[3 * n - 1 - j] = m + 2 * n - j /\ m + 2 * n - j \in m + 1 .. m + n
      <3>1. 3 * n - 1 - j \in 0 .. 2 * n - 1 /\ ~ (3 * n - 1 - j < n) /\ ~ (n - 1 >= j)
        OBVIOUS
      <3>2. f[3 * n - 1 - j] = m + (3 * n - 1 - j) - n + 1
        BY <3>1
      <3>3. m + (3 * n - 1 - j) - n + 1 = m + 2 * n - j /\ m + 2 * n - j \in m + 1 .. m + n
        OBVIOUS
      <3> QED BY <3>1, <3>2, <3>3 DEF Back
    <2>9. \A i \in 0 .. 2 * n - 1 : f[i] \in 1 .. m + n
      <3> SUFFICES ASSUME NEW i \in 0 .. 2 * n - 1 PROVE f[i] \in 1 .. m + n
        OBVIOUS
      <3>1. CASE i < n
        <4>1. PICK j \in 0 .. n - 1 : i = n - 1 - j
          <5>1. n - 1 - i \in 0 .. n - 1 /\ i = n - 1 - (n - 1 - i)
            BY <3>1
          <5> QED BY <5>1
        <4>2. f[i] \in 1 .. m
          BY <2>5, <2>7, <4>1
        <4> QED BY <4>2
      <3>2. CASE ~ (i < n)
        BY <3>2
      <3> QED BY <3>1, <3>2
    <2>10. f \in [0 .. 2 * n - 1 -> Nat]
      <3>1. \A i \in 0 .. 2 * n - 1 : f[i] \in Nat
        BY <2>9
      <3>2. f = [i \in 0 .. 2 * n - 1 |-> f[i]]
        OBVIOUS
      <3> HIDE DEF f
      <3> QED BY <3>1, <3>2
    <2>11. x \in AnyHeader /\ x.capacity = 2 * n /\ x.tail = n - 1 /\ x.index = f
      <3>1. 2 * n \in Nat \ {0, 1} /\ n - 1 \in 0 .. 2 * n - 1
        OBVIOUS
      <3> QED BY <2>10, <3>1, HeaderType
    <2>12. f[n] = m + 1
      OBVIOUS
    <2> HIDE DEF f, x
    <2>13. blockIndex \in Seq(AnyHeader) /\ entries \in Seq(AnyEntry) /\ Len(blockIndex) \in Nat
      BY <1>0, TypeFacts DEF Types
    <2>14. /\ blockIndex' \in Seq(AnyHeader) /\ Len(blockIndex') = Len(blockIndex) + 1
           /\ \A h \in Headers : blockIndex'[h] = blockIndex[h]
           /\ blockIndex'[Current + 1] = x
      <3>1. blockIndex' = Append(blockIndex, x)
        BY <1>3, <2>6
      <3> QED BY <2>11, <2>13, <3>1, AppendProperties DEF Headers, Current
    <2>15. /\ Current' = Current + 1 /\ Headers' = Headers \cup {Current + 1} /\ blockIndex' # <<>>
           /\ Current + 1 \notin Headers
      BY <2>13, <2>14, EmptySeq DEF Current, Headers
    <2>16. /\ entries' \in Seq(AnyEntry) /\ Len(entries') = m + n /\ Allocated' = 1 .. m + n
           /\ \A e \in Allocated : entries'[e] = entries[e]
           /\ \A e \in m + 1 .. m + n : entries'[e].key = INVALID_BLOCK_BASE /\ entries'[e].value = garbage
      <3>1. [key |-> INVALID_BLOCK_BASE, value |-> garbage] \in AnyEntry
        BY DEF AnyEntry
      <3>2. NoEntries(n) \in Seq(AnyEntry) /\ Len(NoEntries(n)) = n
        BY <3>1 DEF NoEntries
      <3>3. entries' = entries \o NoEntries(n)
        BY <1>3, <2>1, <2>2
      <3>4. PICK a \in Seq(AnyEntry), z \in Seq(AnyEntry) :
              a = entries /\ z = NoEntries(n) /\ Len(a) = m /\ Len(z) = n /\ entries' = a \o z
        BY <2>4, <2>13, <3>2, <3>3
      <3>5. /\ entries' \in Seq(AnyEntry) /\ Len(entries') = m + n
            /\ \A e \in 1 .. m + n : entries'[e] = IF e <= m THEN entries[e] ELSE NoEntries(n)[e - m]
        BY <3>4, ConcatProperties
      <3>6. \A e \in 1 .. m : entries'[e] = entries[e]
        BY <3>5
      <3>7. ASSUME NEW e \in m + 1 .. m + n
            PROVE  entries'[e].key = INVALID_BLOCK_BASE /\ entries'[e].value = garbage
        <4>1. e - m \in 1 .. n /\ e \in 1 .. m + n /\ ~ (e <= m)
          OBVIOUS
        <4> QED BY <3>5, <4>1 DEF NoEntries
      <3> QED BY <2>5, <3>5, <3>6, <3>7 DEF Allocated
    <2>17. \A e \in Allocated : KeyOf(e)' = KeyOf(e) /\ ValueOf(e)' = ValueOf(e)
      BY <2>16 DEF KeyOf, ValueOf
    <2>18. \A e \in m + 1 .. m + n : KeyOf(e)' = INVALID_BLOCK_BASE /\ ValueOf(e)' = garbage
      BY <2>16 DEF KeyOf, ValueOf
    <2>19. Slots(Current)' = 0 .. 2 * n - 1 /\ blockIndex'[Current'] = x
      BY <2>11, <2>14, <2>15 DEF Slots
    <2>20. \A j : EntryBack(j)' = f[Back(2 * n, n - 1, j)]
      BY <2>11, <2>19 DEF EntryBack, EntryFrom
    <2>21. \A j \in 0 .. n - 1 : EntryBack(j)' = EntryBack(j) /\ EntryBack(j) \in 1 .. m
      BY <2>5, <2>7, <2>20
    <2>22. \A j \in n .. 2 * n - 1 : EntryBack(j)' = m + 2 * n - j /\ m + 2 * n - j \in m + 1 .. m + n
      BY <2>8, <2>20
    <2>23. ploc'.newBlock = nullptr /\ ploc'.idxEntry = m + 1 /\ ploc' \in [idxEntry : Nat, newBlock : Blocks \cup {nullptr}]
      <3>1. GrownHeader(Header).index[Header.capacity] = m + 1
        BY <2>1, <2>2, <2>6, <2>11, <2>12
      <3>2. ploc' = [ploc EXCEPT !.idxEntry = m + 1]
        BY <1>3, <3>1
      <3>3. m + 1 \in Nat /\ ploc \in [idxEntry : Nat, newBlock : Blocks \cup {nullptr}]
        BY <1>0 DEF Types
      <3> QED BY <1>1, <3>2, <3>3
    <2>24. Last' = m + 1
      <3>1. Last' = EntryBack(2 * n - 1)'
        BY <2>11, <2>19 DEF Last, EntryBack
      <3>2. 2 * n - 1 \in n .. 2 * n - 1 /\ m + 2 * n - (2 * n - 1) = m + 1
        OBVIOUS
      <3> QED BY <2>22, <3>1, <3>2
    <2>25. ~ HasBlock /\ ~ HasBlock' /\ Due' = Due /\ Newest' = Newest /\ Newest = Due - 1
      BY <1>1, <1>3 DEF HasBlock, Due, Newest, AtTail
    <2>26. Types'
      <3>1. "store_key" \in PSteps
        BY DEF PSteps
      <3> QED BY <1>0, <1>1, <1>3, <2>14, <2>16, <2>23, <3>1 DEF Types
    <2>27. Allocated \subseteq Allocated'
      BY <2>5, <2>16
    <2>28. HeadersOK'
      <3>1. ASSUME NEW h \in Headers', NEW i \in Slots(h)' PROVE blockIndex'[h].index[i] \in Allocated'
        <4>1. CASE h \in Headers
          BY <1>0, <2>14, <2>27, <3>1, <4>1 DEF HeadersOK, Slots
        <4>2. CASE h = Current + 1
          BY <2>9, <2>11, <2>14, <2>16, <3>1, <4>2 DEF Slots
        <4> QED BY <2>15, <4>1, <4>2
      <3>2. ASSUME NEW i \in 0 .. 2 * n - 1, NEW j \in 0 .. 2 * n - 1, EntryBack(i)' = EntryBack(j)'
            PROVE  i = j
        <4>1. (i \in 0 .. n - 1 \/ i \in n .. 2 * n - 1) /\ (j \in 0 .. n - 1 \/ j \in n .. 2 * n - 1)
          OBVIOUS
        <4>2. CASE i \in 0 .. n - 1 /\ j \in 0 .. n - 1
          <5>1. EntryBack(i) = EntryBack(j)
            BY <2>21, <3>2, <4>2
          <5> QED BY <1>0, <1>1, <2>5, <4>2, <5>1 DEF HeadersOK
        <4>3. CASE i \in n .. 2 * n - 1 /\ j \in n .. 2 * n - 1
          <5>1. m + 2 * n - i = m + 2 * n - j
            BY <2>22, <3>2, <4>3
          <5> QED BY <5>1
        <4>4. CASE i \in 0 .. n - 1 /\ j \in n .. 2 * n - 1
          <5>1. EntryBack(i)' \in 1 .. m /\ EntryBack(j)' \in m + 1 .. m + n
            BY <2>21, <2>22, <4>4
          <5> QED BY <3>2, <5>1
        <4>5. CASE i \in n .. 2 * n - 1 /\ j \in 0 .. n - 1
          <5>1. EntryBack(j)' \in 1 .. m /\ EntryBack(i)' \in m + 1 .. m + n
            BY <2>21, <2>22, <4>5
          <5> QED BY <3>2, <5>1
        <4> QED BY <4>1, <4>2, <4>3, <4>4, <4>5
      <3>3. ASSUME NEW e \in 1 .. m + n PROVE \E j \in 0 .. 2 * n - 1 : e = EntryBack(j)'
        <4>1. CASE e \in 1 .. m
          <5>1. PICK j \in 0 .. n - 1 : e = EntryBack(j)
            BY <1>0, <1>1, <2>5, <4>1 DEF HeadersOK
          <5>2. j \in 0 .. 2 * n - 1
            OBVIOUS
          <5> QED BY <2>21, <5>1, <5>2
        <4>2. CASE e \in m + 1 .. m + n
          <5>1. m + 2 * n - e \in n .. 2 * n - 1 /\ m + 2 * n - (m + 2 * n - e) = e
                /\ m + 2 * n - e \in 0 .. 2 * n - 1
            BY <4>2
          <5>2. PICK j \in n .. 2 * n - 1 : j = m + 2 * n - e /\ m + 2 * n - j = e /\ j \in 0 .. 2 * n - 1
            BY <5>1
          <5> QED BY <2>22, <5>2
        <4> QED BY <4>1, <4>2
      <3> QED BY <2>16, <2>19, <3>1, <3>2, <3>3 DEF HeadersOK
    <2>29. KeysOK'
      <3>1. ASSUME NEW j \in 0 .. n - 1 PROVE KeyOf(EntryBack(j))' = KeyOf(EntryBack(j))
        BY <2>5, <2>17, <2>21 DEF KeyOf
      <3>2. ASSUME NEW j \in 0 .. 2 * n - 1 PROVE KeyAt(j)'
        <4>1. CASE j \in 0 .. n - 1
          <5>1. KeyAt(j) /\ ~ Stale(j)
            BY <1>0, <1>1, <2>5, <4>1 DEF KeysOK, Stale, Last
          <5> QED BY <2>25, <3>1, <4>1, <5>1 DEF KeyAt
        <4>2. CASE j \in n .. 2 * n - 1
          <5>1. KeyOf(EntryBack(j))' = INVALID_BLOCK_BASE
            BY <2>18, <2>22, <4>2 DEF KeyOf
          <5> QED BY <5>1 DEF KeyAt
        <4> QED BY <4>1, <4>2
      <3>3. Newest >= 0 => KeyOf(EntryBack(0))' = Key(Newest)
        <4>1. 0 \in 0 .. n - 1
          OBVIOUS
        <4> QED BY <1>0, <1>1, <3>1, <4>1 DEF KeysOK
      <3>4. ASSUME NEW e \in 1 .. m + n
            PROVE  /\ KeyOf(e)' = INVALID_BLOCK_BASE => ValueOf(e)' = garbage
                   /\ ValueOf(e)' = garbage =>
                        KeyOf(e)' = INVALID_BLOCK_BASE \/ (e = ploc'.idxEntry /\ ppc' \in Inserting)
        <4>1. CASE e \in 1 .. m
          <5>1. ppc \notin Inserting
            BY <1>1 DEF Inserting, AtTail
          <5> QED BY <1>0, <2>5, <2>17, <4>1, <5>1 DEF KeysOK
        <4>2. CASE e \in m + 1 .. m + n
          BY <2>18, <4>2
        <4> QED BY <4>1, <4>2
      <3> QED BY <2>16, <2>19, <2>25, <3>2, <3>3, <3>4 DEF KeysOK
    <2>30. \A d \in Consumers : pc[d] \in UsesEntry => loc[d].entry \in Allocated
      BY AtEntry
    <2>31. SameClaims
      <3>1. ASSUME NEW d \in Consumers, Holds(d) PROVE HeldKey(d)' = HeldKey(d)
        <4>1. CASE pc[d] = "set_empty"
          <5>1. KeyOf(loc[d].entry)' = KeyOf(loc[d].entry)
            BY <2>17, <2>30, <4>1 DEF UsesEntry, KeyOf
          <5> QED BY <4>1, <5>1 DEF HeldKey
        <4>2. CASE pc[d] # "set_empty"
          BY <4>2 DEF HeldKey
        <4> QED BY <4>1, <4>2
      <3> QED BY <3>1 DEF SameClaims, Holds
    <2>32. SameBlocks
      <3>1. ASSUME NEW e \in Allocated', entries'[e].value \in Blocks PROVE e \in Allocated
        <4>1. e \in 1 .. m \/ e \in m + 1 .. m + n
          BY <2>16
        <4> QED BY <2>5, <2>16, <3>1, <4>1, Bounds
      <3> QED BY <1>1, <2>16, <2>27, <3>1 DEF SameBlocks
    <2>33. LiveOK' /\ Places'
      <3>1. ploc'.newBlock = ploc.newBlock
        BY <1>1, <2>23
      <3> QED BY <1>0, <1>1, <2>25, <2>31, <2>32, <3>1, LiveKept, PlacesKept
    <2>34. ConsumersOK'
      <3>1. SameKeys /\ \A h \in Headers : SameSlots(h)
        BY <2>14, <2>17 DEF SameKeys, SameSlots
      <3>2. Len(blockIndex') >= Len(blockIndex) /\ Len(entries') >= Len(entries)
        BY <2>4, <2>13, <2>14, <2>16
      <3>3. \A d \in Consumers : pc[d] \in UsesEntry => entries'[loc[d].entry] = entries[loc[d].entry]
        BY <2>16, <2>30
      <3>4. \A d \in Consumers : pc[d] = "load_index_tail" =>
              blockIndex'[loc[d].header].tail = blockIndex[loc[d].header].tail
        BY <1>0, <2>14 DEF ConsumersOK, ConsumerAt
      <3> QED BY <1>1, <2>26, <3>1, <3>2, <3>3, <3>4, ConsumersRely
    <2>35. ProducerOK'
      <3>1. ValueOf(ploc.idxEntry)' \notin Blocks
        <4>1. m + 1 \in m + 1 .. m + n
          OBVIOUS
        <4> QED BY <2>18, <2>23, <4>1, Bounds DEF ValueOf
      <3> QED BY <1>1, <1>3, <2>15, <2>23, <2>24, <3>1 DEF ProducerOK, AtTail, Inserting, Producing
    <2> QED BY <2>26, <2>28, <2>29, <2>33, <2>34, <2>35 DEF IndexInv
  <1> QED BY <1>2, <1>3 DEF NewBlockIndex, PGo


----------------------------------------------------------------------------
(* The invariant, and what it says of the sub-queue. *)

LEMMA InitIndexInv == Init => IndexInv
  <1> SUFFICES ASSUME Init PROVE IndexInv
    OBVIOUS
  <1> USE DEF Init
  <1>1. PICK n \in Nat \ {0, 1} : n = IMPLICIT_INITIAL_INDEX_SIZE
    BY ImplicitProducerAssumption
  <1>2. FirstHeader = [capacity |-> n, tail |-> n - 1, index |-> [i \in 0 .. n - 1 |-> i + 1]]
    BY <1>1 DEF FirstHeader
  <1>3. FirstHeader \in AnyHeader
    <2>1. n - 1 \in 0 .. n - 1 /\ [i \in 0 .. n - 1 |-> i + 1] \in [0 .. n - 1 -> Nat]
      OBVIOUS
    <2> QED BY <1>2, <2>1, HeaderType
  <1>4. /\ NoEntries(n) \in Seq(AnyEntry) /\ Len(NoEntries(n)) = n
        /\ \A e \in 1 .. n : NoEntries(n)[e].key = INVALID_BLOCK_BASE /\ NoEntries(n)[e].value = garbage
    <2>1. [key |-> INVALID_BLOCK_BASE, value |-> garbage] \in AnyEntry
      BY DEF AnyEntry
    <2> QED BY <2>1 DEF NoEntries
  <1>5. /\ <<>> \in Seq(AnyHeader) /\ <<>> \in Seq(AnyEntry) /\ Len(<<>>) = 0
        /\ <<FirstHeader>> \in Seq(AnyHeader) /\ Len(<<FirstHeader>>) = 1
    BY <1>3, EmptySeq
  <1>6. blockIndex \in Seq(AnyHeader) /\ entries \in Seq(AnyEntry)
    BY <1>1, <1>4, <1>5
  <1>7. \A e \in Allocated : KeyOf(e) = INVALID_BLOCK_BASE /\ ValueOf(e) = garbage
    BY <1>1, <1>4, <1>5 DEF Allocated, KeyOf, ValueOf
  <1>8. Types
    <2>1. 0 \in 0 .. MaxTail /\ 0 \in 0 .. MaxAttempts /\ "idle" \in PSteps /\ "idle" \in Steps
      BY Bounds DEF PSteps, Steps
    <2>2. blocks \in [Blocks -> AnyBlock]
      BY Bounds DEF AnyBlock
    <2> QED BY <1>6, <2>1, <2>2, NoLocalsType DEF Types
  <1>9. ~ HasBlock /\ Due = 0 /\ Newest = -1
    <2>1. 0 % BLOCK_SIZE = 0 /\ 0 \div BLOCK_SIZE = 0
      BY Bounds
    <2> QED BY <2>1 DEF HasBlock, Due, Newest, Number, AtTail
  <1>10. ProducerOK
    BY <1>1, <1>5 DEF ProducerOK, AtTail, Inserting, Producing
  <1>11. HeadersOK /\ KeysOK
    <2>1. CASE blockIndex = <<>> /\ entries = <<>>
      <3>1. Headers = {} /\ Allocated = {}
        BY <1>5, <2>1 DEF Headers, Allocated
      <3> QED BY <2>1, <3>1 DEF HeadersOK, KeysOK
    <2>2. CASE blockIndex = <<FirstHeader>> /\ entries = NoEntries(n)
      <3>1. Headers = {1} /\ Current = 1 /\ Allocated = 1 .. n /\ blockIndex[1] = FirstHeader
        BY <1>4, <1>5, <2>2 DEF Headers, Current, Allocated
      <3>2. Slots(1) = 0 .. n - 1 /\ \A x \in 0 .. n - 1 : blockIndex[1].index[x] = x + 1
        BY <1>2, <3>1 DEF Slots
      <3>3. \A j \in 0 .. n - 1 : EntryBack(j) = n - j
        <4> SUFFICES ASSUME NEW j \in 0 .. n - 1 PROVE EntryBack(j) = n - j
          OBVIOUS
        <4>1. EntryBack(j) = blockIndex[1].index[Back(n, n - 1, j)]
          BY <1>2, <3>1 DEF EntryBack, EntryFrom
        <4>2. Back(n, n - 1, j) = n - 1 - j /\ n - 1 - j \in 0 .. n - 1 /\ n - 1 - j + 1 = n - j
          BY DEF Back
        <4> QED BY <3>2, <4>1, <4>2
      <3>4. \A e \in 1 .. n : n - e \in 0 .. n - 1 /\ e = n - (n - e)
        OBVIOUS
      <3>5. \A e \in 1 .. n : \E j \in 0 .. n - 1 : e = EntryBack(j)
        BY <3>3, <3>4
      <3>6. \A i, j \in 0 .. n - 1 : EntryBack(i) = EntryBack(j) => i = j
        BY <3>3
      <3>7. \A x \in 0 .. n - 1 : x + 1 \in 1 .. n
        OBVIOUS
      <3>8. HeadersOK
        <4>1. \A h \in Headers : \A x \in Slots(h) : blockIndex[h].index[x] \in Allocated
          BY <3>1, <3>2, <3>7
        <4>2. \A i, j \in Slots(Current) : EntryBack(i) = EntryBack(j) => i = j
          BY <3>1, <3>2, <3>6
        <4>3. \A e \in Allocated : \E j \in Slots(Current) : e = EntryBack(j)
          BY <3>1, <3>2, <3>5
        <4> QED BY <4>1, <4>2, <4>3 DEF HeadersOK
      <3>9. \A j \in 0 .. n - 1 : EntryBack(j) \in Allocated
        BY <3>1, <3>3
      <3>10. KeysOK
        BY <1>7, <1>9, <3>1, <3>2, <3>9 DEF KeysOK, KeyAt
      <3> QED BY <3>8, <3>10
    <2> QED BY <1>1, <2>1, <2>2
  <1>12. LiveOK
    BY <1>7, <1>9, Bounds DEF LiveOK, Live
  <1>13. ConsumersOK
    BY DEF ConsumersOK, ConsumerAt, Indexed, UsesEntry
  <1>14. Places
    BY <1>7, Bounds DEF Places, InIndex, BeingFreed
  <1> QED BY <1>8, <1>10, <1>11, <1>12, <1>13, <1>14 DEF IndexInv

LEMMA NextIndexInv == BlockInv /\ CountInv' /\ [Next]_vars => IndexInv'
  <1> SUFFICES ASSUME BlockInv, CountInv', [Next]_vars PROVE IndexInv'
    OBVIOUS
  <1>1. CASE Produce
    <2>1. UNCHANGED <<pc, loc>>
      BY <1>1 DEF Produce
    <2> QED BY <1>1, <2>1, StartKeeps, NullKeeps, NewIndexKeeps, StoreKeyKeeps, StoreTailKeeps,
               RequisitionKeeps, RewindKeeps, UnsetKeeps, InsertKeeps, ConstructKeeps, PublishKeeps
            DEF Produce
  <1>2. ASSUME NEW c \in Consumers, Consume(c) PROVE IndexInv'
    <2>1. UNCHANGED <<ppc, ploc>>
      BY <1>2 DEF Consume
    <2> QED BY <1>2, <2>1, CountingSteps, ClaimKeeps, LookingSteps, MoveKeeps, SetEmptyKeeps,
               RemoveKeeps, FreeKeeps
            DEF Consume
  <1>3. CASE UNCHANGED vars
    <2>0. Types /\ ProducerOK
      BY DEF BlockInv, IndexInv
    <2>1. UNCHANGED <<counters, memory, pc, loc, ppc, ploc>> /\ UNCHANGED <<tailIndex, blockIndex, entries, blocks>>
      BY <1>3 DEF vars, memory, counters
    <2>2. HasBlock' <=> HasBlock
      BY <2>1 DEF HasBlock
    <2>3. Due' = Due /\ Newest' = Newest
      BY <2>1 DEF Due, Newest, HasBlock
    <2>4. ProducerOK'
      BY <2>0, <2>1, <2>3 DEF ProducerOK, KeyOf, ValueOf, Last, EntryBack, EntryFrom, Current
    <2>5. ploc' = [ploc EXCEPT !.idxEntry = ploc.idxEntry] /\ ploc.idxEntry \in Nat /\ ppc' \in PSteps
      BY <2>0, <2>1 DEF Types
    <2> QED BY <2>1, <2>2, <2>4, <2>5, ProducerMoves
  <1> QED BY <1>1, <1>2, <1>3 DEF Next

LEMMA BlockInvariant == Spec => []BlockInv
  <1>1. Init => BlockInv
    BY InitCountInv, InitIndexInv DEF BlockInv
  <1>2. BlockInv /\ [Next]_vars => BlockInv'
    BY NextCountInv, NextIndexInv DEF BlockInv
  <1> QED BY <1>1, <1>2, PTL DEF Spec

(* The entry that a consumer counts back to is that of the block of the    *)
(* index it claimed, however old the header it reads, however the producer *)
(* turns the circle under it, and stays that until the consumer is done.   *)
THEOREM EntriesAreFound == Spec => []EntryFound
  <1>1. BlockInv => EntryFound
    <2> SUFFICES ASSUME BlockInv, NEW c \in Consumers
                 PROVE  /\ pc[c] = "load_key" =>
                             entries[blockIndex[loc[c].header].index[loc[c].indexTail]].key # INVALID_BLOCK_BASE
                        /\ pc[c] \in {"load_value", "move"} =>
                             /\ entries[loc[c].entry].key = Base(loc[c].index)
                             /\ entries[loc[c].entry].value \in Blocks
      BY DEF EntryFound
    <2>1. Types /\ ConsumerAt(pc[c], loc[c])
      BY DEF BlockInv, IndexInv, ConsumersOK
    <2>2. ASSUME pc[c] = "load_key"
          PROVE  entries[blockIndex[loc[c].header].index[loc[c].indexTail]].key # INVALID_BLOCK_BASE
      <3>1. loc[c].header \in Headers /\ Leads(loc[c].header, loc[c].indexTail, Number(loc[c].index))
        BY <2>1, <2>2 DEF ConsumerAt
      <3>2. PICK q \in Nat : q = Number(loc[c].index)
        BY <2>2, ClaimFacts DEF Indexed
      <3>3. PICK j \in Slots(loc[c].header) : KeyOf(blockIndex[loc[c].header].index[loc[c].indexTail]) = Key(q + j)
        BY <3>1, <3>2 DEF Leads
      <3>4. q + j \in Nat
        BY <2>1, <3>1, HeaderFacts DEF Slots
      <3>5. Key(q + j) # INVALID_BLOCK_BASE
        BY <3>4, KeyFacts
      <3> QED BY <3>3, <3>5 DEF KeyOf
    <2>3. ASSUME pc[c] \in {"load_value", "move"}
          PROVE  entries[loc[c].entry].key = Base(loc[c].index) /\ entries[loc[c].entry].value \in Blocks
      BY <2>1, <2>3 DEF ConsumerAt, UsesEntry, KeyOf, ValueOf
    <2> QED BY <2>2, <2>3
  <1> QED BY <1>1, BlockInvariant, PTL

(* No block is lost, and none is in two places, however the insertion of a *)
(* block, the removal of it, and its way back to the pool are interleaved; *)
(* a block without an element is not forgotten in the index.               *)
THEOREM BlocksAreAccounted == Spec => []BlocksAccounted
  <1>1. BlockInv => BlocksAccounted
    <2> SUFFICES ASSUME BlockInv, NEW b \in Blocks
                 PROVE  /\ Cardinality(EntriesOf(b)) + Cardinality(Freeing(b))
                             + (IF b \in pool THEN 1 ELSE 0) + (IF ploc.newBlock = b THEN 1 ELSE 0) = 1
                        /\ EntriesOf(b) # {} =>
                             \/ blocks[b].dequeued < BLOCK_SIZE
                             \/ \E c \in Consumers : pc[c] = "remove_entry" /\ loc[c].block = b
      BY DEF BlocksAccounted
    <2>1. Places
      BY DEF BlockInv, IndexInv
    <2>2. Cardinality(EntriesOf(b)) = IF InIndex(b) THEN 1 ELSE 0
      <3>1. CASE InIndex(b)
        <4>1. PICK e \in Allocated : ValueOf(e) = b
          BY <3>1 DEF InIndex
        <4>2. EntriesOf(b) = {e}
          BY <2>1, <4>1 DEF EntriesOf, Places, Allocated, ValueOf
        <4> QED BY <3>1, <4>2, FS_Singleton
      <3>2. CASE ~ InIndex(b)
        <4>1. EntriesOf(b) = {}
          BY <3>2 DEF EntriesOf, InIndex, Allocated, ValueOf
        <4> QED BY <3>2, <4>1, FS_EmptySet
      <3> QED BY <3>1, <3>2
    <2>3. Cardinality(Freeing(b)) = IF BeingFreed(b) THEN 1 ELSE 0
      <3>1. CASE BeingFreed(b)
        <4>1. PICK c \in Consumers : pc[c] = "free_block" /\ loc[c].block = b
          BY <3>1 DEF BeingFreed
        <4>2. Freeing(b) = {c}
          BY <2>1, <4>1 DEF Freeing, Places
        <4> QED BY <3>1, <4>2, FS_Singleton
      <3>2. CASE ~ BeingFreed(b)
        <4>1. Freeing(b) = {}
          BY <3>2 DEF Freeing, BeingFreed
        <4> QED BY <3>2, <4>1, FS_EmptySet
      <3> QED BY <3>1, <3>2
    <2>4. EntriesOf(b) # {} => InIndex(b)
      BY DEF EntriesOf, InIndex, Allocated, ValueOf
    <2> QED BY <2>1, <2>2, <2>3, <2>4 DEF Places
  <1> QED BY <1>1, BlockInvariant, PTL

----------------------------------------------------------------------------
(* What the elements and the calls of others are to a consumer: the rest   *)
(* of the invariant, from which the sub-queue is a FIFO queue.             *)

\* Somebody will look for the element at index i, and it has been constructed.
Wanted(i) == i >= headIndex \/ \E c \in Consumers : pc[c] \in Indexed /\ loc[c].index = i

Present(i) == i < tailIndex \/ (i = tailIndex /\ ppc = "publish")

SlotsOK ==
  \A e \in Allocated, i \in Nat :
    ValueOf(e) \in Blocks /\ KeyOf(e) = Base(i) /\ Present(i) /\ Wanted(i) =>
      blocks[ValueOf(e)].slots[i % BLOCK_SIZE] = i

TailOK ==
  HasBlock => \A e \in Allocated : ValueOf(e) \in Blocks /\ KeyOf(e) = Base(tailIndex) =>
                 ValueOf(e) = tailBlock

OneTaker ==
  \A c, d \in Consumers :
    pc[c] \in Indexed /\ pc[d] \in Indexed /\ loc[c].index = loc[d].index => c = d

ContentInv == SlotsOK /\ TailOK /\ OneTaker

\* The other consumers that are looking for an element.
Others(c) == {d \in Consumers \ {c} : pc[d] \in Before}

\* The index up to which elements are spoken for when those who look have
\* taken theirs, and c's spare elements come on top.
Ahead(c) == spare[c] + headIndex + Cardinality(Others(c))

\* While there are spare elements, what c reads cannot tell it otherwise.
SpareAt(c) ==
  /\ pc[c] \in {"load_overcommit", "load_count"} => loc[c].tail <= tailIndex
  /\ spare[c] > 0 =>
       /\ pc[c] = "load_overcommit" => Ahead(c) <= loc[c].tail
       /\ pc[c] = "load_count" => Ahead(c) + dequeueOvercommit <= loc[c].tail + loc[c].overcommit
       /\ pc[c] = "count" => Ahead(c) + dequeueOvercommit <= tailIndex + loc[c].overcommit
       /\ pc[c] = "reload_tail" => loc[c].myDequeueCount + spare[c] <= tailIndex + loc[c].overcommit
       /\ pc[c] # "overcommit"

SpareInv == spare \in [Consumers -> Nat] /\ \A c \in Consumers : SpareAt(c)

----------------------------------------------------------------------------
(* Spare elements. *)

LEMMA SpareTypes ==
  ASSUME BlockInv, SpareInv, NEW c \in Consumers
  PROVE  /\ spare[c] \in Nat /\ headIndex \in Nat /\ tailIndex \in Nat /\ headIndex <= tailIndex
         /\ dequeueOvercommit \in Nat /\ dequeueOptimisticCount \in Nat
         /\ Cardinality(Others(c)) \in Nat
         /\ loc[c].tail \in Nat /\ loc[c].overcommit \in Nat /\ loc[c].myDequeueCount \in Nat
  <1>1. CountInv /\ Types
    BY DEF BlockInv, IndexInv
  <1>2. Others(c) \in SUBSET Consumers
    BY DEF Others
  <1>3. Cardinality(Others(c)) \in Nat
    BY <1>2, Sizes
  <1>4. loc[c].tail \in Nat /\ loc[c].overcommit \in Nat /\ loc[c].myDequeueCount \in Nat
    BY <1>1, TypeFacts DEF Locals
  <1> QED BY <1>1, <1>3, <1>4, HeadIsBehind DEF SpareInv, CountInv, CountersOK

\* When d moves, the others see its going and coming.
LEMMA OthersMove ==
  ASSUME Types, NEW c \in Consumers, NEW d \in Consumers, c # d, NEW w, pc' = [pc EXCEPT ![d] = w]
  PROVE  /\ pc[d] \in Before /\ w \in Before => Others(c)' = Others(c)
         /\ pc[d] \notin Before /\ w \notin Before => Others(c)' = Others(c)
         /\ pc[d] \notin Before /\ w \in Before =>
              Cardinality(Others(c)') = Cardinality(Others(c)) + 1
         /\ pc[d] \in Before /\ w \notin Before =>
              Cardinality(Others(c)') = Cardinality(Others(c)) - 1
         /\ Others(d)' = Others(d)
  <1>1. \A k \in Consumers : pc'[k] = IF k = d THEN w ELSE pc[k]
    BY DEF Types
  <1>2. Others(c) \in SUBSET Consumers
    BY DEF Others
  <1>3. CASE pc[d] \notin Before /\ w \in Before
    <2>1. Others(c)' = Others(c) \cup {d} /\ d \in Consumers \ Others(c)
      BY <1>1, <1>3 DEF Others
    <2> QED BY <1>1, <1>2, <1>3, <2>1, Sizes DEF Others
  <1>4. CASE pc[d] \in Before /\ w \notin Before
    <2>1. Others(c)' = Others(c) \ {d} /\ d \in Others(c)
      BY <1>1, <1>4 DEF Others
    <2> QED BY <1>1, <1>2, <1>4, <2>1, Sizes DEF Others
  <1>5. CASE pc[d] \in Before <=> w \in Before
    BY <1>1, <1>5 DEF Others
  <1> QED BY <1>3, <1>4, <1>5

\* What c may rely on stays true if less is spoken for.
LEMMA SpareKept ==
  ASSUME BlockInv, SpareInv, BlockInv', NEW c \in Consumers, SpareAt(c),
         pc'[c] = pc[c], loc'[c] = loc[c], tailIndex' >= tailIndex,
         spare'[c] \in Nat, spare'[c] <= spare[c],
         Cardinality(Others(c)') \in Nat,
         pc[c] \in {"load_overcommit", "load_count", "count"} =>
           /\ spare'[c] > 0 => Ahead(c)' <= Ahead(c)
           /\ spare'[c] > 0 => Ahead(c)' + dequeueOvercommit' <= Ahead(c) + dequeueOvercommit
  PROVE  SpareAt(c)'
  <1>1. /\ spare[c] \in Nat /\ headIndex \in Nat /\ tailIndex \in Nat /\ dequeueOvercommit \in Nat
        /\ Cardinality(Others(c)) \in Nat
        /\ loc[c].tail \in Nat /\ loc[c].overcommit \in Nat /\ loc[c].myDequeueCount \in Nat
    BY SpareTypes
  <1>2. tailIndex' \in Nat /\ headIndex' \in Nat /\ dequeueOvercommit' \in Nat
    BY DEF BlockInv, CountInv, CountersOK
  <1>3. Ahead(c) \in Nat /\ Ahead(c)' \in Nat
    BY <1>1, <1>2 DEF Ahead
  <1> QED BY <1>1, <1>2, <1>3 DEF SpareAt

LEMMA SameCardinality == \A S : Sub!Cardinality(S) = Cardinality(S)
  BY DEF Sub!Cardinality, Cardinality

LEMMA ProduceSpare ==
  ASSUME BlockInv, SpareInv, BlockInv', tailIndex' >= tailIndex,
         UNCHANGED <<headIndex, dequeueOvercommit, pc, loc, spare>>
  PROVE  SpareInv'
  <1> SUFFICES ASSUME NEW c \in Consumers PROVE SpareAt(c)'
    BY DEF SpareInv
  <1>1. SpareAt(c) /\ spare[c] \in Nat /\ Others(c)' = Others(c) /\ Cardinality(Others(c)) \in Nat
    BY SpareTypes DEF SpareInv, Others
  <1>2. Ahead(c)' = Ahead(c) /\ Ahead(c) \in Nat /\ dequeueOvercommit \in Nat
    BY <1>1, SpareTypes DEF Ahead
  <1> QED BY <1>1, <1>2, SpareKept

\* A consumer's call begins: less one spare element for the others.
LEMMA CallSpare ==
  ASSUME BlockInv, SpareInv, BlockInv', NEW c \in Consumers, LoadTail(c), Spare(c)
  PROVE  SpareInv'
  <1>0. Types /\ CountInv
    BY DEF BlockInv, IndexInv
  <1>1. /\ pc[c] = "idle" /\ pc' = [pc EXCEPT ![c] = "load_overcommit"]
        /\ loc' = [loc EXCEPT ![c].tail = tailIndex] /\ UNCHANGED <<counters>>
    BY DEF LoadTail, Go
  <1>2. UNCHANGED <<headIndex, tailIndex, dequeueOvercommit>>
    BY <1>1 DEF counters
  <1>3. "load_overcommit" \in Before /\ "idle" \notin Before
    BY DEF Before
  <1>4. Sub!Searching = {d \in Consumers : pc[d] \in Before}
    <2>1. \A w \in Before : w # "idle"
      BY DEF Before
    <2> QED BY <2>1 DEF Sub!Searching, AbstractState
  <1>5. PICK n \in Nat : n = tailIndex - headIndex
    BY <1>0, HeadIsBehind
  <1>6. Len(AbstractQueue) = n
    BY <1>5 DEF AbstractQueue
  <1>7. Sub!Searching \ {c} = Others(c)
    BY <1>4 DEF Others
  <1>8. \A d \in Consumers :
          spare'[d] = IF d = c THEN Sub!Less(n, Cardinality(Others(c)))
                      ELSE IF pc[d] \in Before THEN Sub!Less(spare[d], 1) ELSE spare[d]
    <2>1. spare' = Sub!SpareAfterCall(c)
      BY <1>1 DEF Spare
    <2>2. Sub!Cardinality(Sub!Searching \ {c}) = Cardinality(Others(c))
      BY <1>7, SameCardinality
    <2> QED BY <1>4, <1>6, <2>1, <2>2 DEF Sub!SpareAfterCall
  <1>9. spare' \in [Consumers -> Nat]
    <2>1. \A d \in Consumers : spare'[d] \in Nat
      BY <1>8, SpareTypes DEF Sub!Less
    <2>2. spare' = [d \in Consumers |-> spare'[d]]
      BY <1>1 DEF Spare, Sub!SpareAfterCall
    <2> QED BY <2>1, <2>2
  <1>10. \A d \in Consumers : /\ pc'[d] = IF d = c THEN "load_overcommit" ELSE pc[d]
                              /\ d # c => loc'[d] = loc[d]
    BY <1>0, <1>1 DEF Types
  <1>11. SpareAt(c)'
    <2>1. Others(c)' = Others(c) /\ Cardinality(Others(c)) \in Nat
      BY <1>10, SpareTypes DEF Others
    <2>2. loc'[c].tail = tailIndex
      BY <1>0, <1>1, TypeFacts DEF Types, Locals
    <2>3. spare'[c] \in Nat /\ spare'[c] = Sub!Less(n, Cardinality(Others(c)))
      BY <1>8, <1>9
    <2>4. headIndex \in Nat /\ tailIndex \in Nat
      BY <1>0, HeadIsBehind
    <2>5. spare'[c] > 0 => spare'[c] + headIndex + Cardinality(Others(c)) <= tailIndex
      BY <1>5, <2>1, <2>3, <2>4 DEF Sub!Less
    <2> QED BY <1>2, <1>10, <2>1, <2>2, <2>4, <2>5 DEF SpareAt, Ahead
  <1>12. ASSUME NEW d \in Consumers \ {c} PROVE SpareAt(d)'
    <2>1. SpareAt(d) /\ spare[d] \in Nat /\ spare'[d] \in Nat /\ Cardinality(Others(d)) \in Nat
      BY <1>9, SpareTypes DEF SpareInv
    <2>2. Cardinality(Others(d)') = Cardinality(Others(d)) + 1
      BY <1>0, <1>1, <1>3, OthersMove
    <2>3. spare'[d] = IF pc[d] \in Before THEN Sub!Less(spare[d], 1) ELSE spare[d]
      BY <1>8
    <2>4. spare'[d] <= spare[d] /\ (pc[d] \in Before /\ spare'[d] > 0 => spare'[d] = spare[d] - 1)
      BY <2>1, <2>3 DEF Sub!Less
    <2>5. headIndex \in Nat /\ tailIndex \in Nat /\ dequeueOvercommit \in Nat
      BY SpareTypes
    <2>6. pc[d] \in Before /\ spare'[d] > 0 => Ahead(d)' = Ahead(d) /\ Ahead(d) \in Nat
      BY <1>2, <2>1, <2>2, <2>4, <2>5 DEF Ahead
    <2>7. pc[d] \in {"load_overcommit", "load_count", "count"} => pc[d] \in Before
      BY DEF Before
    <2>8. Cardinality(Others(d)') \in Nat /\ pc'[d] = pc[d] /\ loc'[d] = loc[d] /\ tailIndex' >= tailIndex
      BY <1>2, <1>10, <2>1, <2>2, <2>5
    <2> QED BY <1>2, <2>1, <2>4, <2>5, <2>6, <2>7, <2>8, SpareKept
  <1> QED BY <1>9, <1>11, <1>12 DEF SpareInv

\* A step of c that is not the begin of a call.
LEMMA StepSpare ==
  ASSUME BlockInv, SpareInv, BlockInv', NEW c \in Consumers, NEW w,
         pc[c] # "idle", Spare(c), pc' = [pc EXCEPT ![c] = w],
         w \in Before => pc[c] \in Before,
         \A d \in Consumers \ {c} : loc'[d] = loc[d],
         tailIndex' = tailIndex,
         \/ UNCHANGED <<headIndex, dequeueOvercommit>>
         \/ /\ pc[c] \in Before /\ w \notin Before
            /\ \/ headIndex' = headIndex + 1 /\ dequeueOvercommit' = dequeueOvercommit
               \/ headIndex' = headIndex /\ dequeueOvercommit' = dequeueOvercommit + 1,
         SpareAt(c)'
  PROVE  SpareInv'
  <1>0. Types /\ CountInv
    BY DEF BlockInv, IndexInv
  <1>1. spare' = IF pc[c] = "claim" THEN [spare EXCEPT ![c] = 0] ELSE spare
    BY DEF Spare
  <1>2. spare' \in [Consumers -> Nat] /\ \A d \in Consumers \ {c} : spare'[d] = spare[d]
    BY <1>1 DEF SpareInv
  <1>3. ASSUME NEW d \in Consumers \ {c} PROVE SpareAt(d)'
    <2>1. SpareAt(d) /\ spare[d] \in Nat /\ spare'[d] = spare[d] /\ Cardinality(Others(d)) \in Nat
      BY <1>2, SpareTypes DEF SpareInv
    <2>2. headIndex \in Nat /\ tailIndex \in Nat /\ dequeueOvercommit \in Nat
      BY SpareTypes
    <2>3. \/ Others(d)' = Others(d)
          \/ Cardinality(Others(d)') = Cardinality(Others(d)) - 1
      BY <1>0, OthersMove
    <2>4. pc[c] \in Before /\ w \notin Before => Cardinality(Others(d)') = Cardinality(Others(d)) - 1
      BY <1>0, OthersMove
    <2>5. Cardinality(Others(d)') \in Nat
      <3>1. Others(d)' \in SUBSET Consumers
        BY DEF Others
      <3> QED BY <3>1, Sizes
    <2>6. Ahead(d)' <= Ahead(d) /\ Ahead(d)' + dequeueOvercommit' <= Ahead(d) + dequeueOvercommit
      BY <2>1, <2>2, <2>3, <2>4, <2>5 DEF Ahead
    <2>7. pc'[d] = pc[d] /\ loc'[d] = loc[d]
      BY <1>0 DEF Types
    <2> QED BY <2>1, <2>2, <2>5, <2>6, <2>7, SpareKept
  <1> QED BY <1>2, <1>3 DEF SpareInv

\* Who has counted itself and is not done is one of the others.
LEMMA CountedAmong ==
  ASSUME BlockInv, NEW c \in Consumers, pc[c] \in {"load_count", "count"}
  PROVE  dequeueOptimisticCount <= headIndex + dequeueOvercommit + Cardinality(Others(c))
  <1>0. CountInv
    BY DEF BlockInv
  <1>1. /\ Claiming \in SUBSET Consumers /\ Undecided \in SUBSET Consumers /\ TooLate \in SUBSET Consumers
        /\ Claiming \cup Undecided \cup TooLate \in SUBSET Others(c) /\ Others(c) \in SUBSET Consumers
        /\ Claiming \cup Undecided \in SUBSET Consumers
        /\ Claiming \cap Undecided = {} /\ (Claiming \cup Undecided) \cap TooLate = {}
    BY DEF Claiming, Undecided, TooLate, Others, Before
  <1>2. IsFiniteSet(Claiming) /\ IsFiniteSet(Undecided) /\ IsFiniteSet(TooLate) /\ IsFiniteSet(Claiming \cup Undecided)
    BY <1>1, Sizes
  <1>3. /\ Cardinality(Claiming) \in Nat /\ Cardinality(Undecided) \in Nat /\ Cardinality(TooLate) \in Nat
        /\ Cardinality(Claiming \cup Undecided) \in Nat /\ Cardinality(Others(c)) \in Nat
    BY <1>1, Sizes
  <1>4. Cardinality(Claiming \cup Undecided) = Cardinality(Claiming) + Cardinality(Undecided)
    <2>1. Cardinality(Claiming \cap Undecided) = 0
      BY <1>1, FS_EmptySet
    <2>2. Cardinality(Claiming \cup Undecided)
            = Cardinality(Claiming) + Cardinality(Undecided) - Cardinality(Claiming \cap Undecided)
      BY <1>2, FS_Union
    <2> QED BY <1>3, <2>1, <2>2
  <1>5. Cardinality(Claiming \cup Undecided \cup TooLate) = Cardinality(Claiming \cup Undecided) + Cardinality(TooLate)
    <2>1. Cardinality((Claiming \cup Undecided) \cap TooLate) = 0
      BY <1>1, FS_EmptySet
    <2>2. Cardinality((Claiming \cup Undecided) \cup TooLate)
            = Cardinality(Claiming \cup Undecided) + Cardinality(TooLate)
                - Cardinality((Claiming \cup Undecided) \cap TooLate)
      BY <1>2, FS_Union
    <2> QED BY <1>3, <2>1, <2>2
  <1>6. Cardinality(Claiming \cup Undecided \cup TooLate) <= Cardinality(Others(c))
    BY <1>1, Sizes
  <1> QED BY <1>0, <1>3, <1>4, <1>5, <1>6 DEF CountInv, CountersOK, AllCounted, Promised

\* Those who find nothing for them have no spare element.
LEMMA NothingSpare ==
  ASSUME BlockInv, SpareInv, NEW c \in Consumers
  PROVE  /\ LoadCount(c) /\ ~ (dequeueOptimisticCount - loc[c].overcommit < loc[c].tail) => spare[c] = 0
         /\ ReloadTail(c) /\ ~ (loc[c].myDequeueCount - loc[c].overcommit < tailIndex) => spare[c] = 0
         /\ pc[c] = "overcommit" => spare[c] = 0
  <1>1. SpareAt(c)
    BY DEF SpareInv
  <1>2. /\ spare[c] \in Nat /\ headIndex \in Nat /\ tailIndex \in Nat
        /\ dequeueOvercommit \in Nat /\ dequeueOptimisticCount \in Nat /\ Cardinality(Others(c)) \in Nat
        /\ loc[c].tail \in Nat /\ loc[c].overcommit \in Nat /\ loc[c].myDequeueCount \in Nat
    BY SpareTypes
  <1>3. CASE LoadCount(c) /\ ~ (dequeueOptimisticCount - loc[c].overcommit < loc[c].tail)
    <2>1. pc[c] = "load_count"
      BY <1>3 DEF LoadCount
    <2>2. dequeueOptimisticCount <= headIndex + dequeueOvercommit + Cardinality(Others(c))
      BY <2>1, CountedAmong
    <2> QED BY <1>1, <1>2, <1>3, <2>1, <2>2 DEF SpareAt, Ahead
  <1>4. CASE ReloadTail(c) /\ ~ (loc[c].myDequeueCount - loc[c].overcommit < tailIndex)
    <2>1. pc[c] = "reload_tail"
      BY <1>4 DEF ReloadTail
    <2> QED BY <1>1, <1>2, <1>4, <2>1 DEF SpareAt
  <1>5. CASE pc[c] = "overcommit"
    BY <1>1, <1>2, <1>5 DEF SpareAt
  <1> QED BY <1>3, <1>4, <1>5 DEF LoadCount, ReloadTail

LEMMA LookingSpare ==
  ASSUME BlockInv, SpareInv, BlockInv', NEW c \in Consumers, Spare(c),
         LoadOvercommit(c) \/ LoadCount(c) \/ Count(c) \/ ReloadTail(c)
  PROVE  SpareInv'
  <1>0. Types /\ CountInv /\ SpareAt(c)
    BY DEF BlockInv, IndexInv, SpareInv
  <1>1. /\ spare[c] \in Nat /\ headIndex \in Nat /\ tailIndex \in Nat
        /\ dequeueOvercommit \in Nat /\ dequeueOptimisticCount \in Nat /\ Cardinality(Others(c)) \in Nat
        /\ loc[c].tail \in Nat /\ loc[c].overcommit \in Nat /\ loc[c].myDequeueCount \in Nat
        /\ Ahead(c) \in Nat
    BY SpareTypes DEF Ahead
  <1>2. loc[c] \in Locals
    BY <1>0, TypeFacts
  <1>3. pc[c] \in {"load_overcommit", "load_count", "count", "reload_tail"}
    BY DEF LoadOvercommit, LoadCount, Count, ReloadTail
  <1>4. spare' = spare /\ pc[c] # "idle" /\ pc[c] \in Before
    BY <1>3 DEF Spare, Before
  <1>5. UNCHANGED <<tailIndex, headIndex, dequeueOvercommit>>
    BY DEF LoadOvercommit, LoadCount, Count, ReloadTail, counters
  <1>6. ASSUME NEW w, pc' = [pc EXCEPT ![c] = w], NEW l, loc' = [loc EXCEPT ![c] = l], SpareAt(c)'
        PROVE  SpareInv'
    <2>1. \A d \in Consumers \ {c} : loc'[d] = loc[d]
      BY <1>0, <1>6 DEF Types
    <2> QED BY <1>4, <1>5, <1>6, <2>1, StepSpare
  <1>7. ASSUME NEW w, pc' = [pc EXCEPT ![c] = w], NEW l, loc' = [loc EXCEPT ![c] = l]
        PROVE  pc'[c] = w /\ loc'[c] = l /\ Others(c)' = Others(c) /\ Ahead(c)' = Ahead(c)
    <2>1. \A d \in Consumers : pc'[d] = IF d = c THEN w ELSE pc[d]
      BY <1>0, <1>7 DEF Types
    <2>2. Others(c)' = Others(c)
      BY <2>1 DEF Others
    <2> QED BY <1>0, <1>4, <1>5, <1>7, <2>1, <2>2 DEF Types, Ahead
  <1>8. CASE LoadOvercommit(c)
    <2> DEFINE l == [loc[c] EXCEPT !.overcommit = dequeueOvercommit]
    <2>1. pc[c] = "load_overcommit" /\ pc' = [pc EXCEPT ![c] = "load_count"] /\ loc' = [loc EXCEPT ![c] = l]
      BY <1>8 DEF LoadOvercommit, Go
    <2>2. l.tail = loc[c].tail /\ l.overcommit = dequeueOvercommit
      BY <1>2 DEF Locals
    <2> HIDE DEF l
    <2>3. pc'[c] = "load_count" /\ loc'[c] = l /\ Ahead(c)' = Ahead(c)
      BY <1>7, <2>1
    <2>4. SpareAt(c)'
      BY <1>0, <1>1, <1>4, <1>5, <2>1, <2>2, <2>3 DEF SpareAt
    <2> QED BY <1>6, <2>1, <2>4
  <1>9. CASE LoadCount(c)
    <2>1. CASE dequeueOptimisticCount - loc[c].overcommit < loc[c].tail
      <3> DEFINE l == [loc[c] EXCEPT !.tail = 0]
      <3>1. pc[c] = "load_count" /\ pc' = [pc EXCEPT ![c] = "count"] /\ loc' = [loc EXCEPT ![c] = l]
        BY <1>9, <2>1 DEF LoadCount, Go
      <3>2. l.overcommit = loc[c].overcommit
        BY <1>2 DEF Locals
      <3> HIDE DEF l
      <3>3. pc'[c] = "count" /\ loc'[c] = l /\ Ahead(c)' = Ahead(c)
        BY <1>7, <3>1
      <3>4. SpareAt(c)'
        BY <1>0, <1>1, <1>4, <1>5, <3>1, <3>2, <3>3 DEF SpareAt
      <3> QED BY <1>6, <3>1, <3>4
    <2>2. CASE ~ (dequeueOptimisticCount - loc[c].overcommit < loc[c].tail)
      <3>1. pc' = [pc EXCEPT ![c] = "idle"] /\ loc' = [loc EXCEPT ![c] = NoLocals]
        BY <1>9, <2>2 DEF LoadCount, Go, Return
      <3>2. pc'[c] = "idle"
        BY <1>7, <3>1
      <3>3. SpareAt(c)'
        BY <3>2 DEF SpareAt
      <3> QED BY <1>6, <3>1, <3>3
    <2> QED BY <2>1, <2>2
  <1>10. CASE Count(c)
    <2> DEFINE l == [loc[c] EXCEPT !.myDequeueCount = dequeueOptimisticCount]
    <2>1. pc[c] = "count" /\ pc' = [pc EXCEPT ![c] = "reload_tail"] /\ loc' = [loc EXCEPT ![c] = l]
      BY <1>10 DEF Count, Go
    <2>2. l.overcommit = loc[c].overcommit /\ l.myDequeueCount = dequeueOptimisticCount
      BY <1>2 DEF Locals
    <2> HIDE DEF l
    <2>3. pc'[c] = "reload_tail" /\ loc'[c] = l
      BY <1>7, <2>1
    <2>4. dequeueOptimisticCount <= headIndex + dequeueOvercommit + Cardinality(Others(c))
      BY <2>1, CountedAmong
    <2>5. SpareAt(c)'
      BY <1>0, <1>1, <1>4, <1>5, <2>1, <2>2, <2>3, <2>4 DEF SpareAt, Ahead
    <2> QED BY <1>6, <2>1, <2>5
  <1>11. CASE ReloadTail(c)
    <2>1. PICK w : pc' = [pc EXCEPT ![c] = w] /\ loc' = [loc EXCEPT ![c] = NoLocals]
                   /\ (w = "claim" \/ (w = "overcommit" /\ ~ (loc[c].myDequeueCount - loc[c].overcommit < tailIndex)))
      BY <1>11 DEF ReloadTail, Go
    <2>2. pc'[c] = w
      BY <1>7, <2>1
    <2>3. w = "overcommit" => spare'[c] = 0
      BY <1>4, <1>11, <2>1, NothingSpare
    <2>4. SpareAt(c)'
      BY <2>1, <2>2, <2>3 DEF SpareAt
    <2> QED BY <1>6, <2>1, <2>4
  <1> QED BY <1>8, <1>9, <1>10, <1>11

\* The other steps leave what c relies on behind.
LEMMA LeavingSpare ==
  ASSUME BlockInv, SpareInv, BlockInv', NEW c \in Consumers, Spare(c), Consume(c),
         ~ LoadTail(c), ~ (LoadOvercommit(c) \/ LoadCount(c) \/ Count(c) \/ ReloadTail(c))
  PROVE  SpareInv'
  <1>0. Types
    BY DEF BlockInv, IndexInv
  <1>1. \/ Overcommit(c) \/ Claim(c) \/ LoadHeader(c) \/ LoadIndexTail(c) \/ LoadKey(c)
        \/ LoadValue(c) \/ Move(c) \/ SetEmpty(c) \/ RemoveEntry(c) \/ FreeBlock(c)
    BY DEF Consume
  <1>2. pc[c] # "idle"
    BY <1>1 DEF Overcommit, Claim, LoadHeader, LoadIndexTail, LoadKey, LoadValue, Move, SetEmpty,
                RemoveEntry, FreeBlock
  <1>3. PICK w \in {"idle"} \cup Indexed \cup {"set_empty", "remove_entry", "free_block"} :
          pc' = [pc EXCEPT ![c] = w]
    BY <1>1 DEF Overcommit, Claim, LoadHeader, LoadIndexTail, LoadKey, LoadValue, Move, SetEmpty,
                RemoveEntry, FreeBlock, Go, Return, Indexed
  <1>4. w \notin Before /\ w \notin {"load_overcommit", "load_count", "count", "reload_tail", "overcommit"}
    BY <1>3 DEF Before, Indexed
  <1>5. SpareAt(c)'
    <2>1. pc'[c] = w
      BY <1>0, <1>3 DEF Types
    <2> QED BY <1>4, <2>1 DEF SpareAt
  <1>6. loc' = loc \/ \E l : loc' = [loc EXCEPT ![c] = l]
    BY <1>1 DEF Overcommit, Claim, LoadHeader, LoadIndexTail, LoadKey, LoadValue, Move, SetEmpty,
                RemoveEntry, FreeBlock, Return
  <1>7. \A d \in Consumers \ {c} : loc'[d] = loc[d]
    BY <1>0, <1>6 DEF Types
  <1>8. /\ tailIndex' = tailIndex
        /\ \/ UNCHANGED <<headIndex, dequeueOvercommit>>
           \/ /\ pc[c] \in Before
              /\ \/ headIndex' = headIndex + 1 /\ dequeueOvercommit' = dequeueOvercommit
                 \/ headIndex' = headIndex /\ dequeueOvercommit' = dequeueOvercommit + 1
    BY <1>1 DEF Overcommit, Claim, LoadHeader, LoadIndexTail, LoadKey, LoadValue, Move, SetEmpty,
                RemoveEntry, FreeBlock, counters, Before
  <1> QED BY <1>2, <1>3, <1>4, <1>5, <1>7, <1>8, StepSpare

LEMMA NextSpareInv == BlockInv /\ SpareInv /\ BlockInv' /\ [Next]_vars => SpareInv'
  <1> SUFFICES ASSUME BlockInv, SpareInv, BlockInv', [Next]_vars PROVE SpareInv'
    OBVIOUS
  <1>0. tailIndex \in Nat
    BY HeadIsBehind DEF BlockInv
  <1>1. CASE Produce /\ UNCHANGED spare
    <2>1. UNCHANGED <<headIndex, dequeueOvercommit, pc, loc>> /\ tailIndex' \in {tailIndex, tailIndex + 1}
      BY <1>1 DEF Produce, StartBlock, UseNullIndex, NewBlockIndex, StoreKey, StoreIndexTail, Requisition,
                  RewindBlockIndexTail, UnsetEntry, InsertBlock, Construct, Publish, counters
    <2> QED BY <1>0, <1>1, <2>1, ProduceSpare
  <1>2. ASSUME NEW c \in Consumers, Consume(c), Spare(c) PROVE SpareInv'
    BY <1>2, CallSpare, LookingSpare, LeavingSpare
  <1>3. CASE UNCHANGED vars
    <2>1. UNCHANGED <<tailIndex, headIndex, dequeueOvercommit, pc, loc, spare>>
      BY <1>3 DEF vars, counters
    <2> QED BY <1>0, <2>1, ProduceSpare
  <1> QED BY <1>1, <1>2, <1>3 DEF Next

LEMMA InitSpareInv == Init => SpareInv
  <1> SUFFICES ASSUME Init PROVE SpareInv
    OBVIOUS
  <1>1. \A c \in Consumers : pc[c] = "idle" /\ spare[c] = 0
    BY DEF Init
  <1> QED BY <1>1 DEF SpareInv, SpareAt, Init

----------------------------------------------------------------------------
(* The elements in the slots. *)

\* No entry has got a block.
NoneInserted ==
  \A e \in Allocated' : ValueOf(e)' \in Blocks =>
    e \in Allocated /\ KeyOf(e)' = KeyOf(e) /\ ValueOf(e)' = ValueOf(e)

SameElements == \A b \in Blocks : blocks'[b].slots = blocks[b].slots

\* No consumer has claimed an index.
NoneClaimed ==
  headIndex' = headIndex
  /\ \A c \in Consumers : pc'[c] \in Indexed => pc[c] \in Indexed /\ loc'[c].index = loc[c].index

LEMMA WantedBefore ==
  ASSUME NoneClaimed
  PROVE  \A i : Wanted(i)' => Wanted(i)
  BY DEF NoneClaimed, Wanted

LEMMA OneTakerKept == OneTaker /\ NoneClaimed => OneTaker'
  BY DEF OneTaker, NoneClaimed

LEMMA ContentKept ==
  ASSUME ContentInv, NoneInserted, SameElements, NoneClaimed,
         UNCHANGED <<tailIndex, tailBlock>>, HasBlock' => HasBlock, ppc' = "publish" => ppc = "publish"
  PROVE  ContentInv'
  <1>1. ASSUME NEW e \in Allocated', NEW i \in Nat,
               ValueOf(e)' \in Blocks, KeyOf(e)' = Base(i), Present(i)', Wanted(i)'
        PROVE  blocks'[ValueOf(e)'].slots[i % BLOCK_SIZE] = i
    <2>1. e \in Allocated /\ KeyOf(e) = Base(i) /\ ValueOf(e)' = ValueOf(e) /\ ValueOf(e) \in Blocks
      BY <1>1 DEF NoneInserted
    <2>2. Present(i) /\ Wanted(i)
      BY <1>1, WantedBefore DEF Present
    <2>3. blocks[ValueOf(e)].slots[i % BLOCK_SIZE] = i
      BY <2>1, <2>2 DEF ContentInv, SlotsOK
    <2> QED BY <2>1, <2>3 DEF SameElements
  <1>2. SlotsOK'
    BY <1>1 DEF SlotsOK
  <1>3. TailOK'
    BY DEF TailOK, NoneInserted, ContentInv
  <1> QED BY <1>2, <1>3, OneTakerKept DEF ContentInv

LEMMA NoneInsertedIf ==
  ASSUME Types
  PROVE  /\ UNCHANGED entries => NoneInserted
         /\ \A e \in Allocated, x \in AnyEntry :
              entries' = [entries EXCEPT ![e] = x] /\ x.value \notin Blocks => NoneInserted
  <1>1. UNCHANGED entries => NoneInserted
    BY DEF NoneInserted, Allocated, KeyOf, ValueOf
  <1>2. ASSUME NEW e \in Allocated, NEW x \in AnyEntry,
               entries' = [entries EXCEPT ![e] = x], x.value \notin Blocks
        PROVE  NoneInserted
    <2>1. Allocated' = Allocated /\ \A f \in Allocated : entries'[f] = IF f = e THEN x ELSE entries[f]
      BY <1>2, Written
    <2> QED BY <1>2, <2>1 DEF NoneInserted, KeyOf, ValueOf
  <1> QED BY <1>1, <1>2

\* The producer's steps on the index, up to the insertion of the block.
LEMMA IndexContent ==
  ASSUME BlockInv, ContentInv, UNCHANGED <<pc, loc>>,
         \/ StartBlock \/ UseNullIndex \/ NewBlockIndex \/ StoreKey \/ StoreIndexTail
         \/ Requisition \/ RewindBlockIndexTail \/ UnsetEntry
  PROVE  ContentInv'
  <1>0. Types /\ ProducerOK
    BY DEF BlockInv, IndexInv
  <1>1. /\ UNCHANGED <<tailIndex, headIndex, tailBlock>>
        /\ ppc' \notin {"construct", "publish"}
    BY DEF StartBlock, UseNullIndex, NewBlockIndex, StoreKey, StoreIndexTail, Requisition,
           RewindBlockIndexTail, UnsetEntry, counters, memory, PGo
  <1>2. (HasBlock' => HasBlock) /\ NoneClaimed
    BY <1>1 DEF HasBlock, NoneClaimed
  <1>3. SameElements
    <2>1. \A b \in Blocks : DOMAIN blocks[b] = {"slots", "dequeued"}
      BY <1>0, TypeFacts DEF AnyBlock
    <2>2. blocks' = blocks \/ \E b \in pool : blocks' = [blocks EXCEPT ![b].dequeued = 0]
      BY DEF StartBlock, UseNullIndex, NewBlockIndex, StoreKey, StoreIndexTail, Requisition,
             RewindBlockIndexTail, UnsetEntry, memory
    <2>3. \A b \in Blocks : [blocks[b] EXCEPT !.dequeued = 0].slots = blocks[b].slots
      BY <2>1
    <2>4. DOMAIN blocks = Blocks
      BY <1>0 DEF Types
    <2> QED BY <2>2, <2>3, <2>4 DEF SameElements
  <1>4. NoneInserted
    <2>1. CASE UNCHANGED entries
      BY <1>0, <2>1, NoneInsertedIf
    <2>2. CASE NewBlockIndex /\ ~ UNCHANGED entries
      <3>1. ppc = "new_index" /\ blockIndex # <<>>
        BY <1>0, <2>2 DEF NewBlockIndex, ProducerOK
      <3>2. PICK n \in Nat : n = Header.capacity
        <4>1. Current \in Headers /\ Header = blockIndex[Current]
          BY <1>0, <3>1, TypeFacts DEF Header, Current
        <4> QED BY <1>0, <4>1, HeaderFacts
      <3>3. entries' = entries \o NoEntries(n)
        BY <2>2, <3>2 DEF NewBlockIndex
      <3>4. PICK m \in Nat : m = Len(entries)
        BY <1>0, TypeFacts
      <3>5. NoEntries(n) \in Seq([key : {INVALID_BLOCK_BASE}, value : {garbage}]) /\ Len(NoEntries(n)) = n
        BY DEF NoEntries
      <3>6. entries \in Seq(AnyEntry)
        BY <1>0 DEF Types
      <3>7. /\ Len(entries') = m + n
            /\ \A e \in 1 .. m + n : entries'[e] = IF e <= m THEN entries[e] ELSE NoEntries(n)[e - m]
        BY <3>3, <3>4, <3>5, <3>6, ConcatProperties
      <3>8. \A e \in m + 1 .. m + n : NoEntries(n)[e - m].value = garbage
        BY DEF NoEntries
      <3>9. ASSUME NEW e \in Allocated', ValueOf(e)' \in Blocks
            PROVE  e \in Allocated /\ KeyOf(e)' = KeyOf(e) /\ ValueOf(e)' = ValueOf(e)
        <4>1. e \in 1 .. m + n
          BY <3>7 DEF Allocated
        <4>2. e <= m
          <5>1. ASSUME ~ (e <= m) PROVE FALSE
            <6>1. e \in m + 1 .. m + n
              BY <4>1, <5>1
            <6>2. entries'[e].value = garbage
              BY <3>7, <3>8, <4>1, <5>1, <6>1
            <6> QED BY <3>9, <6>2, Bounds DEF ValueOf
          <5> QED BY <5>1
        <4> QED BY <3>4, <3>7, <4>1, <4>2 DEF Allocated, KeyOf, ValueOf
      <3> QED BY <3>9 DEF NoneInserted
    <2>3. CASE StoreKey \/ UnsetEntry
      <3>1. ppc \in {"store_key"} \cup Inserting /\ blockIndex # <<>>
        BY <1>0, <2>3 DEF StoreKey, UnsetEntry, ProducerOK, Inserting
      <3>2. PICK e \in Allocated : e = ploc.idxEntry /\ ValueOf(e) \notin Blocks
        BY <3>1, NotInUse
      <3>3. entries[e] \in AnyEntry
        BY <1>0, TypeFacts
      <3>4. CASE StoreKey
        <4> DEFINE x == [entries[e] EXCEPT !.key = tailIndex]
        <4>1. tailIndex \in Word
          <5>1. tailIndex \in Nat /\ tailIndex <= MaxTail
            BY <1>0, Bounds DEF Types
          <5> QED BY <5>1, Bounds DEF Word
        <4>2. x \in AnyEntry /\ x.value \notin Blocks
          BY <3>2, <3>3, <4>1 DEF AnyEntry, ValueOf
        <4>3. entries' = [entries EXCEPT ![e] = x]
          BY <3>2, <3>4 DEF StoreKey
        <4> HIDE DEF x
        <4> QED BY <1>0, <4>2, <4>3, NoneInsertedIf
      <3>5. CASE UnsetEntry
        <4> DEFINE x == [entries[e] EXCEPT !.value = nullptr]
        <4>1. x \in AnyEntry /\ x.value \notin Blocks
          BY <3>3, Bounds DEF AnyEntry
        <4>2. entries' = [entries EXCEPT ![e] = x]
          BY <3>2, <3>5 DEF UnsetEntry
        <4> HIDE DEF x
        <4> QED BY <1>0, <4>1, <4>2, NoneInsertedIf
      <3> QED BY <2>3, <3>4, <3>5
    <2> QED BY <2>1, <2>2, <2>3 DEF StartBlock, UseNullIndex, StoreIndexTail, Requisition,
                                   RewindBlockIndexTail, memory
  <1> QED BY <1>1, <1>2, <1>3, <1>4, ContentKept

\* The inserted block is the one of the newest entry, and empty.
LEMMA InsertContent ==
  ASSUME BlockInv, ContentInv, UNCHANGED <<pc, loc>>, InsertBlock
  PROVE  ContentInv'
  <1>0. Types /\ ProducerOK /\ LiveOK
    BY DEF BlockInv, IndexInv
  <1>1. /\ UNCHANGED <<tailIndex, headIndex, blocks>> /\ ppc = "insert" /\ ppc' = "construct"
        /\ tailIndex % BLOCK_SIZE = 0 /\ blockIndex # <<>> /\ ppc \in Inserting
    BY <1>0 DEF InsertBlock, PGo, counters, ProducerOK, Producing, Inserting, AtTail
  <1>2. PICK x \in Allocated : x = ploc.idxEntry /\ KeyOf(x) = tailIndex
    BY <1>0, <1>1, NotInUse DEF ProducerOK
  <1>3. PICK b \in Blocks : b = ploc.newBlock
    BY <1>0, <1>1 DEF ProducerOK, Types
  <1>4. /\ Allocated' = Allocated /\ KeyOf(x)' = KeyOf(x) /\ ValueOf(x)' = b /\ tailBlock' = b
        /\ \A e \in Allocated \ {x} : KeyOf(e)' = KeyOf(e) /\ ValueOf(e)' = ValueOf(e)
    <2> DEFINE y == [entries[x] EXCEPT !.value = b]
    <2>1. y \in AnyEntry /\ y.key = KeyOf(x) /\ y.value = b
      BY <1>0, TypeFacts DEF AnyEntry, KeyOf
    <2>2. entries' = [entries EXCEPT ![x] = y] /\ tailBlock' = b
      BY <1>2, <1>3 DEF InsertBlock
    <2> HIDE DEF y
    <2>3. Allocated' = Allocated /\ \A f \in Allocated : entries'[f] = IF f = x THEN y ELSE entries[f]
      BY <1>0, <2>1, <2>2, Written
    <2> QED BY <2>1, <2>2, <2>3 DEF KeyOf, ValueOf
  <1>5. /\ tailIndex \in Nat /\ tailIndex = Key(Due) /\ Due \in Nat /\ Base(tailIndex) = tailIndex
        /\ ~ HasBlock
    <2>1. tailIndex \in Nat /\ ~ HasBlock
      BY <1>0, <1>1, TypeFacts DEF HasBlock
    <2> QED BY <1>0, <1>1, <2>1, DueFacts, IndexFacts
  <1>6. ASSUME NEW e \in Allocated, ValueOf(e) \in Blocks PROVE KeyOf(e) # tailIndex
    <2>1. PICK q \in 0 .. Due - 1 : KeyOf(e) = Key(q)
      BY <1>0, <1>6 DEF LiveOK, BlockOK
    <2>2. q \in Int /\ Due \in Int /\ q # Due
      BY <1>5
    <2> QED BY <1>5, <2>1, <2>2, KeyOrder
  <1>7. ASSUME NEW e \in Allocated, NEW i \in Nat,
               ValueOf(e)' \in Blocks, KeyOf(e)' = Base(i), Present(i)', Wanted(i)'
        PROVE  blocks'[ValueOf(e)'].slots[i % BLOCK_SIZE] = i
    <2>1. i < tailIndex
      BY <1>1, <1>7 DEF Present
    <2>2. Base(i) # tailIndex
      BY <1>5, <2>1, IndexFacts
    <2>3. e # x /\ KeyOf(e) = Base(i) /\ ValueOf(e)' = ValueOf(e)
      BY <1>2, <1>4, <1>7, <2>2
    <2>4. Present(i) /\ Wanted(i)
      BY <1>1, <1>7, <2>1 DEF Present, Wanted
    <2> QED BY <1>1, <1>7, <2>3, <2>4 DEF ContentInv, SlotsOK
  <1>8. SlotsOK'
    BY <1>4, <1>7 DEF SlotsOK
  <1>9. TailOK'
    BY <1>1, <1>4, <1>5, <1>6 DEF TailOK
  <1>10. OneTaker'
    BY DEF ContentInv, OneTaker
  <1> QED BY <1>8, <1>9, <1>10 DEF ContentInv

\* The block at the tail is in the index.
LEMMA TailLive ==
  ASSUME BlockInv, ContentInv, HasBlock
  PROVE  \E e \in Allocated : KeyOf(e) = Base(tailIndex) /\ ValueOf(e) = tailBlock /\ tailBlock \in Blocks
  <1>0. Types /\ LiveOK /\ CountInv
    BY DEF BlockInv, IndexInv
  <1>1. headIndex \in Nat /\ tailIndex \in Nat /\ headIndex <= tailIndex
    BY <1>0, HeadIsBehind
  <1>2. /\ Number(tailIndex) \in Nat /\ Base(tailIndex) = Key(Number(tailIndex))
        /\ tailIndex < Base(tailIndex) + BLOCK_SIZE /\ Base(tailIndex) \in Nat
    BY <1>1, IndexFacts
  <1>3. Number(tailIndex) \in 0 .. Due - 1
    BY <1>2 DEF Due
  <1>4. Live(Number(tailIndex))
    BY <1>1, <1>2, <1>3, Bounds DEF Live
  <1>5. PICK e \in Allocated : KeyOf(e) = Base(tailIndex) /\ ValueOf(e) \in Blocks
    BY <1>0, <1>2, <1>4 DEF LiveOK
  <1> QED BY <1>5 DEF ContentInv, TailOK

LEMMA SamePlace ==
  ASSUME NEW i \in Nat, NEW k \in Nat, Base(i) = Base(k), i % BLOCK_SIZE = k % BLOCK_SIZE
  PROVE  i = k
  BY IndexFacts

LEMMA ConstructContent ==
  ASSUME BlockInv, ContentInv, UNCHANGED <<pc, loc>>, Construct
  PROVE  ContentInv'
  <1>0. Types /\ Places
    BY DEF BlockInv, IndexInv
  <1>1. /\ UNCHANGED <<tailIndex, headIndex, tailBlock, entries>> /\ ppc' = "publish" /\ HasBlock /\ HasBlock'
        /\ ppc # "publish"
    BY DEF Construct, PGo, counters, HasBlock
  <1>2. PICK k \in Nat : k = tailIndex
    BY <1>0, TypeFacts
  <1>3. PICK x \in Allocated : KeyOf(x) = Base(k) /\ ValueOf(x) = tailBlock /\ tailBlock \in Blocks
    BY <1>1, <1>2, TailLive
  <1>4. k % BLOCK_SIZE \in Slot /\ \A i \in Nat : i % BLOCK_SIZE \in Slot
    BY IndexFacts
  <1>5. blocks' = [blocks EXCEPT ![tailBlock].slots[k % BLOCK_SIZE] = k]
    BY <1>2 DEF Construct
  <1>6. \A b \in Blocks : \A s \in Slot :
          blocks'[b].slots[s] = IF b = tailBlock /\ s = k % BLOCK_SIZE THEN k ELSE blocks[b].slots[s]
    BY <1>0, <1>4, <1>5, TypeFacts DEF AnyBlock, Types
  <1>7. ASSUME NEW e \in Allocated, NEW i \in Nat,
               ValueOf(e) \in Blocks, KeyOf(e) = Base(i), Present(i)', Wanted(i)'
        PROVE  blocks'[ValueOf(e)].slots[i % BLOCK_SIZE] = i
    <2>1. CASE i = k
      <3>1. ValueOf(e) = tailBlock
        BY <1>1, <1>2, <1>7, <2>1 DEF ContentInv, TailOK
      <3> QED BY <1>4, <1>6, <1>7, <2>1, <3>1
    <2>2. CASE i # k
      <3>1. Present(i) /\ Wanted(i)
        BY <1>1, <1>2, <1>7, <2>2 DEF Present, Wanted
      <3>2. blocks[ValueOf(e)].slots[i % BLOCK_SIZE] = i
        BY <1>7, <3>1 DEF ContentInv, SlotsOK
      <3>3. ~ (ValueOf(e) = tailBlock /\ i % BLOCK_SIZE = k % BLOCK_SIZE)
        BY <1>0, <1>3, <1>7, <2>2, SamePlace DEF Places
      <3> QED BY <1>4, <1>6, <1>7, <3>2, <3>3
    <2> QED BY <2>1, <2>2
  <1>8. SlotsOK'
    BY <1>1, <1>7 DEF SlotsOK, Allocated, KeyOf, ValueOf
  <1>9. TailOK' /\ OneTaker'
    BY <1>1 DEF ContentInv, TailOK, OneTaker, Allocated, KeyOf, ValueOf
  <1> QED BY <1>8, <1>9 DEF ContentInv

LEMMA PublishContent ==
  ASSUME BlockInv, ContentInv, UNCHANGED <<pc, loc>>, Publish
  PROVE  ContentInv'
  <1>0. Types
    BY DEF BlockInv, IndexInv
  <1>1. /\ UNCHANGED <<headIndex, tailBlock, entries, blocks>> /\ tailIndex' = tailIndex + 1
        /\ ppc = "publish" /\ ppc' = "idle"
    BY DEF Publish, PGo, memory
  <1>2. PICK k \in Nat : k = tailIndex
    BY <1>0, TypeFacts
  <1>3. \A i \in Nat : Present(i)' => Present(i)
    BY <1>1, <1>2 DEF Present
  <1>4. \A i \in Nat : Wanted(i)' => Wanted(i)
    BY <1>1 DEF Wanted
  <1>5. SlotsOK'
    BY <1>1, <1>3, <1>4 DEF ContentInv, SlotsOK, Allocated, KeyOf, ValueOf
  <1>6. HasBlock' => HasBlock /\ Base(k + 1) = Base(k)
    <2>1. (k + 1) % BLOCK_SIZE # 0 => Number(k + 1) = Number(k)
      BY NextIndex
    <2>2. Base(k + 1) = Key(Number(k + 1)) /\ Base(k) = Key(Number(k))
      BY IndexFacts
    <2> QED BY <1>1, <1>2, <2>1, <2>2 DEF HasBlock
  <1>7. TailOK'
    BY <1>1, <1>2, <1>6 DEF ContentInv, TailOK, Allocated, KeyOf, ValueOf
  <1>8. OneTaker'
    BY DEF ContentInv, OneTaker
  <1> QED BY <1>5, <1>7, <1>8 DEF ContentInv

\* A consumer that claims nothing, and changes neither an element nor the
\* place of a block.
LEMMA OtherContent ==
  ASSUME BlockInv, ContentInv, NEW c \in Consumers, NEW w, NEW l,
         pc' = [pc EXCEPT ![c] = w], loc' = [loc EXCEPT ![c] = l],
         w \in Indexed => pc[c] \in Indexed /\ l.index = loc[c].index,
         UNCHANGED <<tailIndex, headIndex, tailBlock, ppc>>, NoneInserted, SameElements
  PROVE  ContentInv'
  <1>1. \A d \in Consumers : /\ pc'[d] = IF d = c THEN w ELSE pc[d]
                             /\ loc'[d] = IF d = c THEN l ELSE loc[d]
    BY DEF BlockInv, IndexInv, Types
  <1>2. NoneClaimed
    BY <1>1 DEF NoneClaimed
  <1>3. HasBlock' => HasBlock
    BY DEF HasBlock
  <1> QED BY <1>2, <1>3, ContentKept

\* The steps of a consumer before it claims an index.
LEMMA CountingContent ==
  ASSUME BlockInv, ContentInv, NEW c \in Consumers, UNCHANGED <<ppc, ploc>>,
         LoadTail(c) \/ LoadOvercommit(c) \/ LoadCount(c) \/ Count(c) \/ ReloadTail(c) \/ Overcommit(c)
  PROVE  ContentInv'
  <1>0. Types
    BY DEF BlockInv, IndexInv
  <1>1. UNCHANGED <<tailIndex, headIndex, memory>>
    BY DEF LoadTail, LoadOvercommit, LoadCount, Count, ReloadTail, Overcommit, counters
  <1>2. UNCHANGED <<tailBlock, entries, blocks>>
    BY <1>1 DEF memory
  <1>3. NoneInserted /\ SameElements
    BY <1>0, <1>2, NoneInsertedIf DEF SameElements
  <1>4. PICK w, l : /\ pc' = [pc EXCEPT ![c] = w] /\ loc' = [loc EXCEPT ![c] = l]
                    /\ w \in {"load_overcommit", "load_count", "count", "idle", "reload_tail",
                              "claim", "overcommit"}
    <2>1. CASE LoadTail(c)
      BY <2>1 DEF LoadTail, Go
    <2>2. CASE LoadOvercommit(c)
      BY <2>2 DEF LoadOvercommit, Go
    <2>3. CASE LoadCount(c)
      BY <2>3 DEF LoadCount, Go, Return
    <2>4. CASE Count(c)
      BY <2>4 DEF Count, Go
    <2>5. CASE ReloadTail(c)
      BY <2>5 DEF ReloadTail, Go
    <2>6. CASE Overcommit(c)
      BY <2>6 DEF Overcommit, Go, Return
    <2> QED BY <2>1, <2>2, <2>3, <2>4, <2>5, <2>6
  <1>5. w \notin Indexed
    BY <1>4 DEF Indexed
  <1> QED BY <1>1, <1>2, <1>3, <1>4, <1>5, OtherContent

\* A consumer that looks for the entry of its index keeps the index.
LEMMA IndexIsKept ==
  ASSUME NEW c \in Consumers, loc \in [Consumers -> Locals],
         LoadHeader(c) \/ LoadIndexTail(c) \/ LoadKey(c) \/ LoadValue(c)
  PROVE  \E w, l : /\ pc' = [pc EXCEPT ![c] = w] /\ loc' = [loc EXCEPT ![c] = l]
                  /\ w \in Indexed /\ l.index = loc[c].index
  <1>0. loc[c] \in Locals /\ loc \in [Consumers -> Locals]
    OBVIOUS
  <1>1. CASE LoadHeader(c)
    <2> DEFINE l == [loc[c] EXCEPT !.header = Len(blockIndex)]
    <2>1. l.index = loc[c].index /\ loc' = [loc EXCEPT ![c] = l]
      BY <1>0, <1>1 DEF LoadHeader, Locals
    <2> QED BY <1>1, <2>1 DEF LoadHeader, Go, Indexed
  <1>2. CASE LoadIndexTail(c)
    <2> DEFINE l == [loc[c] EXCEPT !.indexTail = blockIndex[loc[c].header].tail]
    <2>1. l.index = loc[c].index /\ loc' = [loc EXCEPT ![c] = l]
      BY <1>0, <1>2 DEF LoadIndexTail, Locals
    <2> QED BY <1>2, <2>1 DEF LoadIndexTail, Go, Indexed
  <1>3. CASE LoadKey(c)
    <2>1. PICK e : loc' = [loc EXCEPT ![c].entry = e, ![c].header = 0, ![c].indexTail = 0]
      BY <1>3 DEF LoadKey
    <2> DEFINE l == [loc[c] EXCEPT !.entry = e, !.header = 0, !.indexTail = 0]
    <2>2. l.index = loc[c].index /\ loc' = [loc EXCEPT ![c] = l]
      BY <1>0, <2>1 DEF Locals
    <2> QED BY <1>3, <2>2 DEF LoadKey, Go, Indexed
  <1>4. CASE LoadValue(c)
    <2> DEFINE l == [loc[c] EXCEPT !.block = entries[loc[c].entry].value]
    <2>1. l.index = loc[c].index /\ loc' = [loc EXCEPT ![c] = l]
      BY <1>0, <1>4 DEF LoadValue, Locals
    <2> QED BY <1>4, <2>1 DEF LoadValue, Go, Indexed
  <1> QED BY <1>1, <1>2, <1>3, <1>4

\* The steps by which it looks for the entry of its index.
LEMMA LookingContent ==
  ASSUME BlockInv, ContentInv, NEW c \in Consumers, UNCHANGED <<ppc, ploc>>,
         LoadHeader(c) \/ LoadIndexTail(c) \/ LoadKey(c) \/ LoadValue(c)
  PROVE  ContentInv'
  <1>0. Types /\ loc[c] \in Locals /\ loc \in [Consumers -> Locals]
    BY TypeFacts DEF BlockInv, IndexInv, Types
  <1>1. UNCHANGED <<tailIndex, headIndex, memory>>
    BY DEF LoadHeader, LoadIndexTail, LoadKey, LoadValue, counters
  <1>2. UNCHANGED <<tailBlock, entries, blocks>>
    BY <1>1 DEF memory
  <1>3. NoneInserted /\ SameElements
    BY <1>0, <1>2, NoneInsertedIf DEF SameElements
  <1>4. PICK w, l : /\ pc' = [pc EXCEPT ![c] = w] /\ loc' = [loc EXCEPT ![c] = l]
                    /\ w \in Indexed /\ l.index = loc[c].index
    BY <1>0, IndexIsKept
  <1>5. pc[c] \in Indexed
    BY DEF LoadHeader, LoadIndexTail, LoadKey, LoadValue, Indexed
  <1> QED BY <1>1, <1>2, <1>3, <1>4, <1>5, OtherContent

\* The element that is claimed was the oldest one that nobody had claimed.
LEMMA ClaimContent ==
  ASSUME BlockInv, ContentInv, NEW c \in Consumers, UNCHANGED <<ppc, ploc>>, Claim(c)
  PROVE  ContentInv'
  <1>0. Types /\ CountInv
    BY DEF BlockInv, IndexInv
  <1>1. UNCHANGED <<tailBlock, entries, blocks, tailIndex>>
    BY DEF Claim, memory
  <1>2. headIndex \in Nat /\ headIndex' = headIndex + 1
    BY <1>0, HeadIsBehind DEF Claim
  <1> DEFINE l == [loc[c] EXCEPT !.index = headIndex]
  <1>3. l.index = headIndex
    BY <1>0, TypeFacts DEF Locals
  <1>4. pc' = [pc EXCEPT ![c] = "load_header"] /\ loc' = [loc EXCEPT ![c] = l]
    BY <1>0 DEF Claim, Go, Types
  <1> HIDE DEF l
  <1>5. \A d \in Consumers : /\ pc'[d] = IF d = c THEN "load_header" ELSE pc[d]
                             /\ loc'[d] = IF d = c THEN l ELSE loc[d]
    BY <1>0, <1>4 DEF Types
  <1>6. \A i \in Nat : Wanted(i)' => Wanted(i)
    BY <1>2, <1>3, <1>5 DEF Wanted
  <1>7. SlotsOK' /\ TailOK'
    BY <1>1, <1>6 DEF ContentInv, SlotsOK, TailOK, Present, HasBlock, Allocated, KeyOf, ValueOf
  <1>8. \A d \in Consumers : pc[d] \in Indexed => loc[d].index # headIndex
    <2> SUFFICES ASSUME NEW d \in Consumers, pc[d] \in Indexed PROVE loc[d].index # headIndex
      OBVIOUS
    <2>1. loc[d].index \in Nat /\ loc[d].index < headIndex
      BY ClaimFacts
    <2> QED BY <1>2, <2>1
  <1>9. OneTaker'
    BY <1>3, <1>5, <1>8 DEF ContentInv, OneTaker
  <1> QED BY <1>7, <1>9 DEF ContentInv

\* A consumer moves the element out that only it wants.
LEMMA MoveContent ==
  ASSUME BlockInv, ContentInv, NEW c \in Consumers, UNCHANGED <<ppc, ploc>>, Move(c)
  PROVE  ContentInv'
  <1>0. Types /\ ConsumersOK /\ Places
    BY DEF BlockInv, IndexInv
  <1>1. /\ UNCHANGED <<tailBlock, entries, tailIndex, headIndex>>
        /\ pc[c] = "move" /\ pc' = [pc EXCEPT ![c] = "set_empty"]
    BY DEF Move, counters, Go
  <1>2. pc[c] \in UsesEntry /\ pc[c] \in Indexed
    BY <1>1 DEF UsesEntry, Indexed
  <1>3. PICK x \in Allocated, k \in Nat :
          /\ x = loc[c].entry /\ k = loc[c].index
          /\ ValueOf(x) \in Blocks /\ loc[c].block = ValueOf(x) /\ KeyOf(x) = Base(k)
          /\ k < headIndex
    BY <1>0, <1>1, <1>2, AtEntry, ClaimFacts DEF ConsumersOK, ConsumerAt
  <1>4. k % BLOCK_SIZE \in Slot /\ \A i \in Nat : i % BLOCK_SIZE \in Slot
    BY IndexFacts
  <1>5. PICK b \in Blocks, s \in Slot : b = ValueOf(x) /\ s = k % BLOCK_SIZE
    BY <1>3, <1>4
  <1>6. blocks' = [blocks EXCEPT ![b].slots[s] = nullptr]
    BY <1>3, <1>5 DEF Move
  <1>7. \A a \in Blocks : \A t \in Slot :
          blocks'[a].slots[t] = IF a = b /\ t = s THEN nullptr ELSE blocks[a].slots[t]
    BY <1>0, <1>6, TypeFacts DEF AnyBlock, Types
  <1>8. \A d \in Consumers : /\ pc'[d] = IF d = c THEN "set_empty" ELSE pc[d]
                             /\ d # c => loc'[d] = loc[d]
    BY <1>0, <1>1 DEF Types, Move
  <1>9. "set_empty" \notin Indexed
    BY DEF Indexed
  <1>10. \A i \in Nat : Wanted(i)' => Wanted(i) /\ i # k
    <2> SUFFICES ASSUME NEW i \in Nat, Wanted(i)' PROVE Wanted(i) /\ i # k
      OBVIOUS
    <2>1. CASE i >= headIndex
      <3>1. headIndex \in Nat
        BY HeadIsBehind DEF BlockInv
      <3> QED BY <1>3, <2>1, <3>1 DEF Wanted
    <2>2. CASE ~ (i >= headIndex)
      <3>1. PICK d \in Consumers : pc'[d] \in Indexed /\ loc'[d].index = i
        BY <1>1, <2>2 DEF Wanted
      <3>2. d # c /\ pc[d] \in Indexed /\ loc[d].index = i
        BY <1>8, <1>9, <3>1
      <3> QED BY <1>2, <1>3, <3>2 DEF Wanted, ContentInv, OneTaker
    <2> QED BY <2>1, <2>2
  <1>11. ASSUME NEW e \in Allocated, NEW i \in Nat,
                ValueOf(e) \in Blocks, KeyOf(e) = Base(i), Present(i), Wanted(i)'
         PROVE  blocks'[ValueOf(e)].slots[i % BLOCK_SIZE] = i
    <2>1. Wanted(i) /\ i # k
      BY <1>10, <1>11
    <2>2. blocks[ValueOf(e)].slots[i % BLOCK_SIZE] = i
      BY <1>11, <2>1 DEF ContentInv, SlotsOK
    <2>3. ~ (ValueOf(e) = b /\ i % BLOCK_SIZE = s)
      BY <1>0, <1>3, <1>5, <1>11, <2>1, SamePlace DEF Places
    <2> QED BY <1>4, <1>7, <1>11, <2>2, <2>3
  <1>12. SlotsOK'
    BY <1>1, <1>11 DEF SlotsOK, Present, Allocated, KeyOf, ValueOf
  <1>13. TailOK'
    BY <1>1 DEF ContentInv, TailOK, HasBlock, Allocated, KeyOf, ValueOf
  <1>14. OneTaker'
    BY <1>8, <1>9 DEF ContentInv, OneTaker
  <1> QED BY <1>12, <1>13, <1>14 DEF ContentInv

\* The steps after the element has been moved out.
LEMMA LeavingContent ==
  ASSUME BlockInv, ContentInv, NEW c \in Consumers, UNCHANGED <<ppc, ploc>>,
         SetEmpty(c) \/ RemoveEntry(c) \/ FreeBlock(c)
  PROVE  ContentInv'
  <1>0. Types
    BY DEF BlockInv, IndexInv
  <1>1. UNCHANGED <<tailIndex, headIndex, tailBlock>>
    BY DEF SetEmpty, RemoveEntry, FreeBlock, counters
  <1>2. NoneInserted
    <2>1. CASE UNCHANGED entries
      BY <1>0, <2>1, NoneInsertedIf
    <2>2. CASE RemoveEntry(c)
      <3>1. pc[c] \in UsesEntry
        BY <2>2 DEF RemoveEntry, UsesEntry
      <3>2. PICK e \in Allocated : e = loc[c].entry
        BY <3>1, AtEntry
      <3> DEFINE x == [entries[e] EXCEPT !.value = nullptr]
      <3>3. x \in AnyEntry /\ x.value \notin Blocks
        BY <1>0, TypeFacts, Bounds DEF AnyEntry
      <3>4. entries' = [entries EXCEPT ![e] = x]
        BY <2>2, <3>2 DEF RemoveEntry
      <3> HIDE DEF x
      <3> QED BY <1>0, <3>3, <3>4, NoneInsertedIf
    <2> QED BY <2>1, <2>2 DEF SetEmpty, FreeBlock
  <1>3. SameElements
    <2>1. CASE UNCHANGED blocks
      BY <2>1 DEF SameElements
    <2>2. CASE SetEmpty(c)
      <3>1. \A b \in Blocks : DOMAIN blocks[b] = {"slots", "dequeued"}
        BY <1>0, TypeFacts DEF AnyBlock
      <3>2. PICK b : blocks' = [blocks EXCEPT ![b].dequeued = blocks[b].dequeued + 1]
        BY <2>2 DEF SetEmpty
      <3> QED BY <1>0, <3>1, <3>2 DEF SameElements, Types
    <2> QED BY <2>1, <2>2 DEF RemoveEntry, FreeBlock
  <1>4. PICK w, l : /\ pc' = [pc EXCEPT ![c] = w] /\ loc' = [loc EXCEPT ![c] = l]
                    /\ w \in {"idle", "remove_entry", "free_block"}
    <2>1. loc = [loc EXCEPT ![c] = loc[c]]
      BY <1>0 DEF Types
    <2> QED BY <2>1 DEF SetEmpty, RemoveEntry, FreeBlock, Go, Return
  <1>5. w \notin Indexed
    BY <1>4 DEF Indexed
  <1> QED BY <1>1, <1>2, <1>3, <1>4, <1>5, OtherContent

LEMMA NextContentInv ==
  ASSUME BlockInv, ContentInv, [Next]_vars
  PROVE  ContentInv'
  <1>1. CASE Produce
    <2>1. UNCHANGED <<pc, loc>>
      BY <1>1 DEF Produce
    <2>2. \/ InsertBlock \/ Construct \/ Publish
          \/ \/ StartBlock \/ UseNullIndex \/ NewBlockIndex \/ StoreKey \/ StoreIndexTail
             \/ Requisition \/ RewindBlockIndexTail \/ UnsetEntry
      BY <1>1 DEF Produce
    <2> QED BY <2>1, <2>2, IndexContent, InsertContent, ConstructContent, PublishContent
  <1>2. CASE \E c \in Consumers : Consume(c)
    <2>1. PICK c \in Consumers : Consume(c)
      BY <1>2
    <2>2. /\ \/ \/ LoadTail(c) \/ LoadOvercommit(c) \/ LoadCount(c) \/ Count(c)
                \/ ReloadTail(c) \/ Overcommit(c)
             \/ Claim(c) \/ Move(c)
             \/ LoadHeader(c) \/ LoadIndexTail(c) \/ LoadKey(c) \/ LoadValue(c)
             \/ SetEmpty(c) \/ RemoveEntry(c) \/ FreeBlock(c)
          /\ UNCHANGED <<ppc, ploc>>
      BY <2>1 DEF Consume
    <2> QED BY <2>2, CountingContent, LookingContent, ClaimContent, MoveContent, LeavingContent
  <1>3. CASE UNCHANGED vars
    <2>1. /\ UNCHANGED <<tailIndex, headIndex, tailBlock, entries, blocks, ppc, pc, loc>>
      BY <1>3 DEF vars, counters, memory
    <2>2. NoneInserted /\ SameElements /\ NoneClaimed /\ (HasBlock' => HasBlock)
      BY <2>1 DEF NoneInserted, SameElements, NoneClaimed, HasBlock, Allocated, KeyOf, ValueOf
    <2> QED BY <2>1, <2>2, ContentKept
  <1> QED BY <1>1, <1>2, <1>3 DEF Next

\* There is no block in the index yet.
LEMMA InitContentInv == Init => ContentInv
  <1> SUFFICES ASSUME Init PROVE ContentInv
    OBVIOUS
  <1>1. \A e \in Allocated : ValueOf(e) = garbage
    <2>1. \A n \in Nat : Len(NoEntries(n)) = n /\ \A e \in 1 .. n : NoEntries(n)[e].value = garbage
      BY DEF NoEntries
    <2>2. IMPLICIT_INITIAL_INDEX_SIZE \in Nat
      BY ImplicitProducerAssumption
    <2> QED BY <2>1, <2>2 DEF Init, Allocated, ValueOf
  <1>2. \A c \in Consumers : pc[c] \notin Indexed
    BY DEF Init, Indexed
  <1> QED BY <1>1, <1>2, Bounds DEF ContentInv, SlotsOK, TailOK, OneTaker

----------------------------------------------------------------------------
(* The sub-queue as a FIFO queue. *)

\* The elements from index h up to, but not including, index t.
Queue(h, t) == [k \in 1 .. (t - h) |-> h + k - 1]

LEMMA QueueOperations ==
  ASSUME NEW h \in Nat, NEW t \in Nat, h <= t
  PROVE  /\ Queue(h, t) \in Seq(Nat) /\ Len(Queue(h, t)) = t - h
         /\ Append(Queue(h, t), t) = Queue(h, t + 1)
         /\ h < t => /\ Queue(h, t) # <<>> /\ Head(Queue(h, t)) = h
                     /\ Tail(Queue(h, t)) = Queue(h + 1, t)
  <1>1. ASSUME NEW g \in Nat, NEW u \in Nat, g <= u
        PROVE  /\ Queue(g, u) \in Seq(Nat) /\ Len(Queue(g, u)) = u - g
               /\ \A k \in 1 .. u - g : Queue(g, u)[k] = g + k - 1
    <2>1. PICK n \in Nat : n = u - g
      BY <1>1
    <2>2. Queue(g, u) = [k \in 1 .. n |-> g + k - 1]
      BY <2>1 DEF Queue
    <2>3. \A k \in 1 .. n : g + k - 1 \in Nat
      OBVIOUS
    <2> QED BY <2>1, <2>2, <2>3
  <1>2. PICK n \in Nat : n = t - h
    OBVIOUS
  <1>3. /\ Queue(h, t) \in Seq(Nat) /\ Len(Queue(h, t)) = n
        /\ \A k \in 1 .. n : Queue(h, t)[k] = h + k - 1
    BY <1>1, <1>2
  <1>4. Append(Queue(h, t), t) = Queue(h, t + 1)
    <2>1. /\ Queue(h, t + 1) \in Seq(Nat) /\ Len(Queue(h, t + 1)) = n + 1
          /\ \A k \in 1 .. n + 1 : Queue(h, t + 1)[k] = h + k - 1
      BY <1>1, <1>2
    <2>2. /\ Append(Queue(h, t), t) \in Seq(Nat) /\ Len(Append(Queue(h, t), t)) = n + 1
          /\ \A k \in 1 .. n : Append(Queue(h, t), t)[k] = Queue(h, t)[k]
          /\ Append(Queue(h, t), t)[n + 1] = t
      BY <1>3, AppendProperties
    <2>3. \A k \in 1 .. n + 1 : Append(Queue(h, t), t)[k] = h + k - 1
      BY <1>2, <1>3, <2>2
    <2> QED BY <2>1, <2>2, <2>3, SeqEqual
  <1>5. ASSUME h < t
        PROVE  /\ Queue(h, t) # <<>> /\ Head(Queue(h, t)) = h
               /\ Tail(Queue(h, t)) = Queue(h + 1, t)
    <2>1. n > 0 /\ Queue(h, t) # <<>>
      BY <1>2, <1>3, <1>5
    <2>2. Head(Queue(h, t)) = h
      BY <1>3, <2>1
    <2>3. /\ Tail(Queue(h, t)) \in Seq(Nat) /\ Len(Tail(Queue(h, t))) = n - 1
          /\ \A k \in 1 .. n - 1 : Tail(Queue(h, t))[k] = Queue(h, t)[k + 1]
      BY <1>3, <2>1, HeadTailProperties
    <2>4. /\ Queue(h + 1, t) \in Seq(Nat) /\ Len(Queue(h + 1, t)) = n - 1
          /\ \A k \in 1 .. n - 1 : Queue(h + 1, t)[k] = h + k
      BY <1>1, <1>2, <1>5
    <2>5. \A k \in 1 .. n - 1 : Tail(Queue(h, t))[k] = h + k
      BY <1>3, <2>3
    <2>6. PICK a \in Seq(Nat), b \in Seq(Nat) : a = Tail(Queue(h, t)) /\ b = Queue(h + 1, t)
      BY <2>3, <2>4
    <2>7. Len(a) = n - 1 /\ Len(b) = n - 1 /\ \A k \in 1 .. n - 1 : a[k] = b[k]
      BY <2>3, <2>4, <2>5, <2>6
    <2>8. a = b
      BY <2>7, SeqEqual
    <2> QED BY <2>1, <2>2, <2>6, <2>8
  <1> QED BY <1>2, <1>3, <1>4, <1>5

\* An element that has been published and that nobody has claimed is there.
LEMMA ElementIsThere ==
  ASSUME BlockInv, ContentInv, NEW i \in Nat, headIndex <= i, i < tailIndex
  PROVE  ElementAt(i) = i
  <1>0. Types /\ LiveOK
    BY DEF BlockInv, IndexInv
  <1>1. headIndex \in Nat /\ tailIndex \in Nat
    BY HeadIsBehind DEF BlockInv
  <1>2. /\ Number(i) \in Nat /\ Base(i) = Key(Number(i)) /\ i < Base(i) + BLOCK_SIZE /\ Base(i) \in Nat
        /\ Number(i) \in 0 .. Due - 1
    BY <1>0, IndexFacts, DueFacts
  <1>3. Live(Number(i))
    BY <1>1, <1>2, Bounds DEF Live
  <1>4. PICK x \in Allocated : KeyOf(x) = Base(i) /\ ValueOf(x) \in Blocks
    BY <1>0, <1>2, <1>3 DEF LiveOK
  <1> DEFINE inBlock == {e \in 1 .. Len(entries) :
                           entries[e].key = Base(i) /\ entries[e].value \in Blocks}
  <1>5. x \in inBlock
    BY <1>4 DEF Allocated, KeyOf, ValueOf
  <1>6. PICK e : e = CHOOSE y \in inBlock : TRUE
    OBVIOUS
  <1>7. e \in inBlock
    BY <1>5, <1>6
  <1>8. e \in Allocated /\ KeyOf(e) = Base(i) /\ ValueOf(e) \in Blocks
    BY <1>7 DEF Allocated, KeyOf, ValueOf
  <1>9. Present(i) /\ Wanted(i)
    BY DEF Present, Wanted
  <1>10. blocks[ValueOf(e)].slots[i % BLOCK_SIZE] = i
    BY <1>8, <1>9 DEF ContentInv, SlotsOK
  <1>11. ElementAt(i) = blocks[entries[CHOOSE y \in inBlock : TRUE].value].slots[i % BLOCK_SIZE]
    BY <1>5 DEF ElementAt
  <1> QED BY <1>6, <1>10, <1>11 DEF ValueOf

LEMMA QueueIs == BlockInv /\ ContentInv => AbstractQueue = Queue(headIndex, tailIndex)
  <1> SUFFICES ASSUME BlockInv, ContentInv PROVE AbstractQueue = Queue(headIndex, tailIndex)
    OBVIOUS
  <1>1. PICK h \in Nat, t \in Nat : h = headIndex /\ t = tailIndex
    BY HeadIsBehind DEF BlockInv
  <1>2. \A k \in 1 .. t - h : ElementAt(h + k - 1) = h + k - 1
    <2> SUFFICES ASSUME NEW k \in 1 .. t - h PROVE ElementAt(h + k - 1) = h + k - 1
      OBVIOUS
    <2>1. PICK i \in Nat : i = h + k - 1
      OBVIOUS
    <2>2. headIndex <= i /\ i < tailIndex
      BY <1>1, <2>1
    <2> QED BY <2>1, <2>2, ElementIsThere
  <1> QED BY <1>1, <1>2 DEF AbstractQueue, Queue

\* What a consumer at access w with local variables l is to Fifo.
StateOf(w) == IF w = "idle" THEN "idle" ELSE IF w \in Before THEN "called" ELSE "taken"

ItemOf(w, l) ==
  IF StateOf(w) # "taken" THEN nullptr
  ELSE IF w \in {"set_empty", "remove_entry", "free_block"} THEN l.element ELSE l.index

LEMMA ItemsAre == AbstractItem = [d \in Consumers |-> ItemOf(pc[d], loc[d])]
  <1>1. ASSUME NEW d \in Consumers PROVE AbstractItem[d] = ItemOf(pc[d], loc[d])
    <2>1. AbstractState[d] = StateOf(pc[d])
      BY DEF AbstractState, StateOf
    <2>2. AbstractItem[d] =
            CASE AbstractState[d] # "taken" -> nullptr
              [] pc[d] \in {"set_empty", "remove_entry", "free_block"} -> loc[d].element
              [] OTHER -> loc[d].index
      BY DEF AbstractItem
    <2>3. pc[d] \in {"set_empty", "remove_entry", "free_block"} => StateOf(pc[d]) = "taken"
      BY DEF StateOf, Before
    <2> HIDE DEF AbstractState, AbstractItem
    <2>4. CASE StateOf(pc[d]) # "taken"
      BY <2>1, <2>2, <2>3, <2>4 DEF ItemOf
    <2>5. CASE StateOf(pc[d]) = "taken"
      BY <2>1, <2>2, <2>5 DEF ItemOf
    <2> QED BY <2>4, <2>5
  <1>2. AbstractItem = [d \in Consumers |-> AbstractItem[d]]
    BY DEF AbstractItem
  <1> QED BY <1>1, <1>2

LEMMA ConsumerMoves ==
  ASSUME Types, NEW c \in Consumers, NEW w, NEW l,
         pc' = [pc EXCEPT ![c] = w], loc' = [loc EXCEPT ![c] = l]
  PROVE  /\ AbstractState' = [AbstractState EXCEPT ![c] = StateOf(w)]
         /\ AbstractItem' = [AbstractItem EXCEPT ![c] = ItemOf(w, l)]
         /\ AbstractState[c] = StateOf(pc[c]) /\ AbstractItem[c] = ItemOf(pc[c], loc[c])
  <1>1. \A d \in Consumers : /\ pc'[d] = IF d = c THEN w ELSE pc[d]
                             /\ loc'[d] = IF d = c THEN l ELSE loc[d]
    BY DEF Types
  <1>2. AbstractState = [d \in Consumers |-> StateOf(pc[d])]
    BY DEF AbstractState, StateOf
  <1>3. AbstractState' = [d \in Consumers |-> StateOf(pc'[d])]
    BY DEF AbstractState, StateOf
  <1>4. AbstractItem = [d \in Consumers |-> ItemOf(pc[d], loc[d])]
    BY ItemsAre
  <1>5. (AbstractItem = [d \in Consumers |-> ItemOf(pc[d], loc[d])])'
    BY ItemsAre, PTL
  <1> HIDE DEF AbstractState, AbstractItem, StateOf, ItemOf
  <1>6. /\ AbstractState' = [AbstractState EXCEPT ![c] = StateOf(w)]
        /\ AbstractState[c] = StateOf(pc[c])
    BY <1>1, <1>2, <1>3
  <1>7. /\ AbstractItem' = [AbstractItem EXCEPT ![c] = ItemOf(w, l)]
        /\ AbstractItem[c] = ItemOf(pc[c], loc[c])
    BY <1>1, <1>4, <1>5
  <1> QED BY <1>6, <1>7

FifoInv == BlockInv /\ SpareInv /\ ContentInv

\* A step of c that Fifo does not see.
LEMMA ConsumerStutters ==
  ASSUME FifoInv, FifoInv', NEW c \in Consumers, NEW w, NEW l,
         pc' = [pc EXCEPT ![c] = w], loc' = [loc EXCEPT ![c] = l],
         StateOf(w) = StateOf(pc[c]), ItemOf(w, l) = ItemOf(pc[c], loc[c]),
         UNCHANGED <<headIndex, tailIndex, spare>>
  PROVE  UNCHANGED Sub!vars
  <1>1. AbstractQueue = Queue(headIndex, tailIndex)
    BY QueueIs DEF FifoInv
  <1>2. (BlockInv /\ ContentInv => AbstractQueue = Queue(headIndex, tailIndex))'
    BY QueueIs, PTL
  <1>3. AbstractQueue' = AbstractQueue
    BY <1>1, <1>2 DEF FifoInv, Queue
  <1>4. Types
    BY DEF FifoInv, BlockInv, IndexInv
  <1>5. UNCHANGED <<AbstractState, AbstractItem>>
    <2>1. /\ AbstractState' = [AbstractState EXCEPT ![c] = StateOf(w)]
          /\ AbstractItem' = [AbstractItem EXCEPT ![c] = ItemOf(w, l)]
          /\ AbstractState[c] = StateOf(pc[c]) /\ AbstractItem[c] = ItemOf(pc[c], loc[c])
      BY <1>4, ConsumerMoves
    <2>2. AbstractState = [AbstractState EXCEPT ![c] = AbstractState[c]]
      BY DEF AbstractState
    <2>3. AbstractItem = [AbstractItem EXCEPT ![c] = AbstractItem[c]]
      BY DEF AbstractItem
    <2> QED BY <2>1, <2>2, <2>3
  <1> QED BY <1>3, <1>5 DEF Sub!vars

LEMMA QueueAfter == FifoInv' => AbstractQueue' = Queue(headIndex', tailIndex')
  <1>1. (BlockInv /\ ContentInv => AbstractQueue = Queue(headIndex, tailIndex))'
    BY QueueIs, PTL
  <1> QED BY <1>1 DEF FifoInv

\* The names that the steps of a consumer have for Fifo.
LEMMA StateFacts ==
  /\ StateOf("idle") = "idle"
  /\ \A w \in Before : StateOf(w) = "called"
  /\ \A w \in Indexed \cup {"set_empty", "remove_entry", "free_block"} : StateOf(w) = "taken"
  /\ \A l : \A w \in {"idle"} \cup Before : ItemOf(w, l) = nullptr
  /\ \A l : \A w \in Indexed : ItemOf(w, l) = l.index
  /\ \A l : \A w \in {"set_empty", "remove_entry", "free_block"} : ItemOf(w, l) = l.element
  BY DEF StateOf, ItemOf, Before, Indexed

\* The producer enqueues by publishing the new tailIndex.
LEMMA PublishEnqueues ==
  ASSUME FifoInv, FifoInv', Publish, UNCHANGED <<pc, loc, spare>>
  PROVE  Sub!Enqueue
  <1>0. Types /\ ProducerOK /\ CountInv
    BY DEF FifoInv, BlockInv, IndexInv
  <1>1. PICK h \in Nat, t \in Nat : h = headIndex /\ t = tailIndex /\ h <= t
    BY <1>0, HeadIsBehind
  <1>2. t \in 0 .. MaxTail - 1
    <2>1. t < MaxTail
      BY <1>0, <1>1 DEF Publish, ProducerOK
    <2> QED BY <2>1, Bounds
  <1>3. headIndex' = h /\ tailIndex' = t + 1
    BY <1>1 DEF Publish
  <1>4. AbstractQueue = Queue(h, t) /\ AbstractQueue' = Queue(h, t + 1)
    BY <1>1, <1>3, QueueIs, QueueAfter DEF FifoInv
  <1>5. AbstractQueue' = Append(AbstractQueue, t) /\ Len(AbstractQueue') > Len(AbstractQueue)
    <2>1. Len(Queue(h, t)) = t - h /\ Append(Queue(h, t), t) = Queue(h, t + 1)
      BY <1>1, QueueOperations
    <2>2. PICK u \in Nat : u = t + 1 /\ h <= u
      BY <1>1
    <2>3. Len(Queue(h, u)) = u - h
      BY <2>2, QueueOperations
    <2> QED BY <1>1, <1>4, <2>1, <2>2, <2>3
  <1>6. UNCHANGED <<AbstractState, AbstractItem, spare>>
    BY DEF AbstractState, AbstractItem
  <1> QED BY <1>2, <1>5, <1>6 DEF Sub!Enqueue

\* No other step of the producer can be seen.
LEMMA ProducerStutters ==
  ASSUME FifoInv, FifoInv', UNCHANGED <<tailIndex, headIndex, pc, loc, spare>>
  PROVE  UNCHANGED Sub!vars
  <1>1. AbstractQueue' = AbstractQueue
    BY QueueIs, QueueAfter DEF FifoInv
  <1>2. UNCHANGED <<AbstractState, AbstractItem, spare>>
    BY DEF AbstractState, AbstractItem
  <1> QED BY <1>1, <1>2 DEF Sub!vars

\* A consumer's call begins when it looks for something to dequeue.
LEMMA LoadTailCalls ==
  ASSUME FifoInv, FifoInv', NEW c \in Consumers, LoadTail(c), Spare(c)
  PROVE  Sub!Call(c)
  <1>0. Types
    BY DEF FifoInv, BlockInv, IndexInv
  <1>1. PICK l : pc' = [pc EXCEPT ![c] = "load_overcommit"] /\ loc' = [loc EXCEPT ![c] = l]
    BY DEF LoadTail, Go
  <1>2. pc[c] = "idle" /\ UNCHANGED <<headIndex, tailIndex>> /\ "load_overcommit" \in Before
    BY DEF LoadTail, counters, Before
  <1>3. /\ AbstractState[c] = "idle" /\ AbstractState' = [AbstractState EXCEPT ![c] = "called"]
        /\ AbstractItem' = [AbstractItem EXCEPT ![c] = nullptr] /\ AbstractItem[c] = nullptr
    <2>1. /\ AbstractState' = [AbstractState EXCEPT ![c] = StateOf("load_overcommit")]
          /\ AbstractItem' = [AbstractItem EXCEPT ![c] = ItemOf("load_overcommit", l)]
          /\ AbstractState[c] = StateOf(pc[c]) /\ AbstractItem[c] = ItemOf(pc[c], loc[c])
      BY <1>0, <1>1, ConsumerMoves
    <2>2. /\ StateOf(pc[c]) = "idle" /\ StateOf("load_overcommit") = "called"
          /\ ItemOf(pc[c], loc[c]) = nullptr /\ ItemOf("load_overcommit", l) = nullptr
      BY <1>2, StateFacts
    <2> QED BY <2>1, <2>2
  <1>4. AbstractItem' = AbstractItem
    <2>1. AbstractItem = [AbstractItem EXCEPT ![c] = AbstractItem[c]]
      BY DEF AbstractItem
    <2> QED BY <1>3, <2>1
  <1>5. AbstractQueue' = AbstractQueue
    BY <1>2, QueueIs, QueueAfter DEF FifoInv
  <1>6. spare' = Sub!SpareAfterCall(c)
    BY <1>2 DEF Spare
  <1> QED BY <1>3, <1>4, <1>5, <1>6 DEF Sub!Call

\* It may fail at its first look, or after it has counted itself.
LEMMA FailureReturns ==
  ASSUME FifoInv, FifoInv', NEW c \in Consumers, Spare(c), pc' = [pc EXCEPT ![c] = "idle"],
         LoadCount(c) \/ Overcommit(c)
  PROVE  Sub!ReturnFalse(c)
  <1>0. Types
    BY DEF FifoInv, BlockInv, IndexInv
  <1>1. PICK l : loc' = [loc EXCEPT ![c] = l]
    BY DEF LoadCount, Overcommit, Return
  <1>2. pc[c] \in Before /\ pc[c] \notin {"idle", "claim"} /\ UNCHANGED <<headIndex, tailIndex>>
    BY DEF LoadCount, Overcommit, counters, Before
  <1>3. /\ AbstractState[c] = "called" /\ AbstractState' = [AbstractState EXCEPT ![c] = "idle"]
        /\ AbstractItem' = [AbstractItem EXCEPT ![c] = nullptr] /\ AbstractItem[c] = nullptr
    <2>1. /\ AbstractState' = [AbstractState EXCEPT ![c] = StateOf("idle")]
          /\ AbstractItem' = [AbstractItem EXCEPT ![c] = ItemOf("idle", l)]
          /\ AbstractState[c] = StateOf(pc[c]) /\ AbstractItem[c] = ItemOf(pc[c], loc[c])
      BY <1>0, <1>1, ConsumerMoves
    <2>2. /\ StateOf(pc[c]) = "called" /\ StateOf("idle") = "idle"
          /\ ItemOf(pc[c], loc[c]) = nullptr /\ ItemOf("idle", l) = nullptr
      BY <1>2, StateFacts
    <2> QED BY <2>1, <2>2
  <1>4. AbstractItem' = AbstractItem
    <2>1. AbstractItem = [AbstractItem EXCEPT ![c] = AbstractItem[c]]
      BY DEF AbstractItem
    <2> QED BY <1>3, <2>1
  <1>5. AbstractQueue' = AbstractQueue
    BY <1>2, QueueIs, QueueAfter DEF FifoInv
  <1>6. spare' = spare
    BY <1>2 DEF Spare
  <1>7. spare[c] = 0
    <2>1. CASE LoadCount(c)
      <3>1. pc'[c] = "idle"
        BY <1>0 DEF Types
      <3>2. ~ (dequeueOptimisticCount - loc[c].overcommit < loc[c].tail)
        BY <1>0, <2>1, <3>1 DEF LoadCount, Go, Types
      <3> QED BY <2>1, <3>2, NothingSpare DEF FifoInv
    <2>2. CASE Overcommit(c)
      <3>1. pc[c] = "overcommit"
        BY <2>2 DEF Overcommit
      <3> QED BY <3>1, NothingSpare DEF FifoInv
    <2> QED BY <2>1, <2>2
  <1> QED BY <1>3, <1>4, <1>5, <1>6, <1>7 DEF Sub!ReturnFalse

\* It takes the element at the head by claiming its index.
LEMMA ClaimTakes ==
  ASSUME FifoInv, FifoInv', NEW c \in Consumers, Claim(c), Spare(c)
  PROVE  Sub!Take(c)
  <1>0. Types
    BY DEF FifoInv, BlockInv, IndexInv
  <1> DEFINE l == [loc[c] EXCEPT !.index = headIndex]
  <1>1. l.index = headIndex
    BY <1>0, TypeFacts DEF Locals
  <1>2. pc' = [pc EXCEPT ![c] = "load_header"] /\ loc' = [loc EXCEPT ![c] = l]
    BY <1>0 DEF Claim, Go, Types
  <1> HIDE DEF l
  <1>3. /\ pc[c] = "claim" /\ pc[c] \in Before /\ "load_header" \in Indexed
        /\ headIndex' = headIndex + 1 /\ tailIndex' = tailIndex
    BY DEF Claim, Before, Indexed
  <1>4. /\ AbstractState[c] = "called" /\ AbstractState' = [AbstractState EXCEPT ![c] = "taken"]
        /\ AbstractItem' = [AbstractItem EXCEPT ![c] = headIndex]
    <2>1. StateOf(pc[c]) = "called" /\ StateOf("load_header") = "taken" /\ ItemOf("load_header", l) = headIndex
      BY <1>1, <1>3, StateFacts
    <2>2. /\ AbstractState' = [AbstractState EXCEPT ![c] = StateOf("load_header")]
          /\ AbstractItem' = [AbstractItem EXCEPT ![c] = ItemOf("load_header", l)]
          /\ AbstractState[c] = StateOf(pc[c]) /\ AbstractItem[c] = ItemOf(pc[c], loc[c])
      BY <1>0, <1>2, ConsumerMoves
    <2> QED BY <2>1, <2>2
  <1>5. PICK h \in Nat, t \in Nat : h = headIndex /\ t = tailIndex /\ h < t
    <2>1. (CountInv => headIndex \in Nat /\ tailIndex \in Nat /\ headIndex <= tailIndex)'
      BY HeadIsBehind, PTL
    <2>2. headIndex \in Nat /\ tailIndex \in Nat /\ headIndex + 1 <= tailIndex
      BY <1>3, <2>1, HeadIsBehind DEF FifoInv, BlockInv
    <2> QED BY <2>2
  <1>6. AbstractQueue = Queue(h, t) /\ AbstractQueue' = Queue(h + 1, t)
    BY <1>3, <1>5, QueueIs, QueueAfter DEF FifoInv
  <1>7. AbstractQueue # <<>> /\ Head(AbstractQueue) = h /\ AbstractQueue' = Tail(AbstractQueue)
    <2>1. h <= t
      BY <1>5
    <2>2. Queue(h, t) # <<>> /\ Head(Queue(h, t)) = h /\ Tail(Queue(h, t)) = Queue(h + 1, t)
      BY <1>5, <2>1, QueueOperations
    <2> QED BY <1>6, <2>2
  <1>8. spare' = [spare EXCEPT ![c] = 0]
    BY <1>3 DEF Spare
  <1> QED BY <1>4, <1>5, <1>7, <1>8 DEF Sub!Take

\* What it moves out is the element whose index it has claimed.
LEMMA MoveStutters ==
  ASSUME FifoInv, FifoInv', NEW c \in Consumers, UNCHANGED <<ppc, ploc>>, Move(c), Spare(c)
  PROVE  UNCHANGED Sub!vars
  <1>0. Types /\ ConsumersOK
    BY DEF FifoInv, BlockInv, IndexInv
  <1>1. /\ UNCHANGED <<tailIndex, headIndex>>
        /\ pc[c] = "move" /\ pc' = [pc EXCEPT ![c] = "set_empty"]
    BY DEF Move, counters, Go
  <1>2. pc[c] \in UsesEntry /\ pc[c] \in Indexed
    BY <1>1 DEF UsesEntry, Indexed
  <1>3. PICK x \in Allocated, k \in Nat :
          /\ x = loc[c].entry /\ k = loc[c].index
          /\ ValueOf(x) \in Blocks /\ loc[c].block = ValueOf(x) /\ KeyOf(x) = Base(k)
          /\ k < headIndex
    BY <1>0, <1>1, <1>2, AtEntry, ClaimFacts DEF ConsumersOK, ConsumerAt, FifoInv
  <1>4. blocks[loc[c].block].slots[loc[c].index % BLOCK_SIZE] = k
    <2>1. headIndex \in Nat /\ tailIndex \in Nat /\ headIndex <= tailIndex
      BY HeadIsBehind DEF FifoInv, BlockInv
    <2>2. Present(k) /\ Wanted(k)
      BY <1>2, <1>3, <2>1 DEF Present, Wanted
    <2> QED BY <1>3, <2>2 DEF FifoInv, ContentInv, SlotsOK
  <1> DEFINE l == [loc[c] EXCEPT !.element = k, !.index = 0]
  <1>5. l.element = k /\ loc' = [loc EXCEPT ![c] = l]
    BY <1>0, <1>3, <1>4, TypeFacts DEF Move, Types, Locals
  <1> HIDE DEF l
  <1>6. StateOf("set_empty") = StateOf(pc[c]) /\ ItemOf("set_empty", l) = ItemOf(pc[c], loc[c])
    BY <1>2, <1>3, <1>5, StateFacts
  <1>7. spare' = spare
    BY <1>1 DEF Spare
  <1> QED BY <1>1, <1>5, <1>6, <1>7, ConsumerStutters

\* A call returns with the element after its slot has been counted, or its
\* block given back.
LEMMA SuccessReturns ==
  ASSUME FifoInv, FifoInv', NEW c \in Consumers, Spare(c), pc' = [pc EXCEPT ![c] = "idle"],
         SetEmpty(c) \/ FreeBlock(c)
  PROVE  Sub!ReturnTrue(c)
  <1>0. Types
    BY DEF FifoInv, BlockInv, IndexInv
  <1>1. pc[c] \in {"set_empty", "free_block"} /\ UNCHANGED <<headIndex, tailIndex>>
    BY DEF SetEmpty, FreeBlock, counters
  <1>2. PICK l : loc' = [loc EXCEPT ![c] = l]
    <2>1. loc = [loc EXCEPT ![c] = loc[c]]
      BY <1>0 DEF Types
    <2> QED BY <2>1 DEF SetEmpty, FreeBlock, Return
  <1>3. /\ AbstractState[c] = "taken" /\ AbstractState' = [AbstractState EXCEPT ![c] = "idle"]
        /\ AbstractItem' = [AbstractItem EXCEPT ![c] = nullptr]
    <2>1. StateOf(pc[c]) = "taken" /\ StateOf("idle") = "idle" /\ ItemOf("idle", l) = nullptr
      BY <1>1, StateFacts
    <2>2. /\ AbstractState' = [AbstractState EXCEPT ![c] = StateOf("idle")]
          /\ AbstractItem' = [AbstractItem EXCEPT ![c] = ItemOf("idle", l)]
          /\ AbstractState[c] = StateOf(pc[c]) /\ AbstractItem[c] = ItemOf(pc[c], loc[c])
      BY <1>0, <1>2, ConsumerMoves
    <2> QED BY <2>1, <2>2
  <1>4. AbstractQueue' = AbstractQueue
    BY <1>1, QueueIs, QueueAfter DEF FifoInv
  <1>5. spare' = spare
    BY <1>1 DEF Spare
  <1> QED BY <1>3, <1>4, <1>5 DEF Sub!ReturnTrue

\* No other step of a consumer can be seen.
LEMMA QuietSteps ==
  ASSUME FifoInv, FifoInv', NEW c \in Consumers, Spare(c), pc' # [pc EXCEPT ![c] = "idle"],
         \/ LoadOvercommit(c) \/ LoadCount(c) \/ Count(c) \/ ReloadTail(c)
         \/ LoadHeader(c) \/ LoadIndexTail(c) \/ LoadKey(c) \/ LoadValue(c)
         \/ SetEmpty(c) \/ RemoveEntry(c)
  PROVE  UNCHANGED Sub!vars
  <1>0. Types /\ loc[c] \in Locals /\ loc \in [Consumers -> Locals]
    BY TypeFacts DEF FifoInv, BlockInv, IndexInv, Types
  <1>1. UNCHANGED <<headIndex, tailIndex>>
    BY DEF LoadOvercommit, LoadCount, Count, ReloadTail, LoadHeader, LoadIndexTail, LoadKey, LoadValue,
           SetEmpty, RemoveEntry, counters
  <1>2. pc[c] \notin {"idle", "claim"}
    BY DEF LoadOvercommit, LoadCount, Count, ReloadTail, LoadHeader, LoadIndexTail, LoadKey, LoadValue,
           SetEmpty, RemoveEntry
  <1>3. spare' = spare
    BY <1>2 DEF Spare
  <1>4. CASE LoadOvercommit(c) \/ LoadCount(c) \/ Count(c) \/ ReloadTail(c)
    <2>1. PICK w, l : pc' = [pc EXCEPT ![c] = w] /\ loc' = [loc EXCEPT ![c] = l] /\ w \in Before
      <3>1. {"load_count", "count", "reload_tail", "claim", "overcommit"} \subseteq Before
        BY DEF Before
      <3>2. CASE LoadOvercommit(c)
        BY <3>1, <3>2 DEF LoadOvercommit, Go
      <3>3. CASE LoadCount(c)
        BY <3>1, <3>3 DEF LoadCount, Go, Return
      <3>4. CASE Count(c)
        BY <3>1, <3>4 DEF Count, Go
      <3>5. CASE ReloadTail(c)
        BY <3>1, <3>5 DEF ReloadTail, Go
      <3> QED BY <1>4, <3>2, <3>3, <3>4, <3>5
    <2>2. pc[c] \in Before
      BY <1>4 DEF LoadOvercommit, LoadCount, Count, ReloadTail, Before
    <2>3. StateOf(w) = StateOf(pc[c]) /\ ItemOf(w, l) = ItemOf(pc[c], loc[c])
      BY <2>1, <2>2, StateFacts
    <2> QED BY <1>1, <1>3, <2>1, <2>3, ConsumerStutters
  <1>5. CASE LoadHeader(c) \/ LoadIndexTail(c) \/ LoadKey(c) \/ LoadValue(c)
    <2>1. PICK w, l : /\ pc' = [pc EXCEPT ![c] = w] /\ loc' = [loc EXCEPT ![c] = l]
                      /\ w \in Indexed /\ l.index = loc[c].index
      BY <1>0, <1>5, IndexIsKept
    <2>2. pc[c] \in Indexed
      BY <1>5 DEF LoadHeader, LoadIndexTail, LoadKey, LoadValue, Indexed
    <2>3. StateOf(w) = StateOf(pc[c]) /\ ItemOf(w, l) = ItemOf(pc[c], loc[c])
      BY <2>1, <2>2, StateFacts
    <2> QED BY <1>1, <1>3, <2>1, <2>3, ConsumerStutters
  <1>6. CASE SetEmpty(c) \/ RemoveEntry(c)
    <2>1. PICK w \in {"remove_entry", "free_block"} :
            pc' = [pc EXCEPT ![c] = w] /\ loc' = loc
      BY <1>6 DEF SetEmpty, RemoveEntry, Go, Return
    <2>2. loc' = [loc EXCEPT ![c] = loc[c]]
      BY <1>0, <2>1
    <2>3. pc[c] \in {"set_empty", "remove_entry"}
      BY <1>6 DEF SetEmpty, RemoveEntry
    <2>4. StateOf(w) = StateOf(pc[c]) /\ ItemOf(w, loc[c]) = ItemOf(pc[c], loc[c])
      BY <2>1, <2>3, StateFacts
    <2> QED BY <1>1, <1>3, <2>1, <2>2, <2>4, ConsumerStutters
  <1> QED BY <1>4, <1>5, <1>6

LEMMA InitIsFifo == Init => FifoInv /\ Sub!Init
  <1> SUFFICES ASSUME Init PROVE FifoInv /\ Sub!Init
    OBVIOUS
  <1>1. FifoInv
    BY InitCountInv, InitIndexInv, InitSpareInv, InitContentInv DEF FifoInv, BlockInv
  <1>2. AbstractQueue = <<>>
    BY DEF Init, AbstractQueue
  <1>3. AbstractState = [c \in Consumers |-> "idle"]
    BY DEF Init, AbstractState
  <1>4. AbstractItem = [c \in Consumers |-> nullptr]
    <2>1. \A c \in Consumers : ItemOf(pc[c], loc[c]) = nullptr
      BY StateFacts DEF Init
    <2> QED BY <2>1, ItemsAre
  <1> QED BY <1>1, <1>2, <1>3, <1>4 DEF Init, Sub!Init

LEMMA NextFifoInv == FifoInv /\ [Next]_vars => FifoInv'
  BY NextCountInv, NextIndexInv, NextSpareInv, NextContentInv DEF FifoInv, BlockInv

LEMMA ProduceIsFifo ==
  ASSUME FifoInv, FifoInv', Produce, UNCHANGED spare
  PROVE  [Sub!Next]_Sub!vars
  <1>1. UNCHANGED <<pc, loc, headIndex>>
    BY DEF Produce, StartBlock, UseNullIndex, NewBlockIndex, StoreKey, StoreIndexTail, Requisition,
           RewindBlockIndexTail, UnsetEntry, InsertBlock, Construct, Publish, counters
  <1>2. CASE Publish
    BY <1>1, <1>2, PublishEnqueues DEF Sub!Next
  <1>3. CASE ~ Publish
    <2>1. UNCHANGED tailIndex
      BY <1>3 DEF Produce, StartBlock, UseNullIndex, NewBlockIndex, StoreKey, StoreIndexTail, Requisition,
                  RewindBlockIndexTail, UnsetEntry, InsertBlock, Construct, counters
    <2> QED BY <1>1, <2>1, ProducerStutters
  <1> QED BY <1>2, <1>3

LEMMA ConsumeIsFifo ==
  ASSUME FifoInv, FifoInv', NEW c \in Consumers, Consume(c), Spare(c)
  PROVE  [Sub!Next]_Sub!vars
  <1>1. CASE LoadTail(c)
    BY <1>1, LoadTailCalls DEF Sub!Next
  <1>2. CASE Claim(c)
    BY <1>2, ClaimTakes DEF Sub!Next
  <1>3. CASE Move(c)
    BY <1>3, MoveStutters DEF Consume
  <1>4. CASE pc' = [pc EXCEPT ![c] = "idle"] /\ (LoadCount(c) \/ Overcommit(c))
    BY <1>4, FailureReturns DEF Sub!Next
  <1>5. CASE pc' = [pc EXCEPT ![c] = "idle"] /\ (SetEmpty(c) \/ FreeBlock(c))
    BY <1>5, SuccessReturns DEF Sub!Next
  <1>6. CASE /\ pc' # [pc EXCEPT ![c] = "idle"]
             /\ \/ LoadOvercommit(c) \/ LoadCount(c) \/ Count(c) \/ ReloadTail(c)
                \/ LoadHeader(c) \/ LoadIndexTail(c) \/ LoadKey(c) \/ LoadValue(c)
                \/ SetEmpty(c) \/ RemoveEntry(c)
    BY <1>6, QuietSteps
  <1>7. /\ Overcommit(c) \/ FreeBlock(c) => pc' = [pc EXCEPT ![c] = "idle"]
        /\ \/ LoadOvercommit(c) \/ Count(c) \/ ReloadTail(c) \/ LoadHeader(c) \/ LoadIndexTail(c)
           \/ LoadKey(c) \/ LoadValue(c) \/ RemoveEntry(c)
           => pc' # [pc EXCEPT ![c] = "idle"]
    <2>1. pc \in [Consumers -> Steps]
      BY DEF FifoInv, BlockInv, IndexInv, Types
    <2>2. \A w : w # "idle" => [pc EXCEPT ![c] = w] # [pc EXCEPT ![c] = "idle"]
      <3>1. \A w : [pc EXCEPT ![c] = w][c] = w
        BY <2>1
      <3> QED BY <3>1
    <2>3. Overcommit(c) \/ FreeBlock(c) => pc' = [pc EXCEPT ![c] = "idle"]
      BY DEF Overcommit, FreeBlock, Return, Go
    <2>4. ASSUME \/ LoadOvercommit(c) \/ Count(c) \/ ReloadTail(c) \/ LoadHeader(c) \/ LoadIndexTail(c)
                 \/ LoadKey(c) \/ LoadValue(c) \/ RemoveEntry(c)
          PROVE  \E w : w # "idle" /\ pc' = [pc EXCEPT ![c] = w]
      BY <2>4 DEF LoadOvercommit, Count, ReloadTail, LoadHeader, LoadIndexTail, LoadKey, LoadValue,
                  RemoveEntry, Go
    <2> QED BY <2>2, <2>3, <2>4
  <1> QED BY <1>1, <1>2, <1>3, <1>4, <1>5, <1>6, <1>7 DEF Consume

(* The sub-queue is a FIFO queue: whatever the interleaving of one         *)
(* producer and any number of consumers, what its steps do to the element  *)
(* at each index is what Fifo's do to a queue.  Elements leave in the      *)
(* order in which they entered, each once, and try_dequeue fails only if   *)
(* the calls that overlap it are as many as the elements it could have.    *)
THEOREM SubQueueIsFifo == Spec => IsFifo
  <1>1. Init => FifoInv /\ Sub!Init
    BY InitIsFifo
  <1>2. FifoInv /\ [Next]_vars => FifoInv'
    BY NextFifoInv
  <1>3. FifoInv /\ FifoInv' /\ [Next]_vars => [Sub!Next]_Sub!vars
    <2> SUFFICES ASSUME FifoInv, FifoInv', [Next]_vars PROVE [Sub!Next]_Sub!vars
      OBVIOUS
    <2>1. CASE Produce /\ UNCHANGED spare
      BY <2>1, ProduceIsFifo
    <2>2. CASE \E c \in Consumers : Consume(c) /\ Spare(c)
      BY <2>2, ConsumeIsFifo
    <2>3. CASE UNCHANGED vars
      BY <2>3, ProducerStutters DEF vars, counters
    <2> QED BY <2>1, <2>2, <2>3 DEF Next
  <1> QED BY <1>1, <1>2, <1>3, PTL DEF Spec, IsFifo, Sub!Spec

(* Types, for any number of consumers and blocks: among them, that each    *)
(* block index has only entries that exist, and that no block counts more  *)
(* elements dequeued than it has room for.                                 *)
THEOREM TypesAreKept == Spec => []TypeOK
  <1>1. FifoInv => TypeOK
    <2> SUFFICES ASSUME FifoInv PROVE TypeOK
      OBVIOUS
    <2>1. Types /\ HeadersOK /\ CountInv /\ SpareInv
      BY DEF FifoInv, BlockInv, IndexInv
    <2>2. headIndex \in Word
      <3>1. tailIndex <= MaxTail
        BY <2>1, Bounds DEF Types
      <3> QED BY <2>1, <3>1, HeadIsBehind, Bounds DEF Word
    <2>3. dequeueOvercommit \in Word
      <3>1. /\ Promised \in Nat /\ Cardinality(Undecided) \in Nat /\ Cardinality(TooLate) \in Nat
            /\ dequeueOvercommit \in Nat /\ dequeueOptimisticCount \in 0 .. MaxAttempts
        BY <2>1, CountTypes, Sizes DEF CountInv, CountersOK, Types
      <3>2. dequeueOptimisticCount = Promised + dequeueOvercommit + Cardinality(Undecided) + Cardinality(TooLate)
        BY <2>1 DEF CountInv, AllCounted
      <3> QED BY <3>1, <3>2, Bounds DEF Word
    <2>4. ASSUME NEW h \in 1 .. Len(blockIndex)
          PROVE  /\ blockIndex[h].tail \in 0 .. blockIndex[h].capacity - 1
                 /\ blockIndex[h].index \in [0 .. blockIndex[h].capacity - 1 -> 1 .. Len(entries)]
      <3>1. h \in Headers
        BY DEF Headers
      <3>2. blockIndex[h].tail \in Slots(h) /\ blockIndex[h].index \in [Slots(h) -> Nat]
        BY <2>1, <3>1, HeaderFacts
      <3>3. \A i \in Slots(h) : blockIndex[h].index[i] \in Allocated
        BY <2>1, <3>1 DEF HeadersOK
      <3> QED BY <3>2, <3>3 DEF Slots, Allocated
    <2> QED BY <2>1, <2>2, <2>3, <2>4 DEF TypeOK, Types, AnyEntry, AnyBlock, Steps, Indexed, SpareInv
  <1> QED BY <1>1, InitIsFifo, NextFifoInv, PTL DEF Spec
=============================================================================
