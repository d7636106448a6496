-------------------------- MODULE TryDequeueProofs --------------------------
(***************************************************************************)
(* Why try_dequeue overlooks no producer, for any number of consumers and  *)
(* producers, whatever is added and enqueued while it looks.  A producer   *)
(* that has elements which no other call has a claim to keeps them until   *)
(* another consumer calls on it, so a consumer that finds it empty, by its *)
(* size or by a call, may forget it; and it has found every other producer *)
(* empty when it is at the end of the list.                                *)
(***************************************************************************)
EXTENDS TryDequeue, FiniteSetTheorems, SequenceTheorems, TLAPS

Steps == {"idle", "load_tail", "load_head", "try_best", "in_best", "try_next", "in_next"}

Listed == {producers[i] : i \in 1 .. Len(producers)}

Locals == [ptr : Nat, tail : 0 .. MaxEnqueued, nonEmptyCount : 0 .. 2, best : Nat, bestSize : 0 .. MaxEnqueued]

Types ==
  /\ producers \in Seq(Producers)
  /\ tailIndex \in [Producers -> 0 .. MaxEnqueued] /\ headIndex \in [Producers -> 0 .. MaxEnqueued]
  /\ pc \in [Consumers -> Steps] /\ loc \in [Consumers -> Locals]
  /\ calls \in [Producers -> SUBSET Consumers]
  /\ spare \in [Consumers -> Nat] /\ unaccounted \in [Consumers -> [Producers -> Nat]]

\* A producer is in the list once, and only the listed have elements.
ListOK ==
  /\ \A i, j \in 1 .. Len(producers) : producers[i] = producers[j] => i = j
  /\ \A p \in Producers : headIndex[p] <= tailIndex[p]
  /\ \A p \in Producers \ Listed : tailIndex[p] = 0

\* The positions that consumer c uses are in the list.
PlacesOK(c) ==
  /\ loc[c].ptr <= Len(producers) /\ loc[c].best <= Len(producers)
  /\ pc[c] = "idle" => loc[c] = NoLocals
  /\ pc[c] \in {"load_tail", "load_head", "try_next", "in_next"} => loc[c].ptr \in 1 .. Len(producers)
  /\ pc[c] \in {"load_tail", "load_head"} =>
       /\ loc[c].bestSize = 0 \/ loc[c].best \in 1 .. Len(producers)
       /\ loc[c].nonEmptyCount = 0 \/ loc[c].best \in 1 .. Len(producers)
  /\ pc[c] \in {"try_best", "in_best", "try_next", "in_next"} => loc[c].best \in 1 .. Len(producers)

Calling(c) == pc[c] \in {"in_best", "in_next"}

\* The consumers whose calls on p are in progress.
CallsOK == \A p \in Producers : calls[p] = {c \in Consumers : Calling(c) /\ Tried(c) = p}

Others(c, p) == Cardinality(calls[p] \ {c})

\* At least so many elements of p are for c: they were there when c began,
\* and every call of others that may take one has been deducted.
LeftFor(c, p, tail) == unaccounted[c][p] = 0 \/ unaccounted[c][p] + Others(c, p) + headIndex[p] <= tail

\* So it is now, so it was when c loaded the tail of p, and so the call of c
\* on p has been promised.
AccountedFor(c) ==
  /\ \A p \in Producers : LeftFor(c, p, tailIndex[p])
  /\ \A p \in Producers \ Listed : unaccounted[c][p] = 0
  /\ pc[c] = "load_head" => LeftFor(c, producers[loc[c].ptr], loc[c].tail)
  /\ Calling(c) => unaccounted[c][Tried(c)] <= spare[c]

\* What c has seen had nothing for it.
NothingBehind(c) == \A i \in 1 .. Len(producers) : i > loc[c].ptr => unaccounted[c][producers[i]] = 0

SeenBy(c) ==
  /\ pc[c] \in {"load_tail", "load_head"} /\ loc[c].nonEmptyCount = 0 => NothingBehind(c)
  /\ pc[c] \in {"try_next", "in_next"} =>
       NothingBehind(c) /\ unaccounted[c][producers[loc[c].best]] = 0

ScanInv ==
  /\ Types
  /\ ListOK
  /\ CallsOK
  /\ \A c \in Consumers : PlacesOK(c) /\ AccountedFor(c) /\ SeenBy(c)

----------------------------------------------------------------------------
(* Lists, sizes and positions. *)

LEMMA LessFacts ==
  ASSUME NEW n \in Int, NEW k \in Int
  PROVE  Less(n, k) \in Nat /\ (Less(n, k) = 0 \/ Less(n, k) = n - k) /\ Less(n, k) >= n - k
         /\ (Less(n, k) = 0 => n <= k)
  BY DEF Less

LEMMA ListFacts ==
  ASSUME Types
  PROVE  /\ Len(producers) \in Nat /\ \A i \in 1 .. Len(producers) : producers[i] \in Producers
         /\ Listed \subseteq Producers
         /\ \A c \in Consumers : loc[c] \in Locals /\ pc[c] \in Steps
  <1>1. Len(producers) \in Nat /\ \A i \in 1 .. Len(producers) : producers[i] \in Producers
    BY ElementOfSeq, LenProperties DEF Types
  <1> QED BY <1>1 DEF Listed, Types

LEMMA CallSizes ==
  ASSUME TryDequeueAssumption, Types, NEW p \in Producers
  PROVE  /\ IsFiniteSet(calls[p]) /\ Cardinality(calls[p]) \in Nat
         /\ \A c \in Consumers : IsFiniteSet(calls[p] \ {c}) /\ Others(c, p) \in Nat
  <1>1. IsFiniteSet(calls[p])
    BY FS_Subset DEF Types, TryDequeueAssumption
  <1>2. \A c \in Consumers : IsFiniteSet(calls[p] \ {c})
    BY <1>1, FS_Subset
  <1> QED BY <1>1, <1>2, FS_CardinalityType DEF Others

LEMMA TriedFacts ==
  ASSUME ScanInv, NEW c \in Consumers, pc[c] \in {"try_best", "in_best", "try_next", "in_next"}
  PROVE  /\ Tried(c) \in Producers /\ Tried(c) \in Listed
         /\ pc[c] \in {"try_best", "in_best"} => Tried(c) = producers[loc[c].best]
         /\ pc[c] \in {"try_next", "in_next"} => Tried(c) = producers[loc[c].ptr]
  <1>1. PlacesOK(c) /\ Types
    BY DEF ScanInv
  <1>2. CASE pc[c] \in {"try_best", "in_best"}
    BY <1>1, <1>2, ListFacts DEF PlacesOK, Tried, Listed
  <1>3. CASE pc[c] \in {"try_next", "in_next"}
    BY <1>1, <1>3, ListFacts DEF PlacesOK, Tried, Listed
  <1> QED BY <1>2, <1>3

LEMMA InitScanInv ==
  ASSUME TryDequeueAssumption, Init
  PROVE  ScanInv
  <1>0. Len(producers) = 0 /\ producers \in Seq(Producers) /\ MaxEnqueued \in Nat
    BY EmptySeq DEF Init, TryDequeueAssumption
  <1>1. Types
    BY <1>0 DEF Init, Types, Idle, NoLocals, Locals, Steps
  <1>2. ListOK
    BY <1>0 DEF Init, ListOK, Idle
  <1>3. CallsOK
    BY DEF Init, CallsOK, Calling
  <1>4. \A c \in Consumers : PlacesOK(c) /\ AccountedFor(c) /\ SeenBy(c)
    BY <1>0 DEF Init, PlacesOK, AccountedFor, SeenBy, LeftFor, Calling, Idle, NoLocals
  <1> QED BY <1>1, <1>2, <1>3, <1>4 DEF ScanInv

----------------------------------------------------------------------------
(* The steps of producers. *)

LEMMA AddStep ==
  ASSUME TryDequeueAssumption, ScanInv, NEW p \in Producers, AddProducer(p)
  PROVE  ScanInv'
  <1> DEFINE n == Len(producers)
  <1>0. /\ Types /\ ListOK /\ n \in Nat /\ producers \in Seq(Producers)
        /\ \A i \in 1 .. n : producers[i] \in Producers
    BY ListFacts DEF ScanInv, Types
  <1>1. /\ producers' \in Seq(Producers) /\ Len(producers') = n + 1
        /\ \A i \in 1 .. n : producers'[i] = producers[i]
        /\ producers'[n + 1] = p /\ p \notin Listed
    BY <1>0, AppendProperties DEF AddProducer, Listed
  <1>2. UNCHANGED <<tailIndex, headIndex, pc, loc, calls, spare, unaccounted>>
    BY DEF AddProducer
  <1>3. Types'
    BY <1>0, <1>1, <1>2 DEF Types
  <1>4. Listed' = Listed \cup {p}
    <2>1. \A i \in 1 .. n + 1 : i \in 1 .. n \/ i = n + 1
      BY <1>0
    <2>2. \A i \in 1 .. n : i \in 1 .. n + 1
      BY <1>0
    <2>3. n + 1 \in 1 .. n + 1
      BY <1>0
    <2> HIDE DEF n
    <2> QED BY <1>1, <2>1, <2>2, <2>3 DEF Listed, n
  <1>5. ListOK'
    <2>1. \A i \in 1 .. n : producers[i] # p
      BY <1>1 DEF Listed
    <2>2. \A i, j \in 1 .. Len(producers') : producers'[i] = producers'[j] => i = j
      BY <1>0, <1>1, <2>1 DEF ListOK
    <2> QED BY <1>0, <1>2, <1>4, <2>2 DEF ListOK
  <1>6. ASSUME NEW c \in Consumers
        PROVE  /\ PlacesOK(c)' /\ AccountedFor(c)' /\ SeenBy(c)'
               /\ Calling(c)' <=> Calling(c)
               /\ Calling(c) => Tried(c)' = Tried(c)
    <2>1. PlacesOK(c) /\ AccountedFor(c) /\ SeenBy(c) /\ loc[c] \in Locals
      BY <1>0, ListFacts DEF ScanInv
    <2>2. PlacesOK(c)'
      BY <1>0, <1>1, <1>2, <2>1 DEF PlacesOK, Locals
    <2>3. Calling(c) => Tried(c)' = Tried(c)
      BY <1>1, <1>2, <2>1 DEF Calling, Tried, PlacesOK
    <2>4. (Calling(c)' <=> Calling(c)) /\ \A q, t : LeftFor(c, q, t)' <=> LeftFor(c, q, t)
      BY <1>2 DEF Calling, LeftFor, Others
    <2>5. AccountedFor(c)'
      BY <1>1, <1>2, <1>4, <2>1, <2>3, <2>4 DEF AccountedFor, PlacesOK
    <2>6. NothingBehind(c) => NothingBehind(c)'
      BY <1>0, <1>1, <1>2, <2>1 DEF NothingBehind, AccountedFor
    <2>7. SeenBy(c)'
      BY <1>1, <1>2, <2>1, <2>6 DEF SeenBy, PlacesOK
    <2> QED BY <2>2, <2>3, <2>4, <2>5, <2>7
  <1>7. CallsOK'
    <2>1. ASSUME NEW q \in Producers
          PROVE  {c \in Consumers : Calling(c)' /\ Tried(c)' = q} = {c \in Consumers : Calling(c) /\ Tried(c) = q}
      BY <1>6
    <2> QED BY <1>2, <2>1 DEF ScanInv, CallsOK
  <1> QED BY <1>3, <1>5, <1>6, <1>7 DEF ScanInv

LEMMA EnqueueStep ==
  ASSUME TryDequeueAssumption, ScanInv, NEW p \in Producers, Enqueue(p)
  PROVE  ScanInv'
  <1>0. Types /\ ListOK
    BY DEF ScanInv
  <1>1. /\ tailIndex' = [tailIndex EXCEPT ![p] = @ + 1] /\ p \in Listed /\ tailIndex[p] < MaxEnqueued
        /\ UNCHANGED <<producers, headIndex, pc, loc, calls, spare, unaccounted>>
    BY DEF Enqueue, Listed
  <1>2. /\ tailIndex' \in [Producers -> 0 .. MaxEnqueued]
        /\ \A q \in Producers : tailIndex[q] \in Nat /\ headIndex[q] \in Nat /\ tailIndex[q] <= tailIndex'[q]
        /\ \A q \in Producers \ {p} : tailIndex'[q] = tailIndex[q]
    BY <1>0, <1>1 DEF Types, TryDequeueAssumption
  <1>3. Types'
    BY <1>0, <1>1, <1>2 DEF Types
  <1>4. ListOK'
    <2>1. Listed' = Listed
      BY <1>1 DEF Listed
    <2>2. \A q \in Producers : headIndex'[q] <= tailIndex'[q] /\ tailIndex'[q] \in Nat
      BY <1>0, <1>1, <1>2 DEF ListOK, TryDequeueAssumption
    <2> QED BY <1>0, <1>1, <1>2, <2>1, <2>2 DEF ListOK
  <1>5. CallsOK'
    BY <1>1 DEF ScanInv, CallsOK, Calling, Tried
  <1>6. ASSUME NEW c \in Consumers PROVE PlacesOK(c)' /\ AccountedFor(c)' /\ SeenBy(c)'
    <2>1. PlacesOK(c) /\ AccountedFor(c) /\ SeenBy(c)
      BY DEF ScanInv
    <2>2. PlacesOK(c)' /\ SeenBy(c)'
      BY <1>1, <2>1 DEF PlacesOK, SeenBy, NothingBehind
    <2>3. \A q, t : LeftFor(c, q, t)' <=> LeftFor(c, q, t)
      BY <1>1 DEF LeftFor, Others
    <2>4. ASSUME NEW q \in Producers PROVE LeftFor(c, q, tailIndex'[q])
      <3>1. LeftFor(c, q, tailIndex[q]) /\ Others(c, q) \in Nat /\ unaccounted[c][q] \in Nat
        BY <1>0, <2>1, CallSizes DEF AccountedFor, Types
      <3>2. tailIndex[q] \in Nat /\ headIndex[q] \in Nat /\ tailIndex'[q] \in Nat /\ tailIndex[q] <= tailIndex'[q]
        BY <1>2 DEF TryDequeueAssumption
      <3> QED BY <3>1, <3>2 DEF LeftFor
    <2>5. AccountedFor(c)'
      BY <1>1, <2>1, <2>3, <2>4 DEF AccountedFor, Listed, Calling, Tried
    <2> QED BY <2>2, <2>5
  <1> QED BY <1>3, <1>4, <1>5, <1>6 DEF ScanInv

----------------------------------------------------------------------------
(* The steps of consumer c. *)

\* A look at the sizes, in which c changes only what it knows.
LEMMA LookStep ==
  ASSUME TryDequeueAssumption, ScanInv, NEW c \in Consumers, NEW w \in Steps,
         UNCHANGED <<producers, tailIndex, headIndex, calls, spare>>,
         pc' = [pc EXCEPT ![c] = w], ~ Calling(c), w \notin {"in_best", "in_next"},
         loc' \in [Consumers -> Locals], \A d \in Consumers \ {c} : loc'[d] = loc[d],
         unaccounted' \in [Consumers -> [Producers -> Nat]],
         \A d \in Consumers \ {c} : unaccounted'[d] = unaccounted[d],
         PlacesOK(c)', AccountedFor(c)', SeenBy(c)'
  PROVE  ScanInv'
  <1>0. Types /\ ListOK /\ CallsOK
    BY DEF ScanInv
  <1>1. Types' /\ ListOK'
    BY <1>0 DEF Types, ListOK, Listed
  <1>2. \A d \in Consumers \ {c} : pc'[d] = pc[d]
    BY <1>0 DEF Types
  <1>3. pc'[c] = w /\ ~ (Calling(c)')
    BY <1>0 DEF Types, Calling
  <1>4. ASSUME NEW d \in Consumers \ {c}
        PROVE  /\ PlacesOK(d)' /\ AccountedFor(d)' /\ SeenBy(d)'
               /\ Calling(d)' <=> Calling(d)
               /\ Tried(d)' = Tried(d)
    <2>1. PlacesOK(d) /\ AccountedFor(d) /\ SeenBy(d)
      BY DEF ScanInv
    <2>2. pc'[d] = pc[d] /\ loc'[d] = loc[d] /\ unaccounted'[d] = unaccounted[d]
      BY <1>2
    <2>3. \A q, t : LeftFor(d, q, t)' <=> LeftFor(d, q, t)
      BY <2>2 DEF LeftFor, Others
    <2> QED BY <2>1, <2>2, <2>3 DEF PlacesOK, AccountedFor, SeenBy, NothingBehind, Calling, Tried, Listed
  <1>5. CallsOK'
    <2>1. ASSUME NEW q \in Producers
          PROVE  {d \in Consumers : Calling(d)' /\ Tried(d)' = q} = {d \in Consumers : Calling(d) /\ Tried(d) = q}
      BY <1>3, <1>4
    <2> QED BY <1>0, <2>1 DEF CallsOK
  <1> QED BY <1>1, <1>4, <1>5 DEF ScanInv

LEMMA CallStep ==
  ASSUME TryDequeueAssumption, ScanInv, NEW c \in Consumers, Call(c)
  PROVE  ScanInv'
  <1> DEFINE n == Len(producers)
             mine == [p \in Producers |-> Less(Size(p), Cardinality(calls[p]))]
  <1>0. /\ Types /\ ListOK /\ CallsOK /\ n \in Nat /\ loc[c] = NoLocals
        /\ Listed \subseteq Producers
        /\ UNCHANGED <<producers, tailIndex, headIndex, calls, spare>>
    BY ListFacts DEF ScanInv, Call, PlacesOK
  <1>1. n > 0
    BY <1>0, EmptySeq DEF Types, Call
  <1>2. /\ loc' \in [Consumers -> Locals] /\ \A d \in Consumers \ {c} : loc'[d] = loc[d]
        /\ loc'[c].ptr = n /\ loc'[c].best = 0 /\ loc'[c].bestSize = 0
        /\ loc'[c].nonEmptyCount = 0
    <2>1. loc[c] \in Locals /\ loc[c].best = 0 /\ loc[c].bestSize = 0 /\ loc[c].nonEmptyCount = 0
      BY <1>0 DEF Types, NoLocals
    <2>2. loc' = [loc EXCEPT ![c].ptr = n]
      BY DEF Call
    <2> HIDE DEF n
    <2> QED BY <1>0, <2>1, <2>2 DEF Types, Locals
  <1>3. ASSUME NEW p \in Producers
        PROVE  /\ mine[p] \in Nat
               /\ mine[p] = 0 \/ mine[p] + Others(c, p) + headIndex[p] <= tailIndex[p]
               /\ p \notin Listed => mine[p] = 0
    <2>1. /\ tailIndex[p] \in Nat /\ headIndex[p] \in Nat /\ headIndex[p] <= tailIndex[p]
          /\ p \notin Listed => tailIndex[p] = 0
      BY <1>0 DEF Types, ListOK, TryDequeueAssumption
    <2>2. Size(p) = tailIndex[p] - headIndex[p] /\ Size(p) \in Nat
      BY <2>1 DEF Size, Less
    <2>3. Cardinality(calls[p]) \in Nat
      BY <1>0, CallSizes
    <2>4. Others(c, p) = Cardinality(calls[p])
      <3>1. c \notin calls[p]
        BY <1>0 DEF Call, CallsOK, Calling
      <3>2. calls[p] \ {c} = calls[p]
        BY <3>1
      <3> QED BY <3>2 DEF Others
    <2>5. mine[p] = Less(Size(p), Cardinality(calls[p]))
      OBVIOUS
    <2>6. mine[p] \in Nat /\ (mine[p] = 0 \/ mine[p] = Size(p) - Cardinality(calls[p]))
          /\ (Size(p) = 0 => mine[p] = 0)
      BY <2>2, <2>3, <2>5 DEF Less
    <2> HIDE DEF mine
    <2> QED BY <2>1, <2>2, <2>3, <2>4, <2>6
  <1>4. mine \in [Producers -> Nat]
    BY <1>3
  <1> HIDE DEF mine
  <1>5. /\ unaccounted' \in [Consumers -> [Producers -> Nat]] /\ unaccounted'[c] = mine
        /\ \A d \in Consumers \ {c} : unaccounted'[d] = unaccounted[d]
    <2>1. unaccounted' = [unaccounted EXCEPT ![c] = mine]
      BY DEF Call, mine
    <2> QED BY <1>0, <1>4, <2>1 DEF Types
  <1>6. pc' = [pc EXCEPT ![c] = "load_tail"] /\ pc'[c] = "load_tail" /\ ~ Calling(c)
    BY <1>0 DEF Call, Go, Types, Calling
  <1>7. PlacesOK(c)'
    BY <1>0, <1>1, <1>2, <1>6 DEF PlacesOK
  <1>8. AccountedFor(c)'
    <2>1. \A p \in Producers : LeftFor(c, p, tailIndex[p])'
      BY <1>0, <1>3, <1>5 DEF LeftFor, Others
    <2>2. \A p \in Producers \ Listed' : unaccounted'[c][p] = 0
      BY <1>0, <1>3, <1>5 DEF Listed
    <2> QED BY <1>6, <2>1, <2>2 DEF AccountedFor, Calling
  <1>9. SeenBy(c)'
    BY <1>0, <1>2, <1>6 DEF SeenBy, NothingBehind
  <1>10. "load_tail" \in Steps /\ "load_tail" \notin {"in_best", "in_next"}
    BY DEF Steps
  <1> QED BY <1>0, <1>2, <1>5, <1>6, <1>7, <1>8, <1>9, <1>10, LookStep

LEMMA LoadTailStep ==
  ASSUME TryDequeueAssumption, ScanInv, NEW c \in Consumers, LoadTail(c)
  PROVE  ScanInv'
  <1> DEFINE p == producers[loc[c].ptr]
  <1>0. /\ Types /\ PlacesOK(c) /\ AccountedFor(c) /\ SeenBy(c) /\ pc[c] = "load_tail"
        /\ UNCHANGED <<producers, tailIndex, headIndex, calls, spare, unaccounted>>
        /\ loc[c] \in Locals /\ loc[c].ptr \in 1 .. Len(producers) /\ p \in Producers
        /\ Len(producers) \in Nat
    BY ListFacts DEF ScanInv, LoadTail, PlacesOK
  <1>1. /\ loc' \in [Consumers -> Locals] /\ \A d \in Consumers \ {c} : loc'[d] = loc[d]
        /\ loc'[c].tail = tailIndex[p]
        /\ loc'[c].ptr = loc[c].ptr /\ loc'[c].best = loc[c].best
        /\ loc'[c].bestSize = loc[c].bestSize /\ loc'[c].nonEmptyCount = loc[c].nonEmptyCount
    BY <1>0 DEF LoadTail, Types, Locals
  <1>2. pc' = [pc EXCEPT ![c] = "load_head"] /\ pc'[c] = "load_head" /\ ~ Calling(c)
    BY <1>0 DEF LoadTail, Go, Types, Calling
  <1>3. PlacesOK(c)'
    BY <1>0, <1>1, <1>2 DEF PlacesOK
  <1>4. AccountedFor(c)'
    <2>1. \A q, t : LeftFor(c, q, t)' <=> LeftFor(c, q, t)
      BY <1>0 DEF LeftFor, Others
    <2>2. LeftFor(c, p, tailIndex[p])
      BY <1>0 DEF AccountedFor
    <2>3. producers'[loc'[c].ptr] = p /\ loc'[c].tail = tailIndex[p]
      BY <1>0, <1>1
    <2> HIDE DEF p
    <2> QED BY <1>0, <1>2, <2>1, <2>2, <2>3 DEF AccountedFor, Calling, Listed
  <1>5. SeenBy(c)'
    BY <1>0, <1>1, <1>2 DEF SeenBy, NothingBehind
  <1>6. "load_head" \in Steps /\ "load_head" \notin {"in_best", "in_next"}
    BY DEF Steps
  <1>7. /\ unaccounted' \in [Consumers -> [Producers -> Nat]]
        /\ \A d \in Consumers \ {c} : unaccounted'[d] = unaccounted[d]
    BY <1>0 DEF Types
  <1> QED BY <1>0, <1>1, <1>2, <1>3, <1>4, <1>5, <1>6, <1>7, LookStep

\* The fields of what c knows when it has seen one more size.
LEMMA ScoreFields ==
  ASSUME TryDequeueAssumption, NEW l \in Locals, l.ptr >= 1, NEW size \in 0 .. MaxEnqueued
  PROVE  /\ Score(l, size).ptr = l.ptr - 1 /\ Score(l, size).tail = 0
         /\ Score(l, size).nonEmptyCount = IF size > 0 THEN l.nonEmptyCount + 1 ELSE l.nonEmptyCount
         /\ Score(l, size).best = IF size > l.bestSize THEN l.ptr ELSE l.best
         /\ Score(l, size).bestSize = IF size > l.bestSize THEN size ELSE l.bestSize
         /\ Score(l, size).nonEmptyCount < 3 => Score(l, size) \in Locals
  <1> DEFINE r == Score(l, size)
  <1>1. r.ptr = l.ptr - 1 /\ r.tail = 0
    BY DEF Score, Locals
  <1>2. r.nonEmptyCount = IF size > 0 THEN l.nonEmptyCount + 1 ELSE l.nonEmptyCount
    BY DEF Score, Locals
  <1>3. /\ r.best = IF size > l.bestSize THEN l.ptr ELSE l.best
        /\ r.bestSize = IF size > l.bestSize THEN size ELSE l.bestSize
    BY DEF Score, Locals
  <1>4. r.nonEmptyCount < 3 => r \in Locals
    <2>1. SUFFICES ASSUME r.nonEmptyCount < 3 PROVE r \in Locals
      OBVIOUS
    <2>2. /\ l.ptr - 1 \in Nat /\ 0 \in 0 .. MaxEnqueued
          /\ r.nonEmptyCount \in 0 .. 2 /\ r.best \in Nat /\ r.bestSize \in 0 .. MaxEnqueued
      BY <1>2, <1>3, <2>1 DEF Locals, TryDequeueAssumption
    <2> QED BY <2>2, <1>1 DEF Score, Locals
  <1> QED BY <1>1, <1>2, <1>3, <1>4

\* A producer that c has seen empty has nothing for it.
LEMMA EmptyBehind ==
  ASSUME TryDequeueAssumption, ScanInv, NEW c \in Consumers, pc[c] = "load_head",
         Less(loc[c].tail, headIndex[producers[loc[c].ptr]]) = 0, loc[c].nonEmptyCount = 0
  PROVE  \A i \in 1 .. Len(producers) : i > loc[c].ptr - 1 => unaccounted[c][producers[i]] = 0
  <1> DEFINE p == producers[loc[c].ptr]
  <1>0. /\ Types /\ PlacesOK(c) /\ AccountedFor(c) /\ SeenBy(c)
        /\ loc[c] \in Locals /\ loc[c].ptr \in 1 .. Len(producers) /\ p \in Producers
        /\ Len(producers) \in Nat
    BY ListFacts DEF ScanInv, PlacesOK
  <1>1. /\ loc[c].tail \in Nat /\ headIndex[p] \in Nat /\ unaccounted[c][p] \in Nat /\ Others(c, p) \in Nat
    <2>1. loc[c].tail \in 0 .. MaxEnqueued /\ headIndex[p] \in 0 .. MaxEnqueued /\ unaccounted[c][p] \in Nat
      BY <1>0 DEF Types, Locals
    <2> HIDE DEF p
    <2>2. Others(c, p) \in Nat
      BY <1>0, CallSizes
    <2> QED BY <2>1, <2>2 DEF TryDequeueAssumption
  <1>2. LeftFor(c, p, loc[c].tail)
    BY <1>0 DEF AccountedFor
  <1>3. loc[c].tail <= headIndex[p]
    BY <1>1 DEF Less
  <1>4. unaccounted[c][p] = 0
    BY <1>1, <1>2, <1>3 DEF LeftFor
  <1>5. NothingBehind(c)
    BY <1>0 DEF SeenBy
  <1> QED BY <1>0, <1>4, <1>5 DEF NothingBehind

LEMMA LoadHeadStep ==
  ASSUME TryDequeueAssumption, ScanInv, NEW c \in Consumers, LoadHead(c)
  PROVE  ScanInv'
  <1> DEFINE l == loc[c]  p == producers[l.ptr]  size == Less(l.tail, headIndex[p])  new == Score(l, size)
  <1>0. /\ Types /\ PlacesOK(c) /\ AccountedFor(c) /\ SeenBy(c) /\ pc[c] = "load_head"
        /\ UNCHANGED <<producers, tailIndex, headIndex, calls, spare>>
        /\ l \in Locals /\ l.ptr \in 1 .. Len(producers) /\ p \in Producers
        /\ Len(producers) \in Nat /\ l.best <= Len(producers)
        /\ l.bestSize = 0 \/ l.best \in 1 .. Len(producers)
        /\ l.nonEmptyCount = 0 \/ l.best \in 1 .. Len(producers)
    BY ListFacts DEF ScanInv, LoadHead, PlacesOK
  <1>1. size \in 0 .. MaxEnqueued
    <2>1. l.tail \in 0 .. MaxEnqueued /\ headIndex[p] \in 0 .. MaxEnqueued
      BY <1>0 DEF Types, Locals
    <2> HIDE DEF l, p
    <2> QED BY <2>1 DEF Less, TryDequeueAssumption
  <1>2. l.nonEmptyCount \in 0 .. 2 /\ l.best \in Nat /\ l.bestSize \in Nat /\ l.ptr \in Nat
    BY <1>0 DEF Locals, TryDequeueAssumption
  <1>3. \/ /\ new.nonEmptyCount < 3 /\ new.ptr # 0
           /\ Go(c, "load_tail") /\ loc' = [loc EXCEPT ![c] = new] /\ UNCHANGED unaccounted
        \/ /\ new.nonEmptyCount > 0
           /\ Go(c, "try_best") /\ UNCHANGED unaccounted
           /\ loc' = [loc EXCEPT ![c] = [NoLocals EXCEPT !.best = new.best]]
        \/ Return(c) /\ Forget(c)
    BY DEF LoadHead
  <1> HIDE DEF size, new
  <1>4. /\ new.ptr = l.ptr - 1
        /\ new.nonEmptyCount = IF size > 0 THEN l.nonEmptyCount + 1 ELSE l.nonEmptyCount
        /\ new.best = IF size > l.bestSize THEN l.ptr ELSE l.best
        /\ new.bestSize = IF size > l.bestSize THEN size ELSE l.bestSize
        /\ new.nonEmptyCount < 3 => new \in Locals
    <2>1. l.ptr >= 1
      BY <1>0, <1>2
    <2> HIDE DEF l
    <2> QED BY <1>0, <1>1, <2>1, ScoreFields DEF new
  <1>5. /\ new.bestSize = 0 \/ new.best \in 1 .. Len(producers)
        /\ new.nonEmptyCount = 0 \/ new.best \in 1 .. Len(producers)
        /\ new.best \in Nat /\ new.best <= Len(producers)
    <2> HIDE DEF l
    <2> QED BY <1>0, <1>1, <1>2, <1>4 DEF TryDequeueAssumption
  <1>6. ~ Calling(c) /\ DOMAIN loc = Consumers /\ DOMAIN pc = Consumers
    BY <1>0 DEF Types, Calling
  <1>7. \A q, t : UNCHANGED unaccounted => (LeftFor(c, q, t)' <=> LeftFor(c, q, t))
    BY <1>0 DEF LeftFor, Others
  <1>8. CASE /\ new.nonEmptyCount < 3 /\ new.ptr # 0
             /\ Go(c, "load_tail") /\ loc' = [loc EXCEPT ![c] = new] /\ UNCHANGED unaccounted
    <2>1. /\ loc' \in [Consumers -> Locals] /\ \A d \in Consumers \ {c} : loc'[d] = loc[d]
          /\ loc'[c] = new
      BY <1>0, <1>4, <1>8 DEF Types
    <2>2. pc' = [pc EXCEPT ![c] = "load_tail"] /\ pc'[c] = "load_tail"
      BY <1>6, <1>8 DEF Go
    <2>3. PlacesOK(c)'
      <3>1. new.ptr \in 1 .. Len(producers)
        <4> HIDE DEF l
        <4> QED BY <1>0, <1>2, <1>4, <1>8
      <3> QED BY <1>0, <1>5, <2>1, <2>2, <3>1 DEF PlacesOK
    <2>4. AccountedFor(c)'
      BY <1>0, <1>7, <1>8, <2>2 DEF AccountedFor, Calling, Listed
    <2>5. SeenBy(c)'
      <3>1. ASSUME new.nonEmptyCount = 0 PROVE size = 0 /\ l.nonEmptyCount = 0
        <4> HIDE DEF l
        <4> QED BY <1>1, <1>2, <1>4, <3>1 DEF TryDequeueAssumption
      <3>2. ASSUME new.nonEmptyCount = 0
            PROVE  \A i \in 1 .. Len(producers) : i > l.ptr - 1 => unaccounted[c][producers[i]] = 0
        BY <1>0, <3>1, <3>2, EmptyBehind DEF size
      <3> QED BY <1>0, <1>4, <1>8, <2>1, <2>2, <3>2 DEF SeenBy, NothingBehind
    <2>6. "load_tail" \in Steps /\ "load_tail" \notin {"in_best", "in_next"}
      BY DEF Steps
    <2>7. /\ unaccounted' \in [Consumers -> [Producers -> Nat]]
          /\ \A d \in Consumers \ {c} : unaccounted'[d] = unaccounted[d]
      BY <1>0, <1>8 DEF Types
    <2> QED BY <1>0, <1>6, <2>1, <2>2, <2>3, <2>4, <2>5, <2>6, <2>7, LookStep
  <1>9. CASE /\ new.nonEmptyCount > 0
             /\ Go(c, "try_best") /\ UNCHANGED unaccounted
             /\ loc' = [loc EXCEPT ![c] = [NoLocals EXCEPT !.best = new.best]]
    <2>1. /\ loc' \in [Consumers -> Locals] /\ \A d \in Consumers \ {c} : loc'[d] = loc[d]
          /\ loc'[c].ptr = 0 /\ loc'[c].best = new.best
      <3>1. [NoLocals EXCEPT !.best = new.best] \in Locals
        BY <1>5 DEF NoLocals, Locals, TryDequeueAssumption
      <3> QED BY <1>0, <1>9, <3>1 DEF Types, NoLocals
    <2>2. pc' = [pc EXCEPT ![c] = "try_best"] /\ pc'[c] = "try_best"
      BY <1>6, <1>9 DEF Go
    <2>3. PlacesOK(c)'
      BY <1>0, <1>5, <1>9, <2>1, <2>2 DEF PlacesOK
    <2>4. AccountedFor(c)'
      BY <1>0, <1>7, <1>9, <2>2 DEF AccountedFor, Calling, Listed
    <2>5. SeenBy(c)'
      BY <2>2 DEF SeenBy
    <2>6. "try_best" \in Steps /\ "try_best" \notin {"in_best", "in_next"}
      BY DEF Steps
    <2>7. /\ unaccounted' \in [Consumers -> [Producers -> Nat]]
          /\ \A d \in Consumers \ {c} : unaccounted'[d] = unaccounted[d]
      BY <1>0, <1>9 DEF Types
    <2> QED BY <1>0, <1>6, <2>1, <2>2, <2>3, <2>4, <2>5, <2>6, <2>7, LookStep
  <1>10. CASE Return(c) /\ Forget(c)
    <2>1. /\ loc' \in [Consumers -> Locals] /\ \A d \in Consumers \ {c} : loc'[d] = loc[d]
          /\ loc'[c] = NoLocals
      <3>1. NoLocals \in Locals
        BY DEF NoLocals, Locals, TryDequeueAssumption
      <3> QED BY <1>0, <1>10, <3>1 DEF Types, Return
    <2>2. pc' = [pc EXCEPT ![c] = "idle"] /\ pc'[c] = "idle"
      BY <1>6, <1>10 DEF Return, Go
    <2>3. PlacesOK(c)'
      BY <1>0, <2>1, <2>2 DEF PlacesOK, NoLocals
    <2>4. /\ unaccounted' \in [Consumers -> [Producers -> Nat]]
          /\ \A d \in Consumers \ {c} : unaccounted'[d] = unaccounted[d]
          /\ \A q \in Producers : unaccounted'[c][q] = 0
      BY <1>0, <1>10 DEF Types, Forget, Idle
    <2>5. AccountedFor(c)' /\ SeenBy(c)'
      BY <2>2, <2>4 DEF AccountedFor, LeftFor, SeenBy, Calling
    <2>6. "idle" \in Steps /\ "idle" \notin {"in_best", "in_next"}
      BY DEF Steps
    <2> QED BY <1>0, <1>6, <2>1, <2>2, <2>3, <2>4, <2>5, <2>6, LookStep
  <1> QED BY <1>3, <1>8, <1>9, <1>10

\* A step of c that begins or ends its call on p, for the other consumers.
LEMMA OthersStay ==
  ASSUME TryDequeueAssumption, ScanInv, NEW c \in Consumers, NEW p \in Producers,
         UNCHANGED <<producers, tailIndex>>,
         \A d \in Consumers \ {c} : pc'[d] = pc[d] /\ loc'[d] = loc[d],
         \A q \in Producers \ {p} : calls'[q] = calls[q] /\ headIndex'[q] = headIndex[q],
         \A d \in Consumers \ {c} :
           /\ \A q \in Producers \ {p} : unaccounted'[d][q] = unaccounted[d][q]
           /\ unaccounted[d][p] = 0 => unaccounted'[d][p] = 0
           /\ \A t \in Nat : LeftFor(d, p, t) => LeftFor(d, p, t)'
           /\ Calling(d) => unaccounted'[d][Tried(d)] <= spare'[d],
         NEW d \in Consumers \ {c}
  PROVE  /\ PlacesOK(d)' /\ AccountedFor(d)' /\ SeenBy(d)'
         /\ Calling(d)' <=> Calling(d)
         /\ Tried(d)' = Tried(d)
  <1>0. /\ Types /\ PlacesOK(d) /\ AccountedFor(d) /\ SeenBy(d) /\ loc[d] \in Locals
        /\ Len(producers) \in Nat /\ \A i \in 1 .. Len(producers) : producers[i] \in Producers
    BY ListFacts DEF ScanInv
  <1>1. PlacesOK(d)' /\ (Calling(d)' <=> Calling(d)) /\ Tried(d)' = Tried(d) /\ Listed' = Listed
    BY <1>0 DEF PlacesOK, Calling, Tried, Listed
  <1>2. \A q \in Producers : unaccounted[d][q] = 0 => unaccounted'[d][q] = 0
    OBVIOUS
  <1>3. ASSUME NEW q \in Producers, NEW t \in Nat, LeftFor(d, q, t) PROVE LeftFor(d, q, t)'
    BY <1>3 DEF LeftFor, Others
  <1>4. AccountedFor(d)'
    <2>1. ASSUME NEW q \in Producers PROVE LeftFor(d, q, tailIndex[q])'
      <3>1. LeftFor(d, q, tailIndex[q]) /\ tailIndex[q] \in Nat
        BY <1>0 DEF AccountedFor, Types, TryDequeueAssumption
      <3>2. PICK t \in Nat : t = tailIndex[q]
        BY <3>1
      <3>3. LeftFor(d, q, t)'
        BY <1>3, <3>1, <3>2
      <3>4. t = tailIndex'[q]
        BY <3>2
      <3> QED BY <3>3, <3>4 DEF LeftFor
    <2>2. ASSUME pc'[d] = "load_head" PROVE LeftFor(d, producers[loc[d].ptr], loc[d].tail)'
      <3>1. /\ pc[d] = "load_head" /\ loc'[d] = loc[d] /\ producers[loc[d].ptr] \in Producers
            /\ loc[d].tail \in Nat /\ LeftFor(d, producers[loc[d].ptr], loc[d].tail)
        BY <1>0, <2>2 DEF AccountedFor, PlacesOK, Locals, TryDequeueAssumption
      <3>2. PICK q \in Producers : q = producers[loc[d].ptr]
        BY <3>1
      <3>3. PICK t \in Nat : t = loc[d].tail
        BY <3>1
      <3>4. LeftFor(d, q, t)'
        BY <1>3, <3>1, <3>2, <3>3
      <3>5. q = producers'[loc'[d].ptr] /\ t = loc'[d].tail
        BY <3>1, <3>2, <3>3
      <3> QED BY <3>4, <3>5 DEF LeftFor, Others
    <2>3. \A q \in Producers \ Listed' : unaccounted'[d][q] = 0
      BY <1>0, <1>1, <1>2 DEF AccountedFor
    <2>4. Calling(d)' => unaccounted'[d][Tried(d)'] <= spare'[d]
      BY <1>1
    <2> QED BY <2>1, <2>2, <2>3, <2>4 DEF AccountedFor
  <1>5. SeenBy(d)'
    BY <1>0, <1>2 DEF SeenBy, NothingBehind, PlacesOK
  <1> QED BY <1>1, <1>4, <1>5

LEMMA TryStep ==
  ASSUME TryDequeueAssumption, ScanInv, NEW c \in Consumers, Try(c)
  PROVE  ScanInv'
  <1>1. PICK p \in Producers : p = Tried(c)
    BY TriedFacts DEF Try
  <1>2. /\ Types /\ ListOK /\ CallsOK /\ PlacesOK(c) /\ AccountedFor(c) /\ SeenBy(c)
        /\ pc[c] \in {"try_best", "try_next"}
        /\ UNCHANGED <<producers, tailIndex, headIndex, loc>>
    BY DEF ScanInv, Try
  <1>3. /\ calls' = [calls EXCEPT ![p] = @ \cup {c}]
        /\ spare' = [d \in Consumers |->
                       IF d = c THEN Less(Size(p), Cardinality(calls[p]))
                       ELSE IF d \in calls[p] THEN Less(spare[d], 1) ELSE spare[d]]
        /\ unaccounted' = [d \in Consumers |-> IF d = c THEN unaccounted[d]
                                                ELSE [unaccounted[d] EXCEPT ![p] = Less(@, 1)]]
        /\ pc' = [pc EXCEPT ![c] = IF pc[c] = "try_best" THEN "in_best" ELSE "in_next"]
    BY <1>1 DEF Try, Go
  <1>4. c \notin calls[p] /\ calls[p] \in SUBSET Consumers
    BY <1>2 DEF CallsOK, Calling
  <1>5. /\ tailIndex[p] \in Nat /\ headIndex[p] \in Nat /\ headIndex[p] <= tailIndex[p]
        /\ Cardinality(calls[p]) \in Nat
        /\ Size(p) = tailIndex[p] - headIndex[p]
    <2>1. tailIndex[p] \in Nat /\ headIndex[p] \in Nat /\ headIndex[p] <= tailIndex[p]
      BY <1>2 DEF Types, ListOK, TryDequeueAssumption
    <2>2. Cardinality(calls[p]) \in Nat
      BY <1>2, CallSizes
    <2> QED BY <2>1, <2>2 DEF Size, Less
  <1>6. Types'
    <2>1. calls' \in [Producers -> SUBSET Consumers]
      BY <1>2, <1>3 DEF Types
    <2>2. \A d \in Consumers : spare'[d] \in Nat
      BY <1>2, <1>3, <1>5 DEF Types, Less
    <2>3. spare' \in [Consumers -> Nat]
      BY <1>3, <2>2
    <2>4. \A d \in Consumers : unaccounted'[d] \in [Producers -> Nat]
      BY <1>2, <1>3 DEF Types, Less
    <2>5. unaccounted' \in [Consumers -> [Producers -> Nat]]
      BY <1>3, <2>4
    <2>6. pc' \in [Consumers -> Steps]
      BY <1>2, <1>3 DEF Types, Steps
    <2> QED BY <1>2, <2>1, <2>3, <2>5, <2>6 DEF Types
  <1>7. ListOK'
    BY <1>2 DEF ListOK, Listed
  <1>8. \A q \in Producers : calls'[q] = IF q = p THEN calls[p] \cup {c} ELSE calls[q]
    BY <1>2, <1>3 DEF Types
  <1>9. ASSUME NEW d \in Consumers \ {c}
        PROVE  /\ \A q \in Producers \ {p} : unaccounted'[d][q] = unaccounted[d][q]
               /\ unaccounted[d][p] = 0 => unaccounted'[d][p] = 0
               /\ \A t \in Nat : LeftFor(d, p, t) => LeftFor(d, p, t)'
               /\ Calling(d) => unaccounted'[d][Tried(d)] <= spare'[d]
    <2>1. /\ unaccounted'[d] = [unaccounted[d] EXCEPT ![p] = Less(@, 1)]
          /\ unaccounted[d] \in [Producers -> Nat] /\ spare[d] \in Nat
      BY <1>2, <1>3 DEF Types
    <2>2. /\ \A q \in Producers \ {p} : unaccounted'[d][q] = unaccounted[d][q]
          /\ unaccounted'[d][p] = Less(unaccounted[d][p], 1) /\ unaccounted[d][p] \in Nat
      BY <2>1
    <2>3. unaccounted'[d][p] = IF unaccounted[d][p] = 0 THEN 0 ELSE unaccounted[d][p] - 1
      BY <2>2 DEF Less
    <2>4. Others(d, p)' = Others(d, p) + 1 /\ Others(d, p) \in Nat
      <3>1. IsFiniteSet(calls[p] \ {d}) /\ Others(d, p) \in Nat
        BY <1>2, CallSizes
      <3>2. c \notin calls[p] \ {d} /\ calls'[p] \ {d} = (calls[p] \ {d}) \cup {c}
        BY <1>4, <1>8
      <3>3. Cardinality((calls[p] \ {d}) \cup {c}) = Cardinality(calls[p] \ {d}) + 1
        BY <3>1, <3>2, FS_AddElement
      <3> QED BY <3>1, <3>2, <3>3 DEF Others
    <2>5. ASSUME NEW t \in Nat, LeftFor(d, p, t) PROVE LeftFor(d, p, t)'
      <3>1. headIndex' = headIndex
        BY <1>2
      <3> QED BY <1>5, <2>2, <2>3, <2>4, <2>5, <3>1 DEF LeftFor
    <2>6. ASSUME Calling(d) PROVE unaccounted'[d][Tried(d)] <= spare'[d]
      <3>1. unaccounted[d][Tried(d)] <= spare[d] /\ Tried(d) \in Producers
        BY <2>6, TriedFacts DEF ScanInv, AccountedFor, Calling
      <3>2. CASE Tried(d) = p
        <4>1. d \in calls[p]
          BY <1>2, <2>6, <3>2 DEF CallsOK
        <4>2. spare'[d] = Less(spare[d], 1)
          BY <1>3, <4>1
        <4>3. spare'[d] = IF spare[d] = 0 THEN 0 ELSE spare[d] - 1
          BY <2>1, <4>2 DEF Less
        <4> QED BY <2>1, <2>2, <2>3, <3>1, <3>2, <4>3
      <3>3. CASE Tried(d) # p
        <4>1. d \notin calls[p]
          BY <1>2, <3>3 DEF CallsOK
        <4>2. spare'[d] = spare[d]
          BY <1>3, <4>1
        <4> QED BY <2>2, <3>1, <3>3, <4>2
      <3> QED BY <3>2, <3>3
    <2> QED BY <2>2, <2>3, <2>5, <2>6
  <1>10. /\ \A d \in Consumers \ {c} : pc'[d] = pc[d] /\ loc'[d] = loc[d]
         /\ \A q \in Producers \ {p} : calls'[q] = calls[q] /\ headIndex'[q] = headIndex[q]
    BY <1>2, <1>3, <1>8 DEF Types
  <1>11. \A d \in Consumers \ {c} :
           /\ PlacesOK(d)' /\ AccountedFor(d)' /\ SeenBy(d)'
           /\ Calling(d)' <=> Calling(d)
           /\ Tried(d)' = Tried(d)
    BY <1>2, <1>9, <1>10, OthersStay
  <1>12. /\ pc'[c] \in {"in_best", "in_next"} /\ Tried(c)' = p
         /\ pc'[c] = "in_next" <=> pc[c] = "try_next"
    BY <1>1, <1>2, <1>3 DEF Types, Tried
  <1>13. CallsOK'
    <2>1. ASSUME NEW q \in Producers
          PROVE  {d \in Consumers : Calling(d)' /\ Tried(d)' = q} =
                   IF q = p THEN {d \in Consumers : Calling(d) /\ Tried(d) = q} \cup {c}
                   ELSE {d \in Consumers : Calling(d) /\ Tried(d) = q}
      BY <1>1, <1>2, <1>11, <1>12 DEF Calling
    <2> QED BY <1>2, <1>8, <2>1 DEF CallsOK
  <1>14. PlacesOK(c)'
    BY <1>2, <1>12 DEF PlacesOK
  <1>15. unaccounted'[c] = unaccounted[c]
    BY <1>3
  <1>16. \A q \in Producers : Others(c, q)' = Others(c, q)
    BY <1>8 DEF Others
  <1>17. AccountedFor(c)'
    <2>1. \A q \in Producers : LeftFor(c, q, tailIndex[q])'
      BY <1>2, <1>15, <1>16 DEF AccountedFor, LeftFor
    <2>2. \A q \in Producers \ Listed' : unaccounted'[c][q] = 0
      BY <1>2, <1>15 DEF AccountedFor, Listed
    <2>3. unaccounted'[c][p] <= spare'[c]
      <3>1. LeftFor(c, p, tailIndex[p]) /\ unaccounted[c][p] \in Nat
        BY <1>2 DEF AccountedFor, Types
      <3>2. Others(c, p) = Cardinality(calls[p])
        <4>1. calls[p] \ {c} = calls[p]
          BY <1>4
        <4> QED BY <4>1 DEF Others
      <3>3. spare'[c] = Less(Size(p), Cardinality(calls[p]))
        BY <1>3
      <3> QED BY <1>5, <1>15, <3>1, <3>2, <3>3 DEF LeftFor, Less
    <2> QED BY <1>12, <2>1, <2>2, <2>3 DEF AccountedFor
  <1>18. SeenBy(c)'
    BY <1>2, <1>12, <1>15 DEF SeenBy, NothingBehind
  <1> QED BY <1>6, <1>7, <1>11, <1>13, <1>14, <1>17, <1>18 DEF ScanInv

\* The call of c on p ends, with an element or not.
LEMMA EndStep ==
  ASSUME TryDequeueAssumption, ScanInv, NEW c \in Consumers, Calling(c),
         NEW p \in Producers, p = Tried(c),
         UNCHANGED <<producers, tailIndex>>, calls' = [calls EXCEPT ![p] = @ \ {c}],
         \/ headIndex' = headIndex
         \/ Size(p) > 0 /\ headIndex' = [headIndex EXCEPT ![p] = @ + 1],
         NEW w \in Steps, pc' = [pc EXCEPT ![c] = w], w \notin {"in_best", "in_next"},
         loc' \in [Consumers -> Locals], \A d \in Consumers \ {c} : loc'[d] = loc[d],
         spare' \in [Consumers -> Nat], \A d \in Consumers \ {c} : spare'[d] = spare[d],
         unaccounted' \in [Consumers -> [Producers -> Nat]],
         \A d \in Consumers \ {c} : unaccounted'[d] = unaccounted[d],
         PlacesOK(c)', AccountedFor(c)', SeenBy(c)'
  PROVE  ScanInv'
  <1>1. Types /\ ListOK /\ CallsOK
    BY DEF ScanInv
  <1>2. /\ tailIndex[p] \in 0 .. MaxEnqueued /\ headIndex[p] \in 0 .. MaxEnqueued
        /\ headIndex[p] <= tailIndex[p] /\ MaxEnqueued \in Nat
        /\ headIndex \in [Producers -> 0 .. MaxEnqueued]
    BY <1>1 DEF Types, ListOK, TryDequeueAssumption
  <1>3. /\ headIndex' \in [Producers -> 0 .. MaxEnqueued]
        /\ headIndex'[p] <= tailIndex[p] /\ headIndex'[p] <= headIndex[p] + 1
        /\ \A q \in Producers \ {p} : headIndex'[q] = headIndex[q]
    <2>1. CASE headIndex' = headIndex
      BY <1>2, <2>1
    <2>2. CASE Size(p) > 0 /\ headIndex' = [headIndex EXCEPT ![p] = @ + 1]
      <3>1. headIndex[p] < tailIndex[p]
        BY <1>2, <2>2 DEF Size, Less
      <3>2. headIndex[p] + 1 \in 0 .. MaxEnqueued
        BY <1>2, <3>1
      <3> QED BY <1>2, <2>2, <3>1, <3>2
    <2> QED BY <2>1, <2>2
  <1>4. calls' \in [Producers -> SUBSET Consumers] /\ pc' \in [Consumers -> Steps]
    BY <1>1 DEF Types
  <1>5. Types'
    BY <1>1, <1>3, <1>4 DEF Types
  <1>6. ListOK'
    <2>1. \A q \in Producers : headIndex'[q] <= tailIndex[q]
      BY <1>1, <1>3 DEF ListOK
    <2> QED BY <1>1, <2>1 DEF ListOK, Listed
  <1>7. \A q \in Producers : calls'[q] = IF q = p THEN calls[p] \ {c} ELSE calls[q]
    BY <1>1 DEF Types
  <1>8. c \in calls[p] /\ IsFiniteSet(calls[p])
    BY <1>1, CallSizes DEF CallsOK
  <1>9. ASSUME NEW d \in Consumers \ {c}
        PROVE  /\ \A q \in Producers \ {p} : unaccounted'[d][q] = unaccounted[d][q]
               /\ unaccounted[d][p] = 0 => unaccounted'[d][p] = 0
               /\ \A t \in Nat : LeftFor(d, p, t) => LeftFor(d, p, t)'
               /\ Calling(d) => unaccounted'[d][Tried(d)] <= spare'[d]
    <2>1. unaccounted'[d] = unaccounted[d] /\ spare'[d] = spare[d] /\ unaccounted[d][p] \in Nat
      BY <1>1 DEF Types
    <2>2. Others(d, p)' = Others(d, p) - 1 /\ Others(d, p) \in Nat
      <3>1. IsFiniteSet(calls[p] \ {d}) /\ Others(d, p) \in Nat
        BY <1>1, CallSizes
      <3>2. c \in calls[p] \ {d} /\ calls'[p] \ {d} = (calls[p] \ {d}) \ {c}
        BY <1>7, <1>8
      <3>3. Cardinality((calls[p] \ {d}) \ {c}) = Cardinality(calls[p] \ {d}) - 1
        BY <3>1, <3>2, FS_RemoveElement
      <3> QED BY <3>1, <3>2, <3>3 DEF Others
    <2>3. ASSUME NEW t \in Nat, LeftFor(d, p, t) PROVE LeftFor(d, p, t)'
      <3>1. headIndex[p] \in Nat /\ headIndex'[p] \in Nat /\ headIndex'[p] <= headIndex[p] + 1
        BY <1>2, <1>3
      <3> QED BY <2>1, <2>2, <2>3, <3>1 DEF LeftFor
    <2>4. Calling(d) => unaccounted'[d][Tried(d)] <= spare'[d]
      BY <2>1 DEF ScanInv, AccountedFor
    <2> QED BY <2>1, <2>3, <2>4
  <1>10. /\ \A d \in Consumers \ {c} : pc'[d] = pc[d] /\ loc'[d] = loc[d]
         /\ \A q \in Producers \ {p} : calls'[q] = calls[q] /\ headIndex'[q] = headIndex[q]
    BY <1>1, <1>3, <1>7 DEF Types
  <1>11. \A d \in Consumers \ {c} :
           /\ PlacesOK(d)' /\ AccountedFor(d)' /\ SeenBy(d)'
           /\ Calling(d)' <=> Calling(d)
           /\ Tried(d)' = Tried(d)
    BY <1>9, <1>10, OthersStay
  <1>12. ~ (Calling(c)')
    BY <1>1 DEF Types, Calling
  <1>13. CallsOK'
    <2>1. ASSUME NEW q \in Producers
          PROVE  {d \in Consumers : Calling(d)' /\ Tried(d)' = q} =
                   IF q = p THEN {d \in Consumers : Calling(d) /\ Tried(d) = q} \ {c}
                   ELSE {d \in Consumers : Calling(d) /\ Tried(d) = q}
      BY <1>11, <1>12
    <2> QED BY <1>1, <1>7, <2>1 DEF CallsOK
  <1> QED BY <1>5, <1>6, <1>11, <1>13 DEF ScanInv

\* c is done.
LEMMA ReturnFacts ==
  ASSUME TryDequeueAssumption, Types, NEW c \in Consumers, Return(c), Forget(c),
         UNCHANGED <<producers, tailIndex>>
  PROVE  /\ loc' \in [Consumers -> Locals] /\ \A d \in Consumers \ {c} : loc'[d] = loc[d]
         /\ unaccounted' \in [Consumers -> [Producers -> Nat]]
         /\ \A d \in Consumers \ {c} : unaccounted'[d] = unaccounted[d]
         /\ pc' = [pc EXCEPT ![c] = "idle"]
         /\ PlacesOK(c)' /\ AccountedFor(c)' /\ SeenBy(c)'
  <1>1. /\ loc' \in [Consumers -> Locals] /\ \A d \in Consumers \ {c} : loc'[d] = loc[d]
        /\ loc'[c] = NoLocals
    <2>1. NoLocals \in Locals
      BY DEF NoLocals, Locals, TryDequeueAssumption
    <2> QED BY <2>1 DEF Types, Return
  <1>2. pc' = [pc EXCEPT ![c] = "idle"] /\ pc'[c] = "idle"
    BY DEF Types, Return, Go
  <1>3. /\ unaccounted' \in [Consumers -> [Producers -> Nat]]
        /\ \A d \in Consumers \ {c} : unaccounted'[d] = unaccounted[d]
        /\ \A q \in Producers : unaccounted'[c][q] = 0
    BY DEF Types, Forget, Idle
  <1>4. PlacesOK(c)'
    BY <1>1, <1>2, ListFacts DEF PlacesOK, NoLocals
  <1>5. AccountedFor(c)' /\ SeenBy(c)'
    BY <1>2, <1>3 DEF AccountedFor, LeftFor, SeenBy, Calling
  <1> QED BY <1>1, <1>2, <1>3, <1>4, <1>5

LEMMA TakeStep ==
  ASSUME TryDequeueAssumption, ScanInv, NEW c \in Consumers, Take(c)
  PROVE  ScanInv'
  <1>1. PICK p \in Producers : p = Tried(c)
    BY TriedFacts DEF Take
  <1>2. /\ Calling(c) /\ Size(p) > 0 /\ Return(c) /\ Forget(c) /\ Types
        /\ UNCHANGED <<producers, tailIndex>> /\ calls' = [calls EXCEPT ![p] = @ \ {c}]
        /\ headIndex' = [headIndex EXCEPT ![p] = @ + 1]
    BY <1>1 DEF Take, Calling, ScanInv
  <1>3. spare' \in [Consumers -> Nat] /\ \A d \in Consumers \ {c} : spare'[d] = spare[d]
    BY <1>2 DEF Take, Types
  <1>4. "idle" \in Steps /\ "idle" \notin {"in_best", "in_next"}
    BY DEF Steps
  <1> QED BY <1>1, <1>2, <1>3, <1>4, ReturnFacts, EndStep

\* Where c goes on when p has nothing for it, and what it has seen by then.
LEMMA MissFacts ==
  ASSUME TryDequeueAssumption, ScanInv, NEW c \in Consumers, Miss(c),
         NEW i, i = Next_prod(c, IF pc[c] = "in_best" THEN Len(producers) ELSE loc[c].ptr - 1)
  PROVE  /\ i \in 0 .. Len(producers)
         /\ \A j \in 1 .. Len(producers) : j > i => unaccounted[c][producers[j]] = 0
         /\ unaccounted[c][producers[loc[c].best]] = 0
         /\ loc[c].best \in 1 .. Len(producers) /\ Len(producers) \in Nat
  <1>1. /\ Types /\ PlacesOK(c) /\ AccountedFor(c) /\ SeenBy(c) /\ loc[c] \in Locals
        /\ Len(producers) \in Nat /\ Calling(c) /\ spare[c] = 0
        /\ Tried(c) \in Producers
    BY ListFacts, TriedFacts DEF ScanInv, Miss, Calling
  <1>2. unaccounted[c][Tried(c)] = 0
    BY <1>1 DEF AccountedFor, Types
  <1>3. CASE pc[c] = "in_best"
    <2>1. loc[c].best \in 1 .. Len(producers) /\ Tried(c) = producers[loc[c].best]
      BY <1>1, <1>3 DEF PlacesOK, Tried
    <2>2. i = IF Len(producers) = loc[c].best THEN Len(producers) - 1 ELSE Len(producers)
      BY <1>3 DEF Next_prod
    <2> QED BY <1>1, <1>2, <2>1, <2>2
  <1>4. CASE pc[c] = "in_next"
    <2>1. /\ loc[c].best \in 1 .. Len(producers) /\ loc[c].ptr \in 1 .. Len(producers)
          /\ Tried(c) = producers[loc[c].ptr]
          /\ NothingBehind(c) /\ unaccounted[c][producers[loc[c].best]] = 0
      BY <1>1, <1>4 DEF PlacesOK, Tried, SeenBy
    <2>2. i = IF loc[c].ptr - 1 = loc[c].best THEN loc[c].ptr - 2 ELSE loc[c].ptr - 1
      <3>1. i = Next_prod(c, loc[c].ptr - 1)
        BY <1>4
      <3> QED BY <2>1, <3>1 DEF Next_prod
    <2>3. i \in 0 .. Len(producers)
      BY <1>1, <2>1, <2>2
    <2>4. ASSUME NEW j \in 1 .. Len(producers), j > i PROVE unaccounted[c][producers[j]] = 0
      <3>1. j = loc[c].best \/ j = loc[c].ptr \/ j > loc[c].ptr
        <4>1. PICK x \in Int, b \in Int, n \in Int : x = loc[c].ptr /\ b = loc[c].best /\ n = Len(producers)
          BY <1>1, <2>1
        <4>2. j \in Int /\ i = IF x - 1 = b THEN x - 2 ELSE x - 1
          BY <1>1, <2>2, <4>1
        <4>3. j = b \/ j = x \/ j > x
          BY <2>4, <4>2
        <4> QED BY <4>1, <4>3
      <3> QED BY <1>2, <2>1, <3>1 DEF NothingBehind
    <2> QED BY <1>1, <2>1, <2>3, <2>4
  <1> QED BY <1>1, <1>3, <1>4 DEF Calling

LEMMA MissStep ==
  ASSUME TryDequeueAssumption, ScanInv, NEW c \in Consumers, Miss(c)
  PROVE  ScanInv'
  <1> DEFINE i == Next_prod(c, IF pc[c] = "in_best" THEN Len(producers) ELSE loc[c].ptr - 1)
  <1>1. PICK p \in Producers : p = Tried(c)
    BY TriedFacts DEF Miss
  <1>2. /\ Calling(c) /\ Types /\ AccountedFor(c) /\ spare[c] = 0 /\ PlacesOK(c)
        /\ UNCHANGED <<producers, tailIndex, headIndex, spare>> /\ calls' = [calls EXCEPT ![p] = @ \ {c}]
        /\ IF i = 0 THEN Return(c) /\ Forget(c)
           ELSE /\ Go(c, "try_next") /\ loc' = [loc EXCEPT ![c].ptr = i]
                /\ UNCHANGED unaccounted
    BY <1>1 DEF Miss, Calling, ScanInv
  <1>3. /\ i \in 0 .. Len(producers)
        /\ \A j \in 1 .. Len(producers) : j > i => unaccounted[c][producers[j]] = 0
        /\ unaccounted[c][producers[loc[c].best]] = 0
        /\ loc[c].best \in 1 .. Len(producers) /\ Len(producers) \in Nat
    BY MissFacts
  <1> HIDE DEF i
  <1>4. spare' \in [Consumers -> Nat] /\ \A d \in Consumers \ {c} : spare'[d] = spare[d]
    BY <1>2 DEF Types
  <1>5. CASE i = 0
    <2>1. "idle" \in Steps /\ "idle" \notin {"in_best", "in_next"}
      BY DEF Steps
    <2> QED BY <1>1, <1>2, <1>4, <1>5, <2>1, ReturnFacts, EndStep
  <1>6. CASE i # 0
    <2>1. "try_next" \in Steps /\ "try_next" \notin {"in_best", "in_next"}
      BY DEF Steps
    <2>2. /\ loc' \in [Consumers -> Locals] /\ \A d \in Consumers \ {c} : loc'[d] = loc[d]
          /\ loc'[c].ptr = i /\ loc'[c].best = loc[c].best
      <3>1. loc \in [Consumers -> Locals] /\ i \in Nat /\ loc' = [loc EXCEPT ![c].ptr = i]
        <4>1. loc \in [Consumers -> Locals]
          BY <1>2 DEF Types
        <4>2. i \in Nat
          BY <1>3
        <4>3. loc' = [loc EXCEPT ![c].ptr = i]
          BY <1>2, <1>6, Zenon
        <4> QED BY <4>1, <4>2, <4>3, Zenon
      <3>2. PICK l \in Locals : l = loc[c]
        BY <3>1
      <3>3. [l EXCEPT !.ptr = i] \in Locals /\ [l EXCEPT !.ptr = i].ptr = i /\ [l EXCEPT !.ptr = i].best = l.best
        BY <3>1 DEF Locals
      <3>4. loc' = [loc EXCEPT ![c] = [l EXCEPT !.ptr = i]]
        BY <3>1, <3>2
      <3> QED BY <3>1, <3>2, <3>3, <3>4
    <2>3. /\ unaccounted' = unaccounted /\ unaccounted' \in [Consumers -> [Producers -> Nat]]
          /\ pc' = [pc EXCEPT ![c] = "try_next"] /\ pc'[c] = "try_next"
      BY <1>2, <1>6 DEF Go, Types
    <2>4. PlacesOK(c)'
      BY <1>2, <1>3, <1>6, <2>2, <2>3 DEF PlacesOK
    <2>5. AccountedFor(c)'
      <3>1. \A q \in Producers : Others(c, q)' = Others(c, q)
        BY <1>2 DEF Others, Types
      <3>2. \A q \in Producers : LeftFor(c, q, tailIndex[q])'
        BY <1>2, <2>3, <3>1 DEF AccountedFor, LeftFor
      <3> QED BY <1>2, <2>3, <3>2 DEF AccountedFor, Calling, Listed
    <2>6. SeenBy(c)'
      BY <1>2, <1>3, <2>2, <2>3 DEF SeenBy, NothingBehind
    <2> QED BY <1>1, <1>2, <1>4, <2>1, <2>2, <2>3, <2>4, <2>5, <2>6, EndStep
  <1> QED BY <1>5, <1>6

LEMMA NextScanInv ==
  ASSUME TryDequeueAssumption, ScanInv, [Next]_vars
  PROVE  ScanInv'
  <1>1. CASE UNCHANGED vars
    <2>1. /\ producers' = producers /\ tailIndex' = tailIndex /\ headIndex' = headIndex /\ pc' = pc
          /\ loc' = loc /\ calls' = calls /\ spare' = spare /\ unaccounted' = unaccounted
      BY <1>1 DEF vars
    <2>2. Types' /\ ListOK'
      BY <2>1 DEF ScanInv, Types, ListOK, Listed
    <2>3. CallsOK'
      BY <2>1 DEF ScanInv, CallsOK, Calling, Tried
    <2>4. ASSUME NEW c \in Consumers PROVE PlacesOK(c)' /\ AccountedFor(c)' /\ SeenBy(c)'
      <3>1. PlacesOK(c) /\ AccountedFor(c) /\ SeenBy(c)
        BY DEF ScanInv
      <3>2. PlacesOK(c)' /\ SeenBy(c)'
        BY <2>1, <3>1 DEF PlacesOK, SeenBy, NothingBehind
      <3>3. \A q, t : LeftFor(c, q, t)' <=> LeftFor(c, q, t)
        BY <2>1 DEF LeftFor, Others
      <3> QED BY <2>1, <3>1, <3>2, <3>3 DEF AccountedFor, Listed, Calling, Tried
    <2> QED BY <2>2, <2>3, <2>4 DEF ScanInv
  <1>2. ASSUME NEW c \in Consumers, Consume(c) PROVE ScanInv'
    BY <1>2, CallStep, LoadTailStep, LoadHeadStep, TryStep, TakeStep, MissStep DEF Consume
  <1>3. ASSUME NEW p \in Producers, AddProducer(p) \/ Enqueue(p) PROVE ScanInv'
    BY <1>3, AddStep, EnqueueStep
  <1> QED BY <1>1, <1>2, <1>3 DEF Next

----------------------------------------------------------------------------
(* What follows. *)

\* Positions are no more than there are producers.
LEMMA ScanTypes ==
  ASSUME TryDequeueAssumption, ScanInv
  PROVE  TypeOK
  <1> DEFINE n == Len(producers)
  <1>1. /\ Types /\ ListOK /\ n \in Nat /\ \A i \in 1 .. n : producers[i] \in Producers
    BY ListFacts DEF ScanInv
  <1>2. n <= Cardinality(Producers)
    <2> DEFINE f == [i \in 1 .. n |-> producers[i]]
    <2>1. f \in Injection(1 .. n, Producers)
      BY <1>1 DEF ListOK, Injection, IsInjective
    <2>2. Cardinality(1 .. n) <= Cardinality(Producers)
      BY <2>1, FS_Injection DEF TryDequeueAssumption
    <2>3. Cardinality(1 .. n) = n
      <3> HIDE DEF n
      <3>1. CASE n >= 1
        BY <1>1, <3>1, FS_Interval
      <3>2. CASE n = 0
        <4>1. 1 .. n = {}
          BY <3>2
        <4> QED BY <3>2, <4>1, FS_EmptySet
      <3> QED BY <1>1, <3>1, <3>2
    <2> QED BY <2>2, <2>3
  <1>3. Cardinality(Producers) \in Nat
    BY FS_CardinalityType DEF TryDequeueAssumption
  <1>4. ASSUME NEW c \in Consumers
        PROVE  loc[c] \in [ptr : Positions, tail : 0 .. MaxEnqueued, nonEmptyCount : 0 .. 2,
                           best : Positions, bestSize : 0 .. MaxEnqueued]
    <2>1. loc[c] \in Locals /\ loc[c].ptr <= n /\ loc[c].best <= n
      BY <1>1, ListFacts DEF ScanInv, PlacesOK
    <2>2. loc[c].ptr \in Positions /\ loc[c].best \in Positions
      BY <1>1, <1>2, <1>3, <2>1 DEF Positions, Locals
    <2> QED BY <2>1, <2>2 DEF Locals
  <1> QED BY <1>1, <1>4 DEF Types, TypeOK, Steps

\* The last step of a try_dequeue that found nothing.
LEMMA FalseStep ==
  ASSUME TryDequeueAssumption, ScanInv, [Next]_vars, NEW c \in Consumers, ReturnsFalse(c),
         NEW p \in Producers
  PROVE  unaccounted[c][p] = 0
  <1>1. Types /\ AccountedFor(c) /\ PlacesOK(c) /\ loc[c] \in Locals
    BY ListFacts DEF ScanInv
  <1>2. pc'[c] = "idle" /\ pc[c] # "idle" /\ headIndex' = headIndex
    BY DEF ReturnsFalse
  <1>3. SUFFICES ASSUME p \in Listed PROVE unaccounted[c][p] = 0
    BY <1>1 DEF AccountedFor
  <1>4. PICK j \in 1 .. Len(producers) : p = producers[j]
    BY <1>3 DEF Listed
  <1>5. Len(producers) \in Nat
    BY <1>1, ListFacts
  <1>6. PICK d \in Consumers : Consume(d)
    BY <1>2 DEF Next, AddProducer, Enqueue, vars
  <1>7. d = c
    BY <1>1, <1>2, <1>6 DEF Types, Consume, Call, LoadTail, LoadHead, Try, Take, Miss, Go, Return
  <1>8. LoadHead(c) \/ Miss(c)
    <2>1. ~ Take(c)
      <3>1. SUFFICES ASSUME Take(c) PROVE FALSE
        OBVIOUS
      <3>2. Tried(c) \in Producers
        BY <3>1, TriedFacts DEF Take
      <3>3. headIndex'[Tried(c)] = headIndex[Tried(c)] + 1 /\ headIndex[Tried(c)] \in Int
        BY <1>1, <3>1, <3>2 DEF Take, Types
      <3> QED BY <1>2, <3>3
    <2> QED BY <1>1, <1>2, <1>6, <1>7, <2>1 DEF Types, Consume, Call, LoadTail, Try, Go
  <1>9. CASE LoadHead(c)
    <2> DEFINE l == loc[c]  size == Less(l.tail, headIndex[producers[l.ptr]])
    <2>1. Score(l, size).ptr = 0 /\ Score(l, size).nonEmptyCount = 0
      BY <1>1, <1>2, <1>9 DEF LoadHead, Go, Types
    <2>2. /\ l.ptr \in 1 .. Len(producers) /\ l.nonEmptyCount \in Nat
          /\ size \in 0 .. MaxEnqueued
      <3>1. l.ptr \in 1 .. Len(producers) /\ l.tail \in 0 .. MaxEnqueued /\ l.nonEmptyCount \in Nat
        BY <1>1, <1>9 DEF LoadHead, PlacesOK, Locals
      <3>2. headIndex[producers[l.ptr]] \in 0 .. MaxEnqueued
        BY <1>1, <3>1, ListFacts DEF Types
      <3> HIDE DEF l
      <3> QED BY <3>1, <3>2 DEF Less, TryDequeueAssumption
    <2>3. size = 0 /\ l.nonEmptyCount = 0 /\ l.ptr = 1
      <3> HIDE DEF size
      <3>1. /\ Score(l, size).ptr = l.ptr - 1
            /\ Score(l, size).nonEmptyCount = IF size > 0 THEN l.nonEmptyCount + 1 ELSE l.nonEmptyCount
        BY <1>1, <2>2, ScoreFields
      <3> HIDE DEF l
      <3> QED BY <1>5, <2>1, <2>2, <3>1 DEF TryDequeueAssumption
    <2>4. unaccounted[c][producers[j]] = 0
      BY <1>5, <1>9, <2>3, EmptyBehind DEF LoadHead
    <2> QED BY <1>4, <2>4
  <1>10. CASE Miss(c)
    <2> DEFINE i == Next_prod(c, IF pc[c] = "in_best" THEN Len(producers) ELSE loc[c].ptr - 1)
    <2>1. i = 0
      BY <1>1, <1>2, <1>10 DEF Miss, Go, Types
    <2>2. \A k \in 1 .. Len(producers) : k > i => unaccounted[c][producers[k]] = 0
      BY <1>10, MissFacts
    <2> QED BY <1>4, <1>5, <2>1, <2>2
  <1> QED BY <1>8, <1>9, <1>10

LEMMA ScanInvariant ==
  ASSUME TryDequeueAssumption
  PROVE  Spec => []ScanInv
  <1>1. Init => ScanInv
    BY InitScanInv
  <1>2. ScanInv /\ [Next]_vars => ScanInv'
    BY NextScanInv
  <1> QED BY <1>1, <1>2, PTL DEF Spec

(* Type correctness: try_dequeue uses no position outside the list, and    *)
(* never counts more than two producers that are not empty and goes on.    *)
THEOREM PositionsStayInList ==
  ASSUME TryDequeueAssumption
  PROVE  Spec => []TypeOK
  <1>1. ScanInv => TypeOK
    BY ScanTypes
  <1> QED BY <1>1, ScanInvariant, PTL

(* "Returns false if all producer streams appeared empty at the time they  *)
(* were checked": for any number of consumers and producers, no producer   *)
(* that had more elements when try_dequeue began than others made calls on *)
(* it meanwhile is overlooked, whatever is added and enqueued.             *)
THEOREM NoneIsOverlooked ==
  ASSUME TryDequeueAssumption
  PROVE  Spec => NothingOverlooked
  <1>1. ScanInv /\ [Next]_vars =>
          [\A c \in Consumers : ReturnsFalse(c) => \A p \in Producers : unaccounted[c][p] = 0]_vars
    BY FalseStep
  <1> QED BY <1>1, ScanInvariant, PTL DEF Spec, NothingOverlooked
=============================================================================
