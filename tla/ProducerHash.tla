---------------------------- MODULE ProducerHash ----------------------------
(***************************************************************************)
(* How a thread that enqueues without a token finds its own producer: a    *)
(* hash table from thread ids to producers, without locks but for its      *)
(* growth.  A new table does not copy the old one; a thread that is found  *)
(* in an old table adds itself to the current one.  Producers are never    *)
(* given up in this build, which does not notice that a thread exits.      *)
(* One step is one access to shared memory.                                *)
(***************************************************************************)
EXTENDS Integers, Sequences, FiniteSets

CONSTANTS
  Threads,
  Producers,
  HashedId,      \* hash_thread_id, per thread
  INITIAL_IMPLICIT_PRODUCER_HASH_SIZE,
  invalid_thread_id,
  nullptr

\* The last conjunct is arithmetic: the provers know nothing of powers.
ProducerHashAssumption ==
  /\ IsFiniteSet(Threads) /\ HashedId \in [Threads -> Nat]
  /\ INITIAL_IMPLICIT_PRODUCER_HASH_SIZE \in Nat \ {0}
  /\ invalid_thread_id \notin Threads /\ nullptr \notin Producers
  /\ \A k \in 1 .. Cardinality(Threads) + 1 : 2 ^ k \in Nat /\ 2 ^ k >= 2

VARIABLES
  hashes,         \* every table allocated; the last is implicitProducerHash,
                  \* and prev of each is the one before it
  implicitProducerHashCount,
  implicitProducerHashResizeInProgress,
  producerListTail,
  next,           \* per producer: the one behind it in the list, or nullptr
  pc, loc,        \* per thread: its next access and its local variables
  got             \* auxiliary, per thread: the producers its calls returned

shared == <<hashes, implicitProducerHashCount, implicitProducerHashResizeInProgress,
            producerListTail, next>>
vars == <<shared, pc, loc, got>>

Table(size) ==
  [capacity |-> size,
   key |-> [i \in 0 .. size - 1 |-> invalid_thread_id],
   value |-> [i \in 0 .. size - 1 |-> nullptr]]

NoLocals == [mainHash |-> 0, hash |-> 0, index |-> 0, newCount |-> 0,
             producer |-> nullptr, prevTail |-> nullptr]

Init ==
  /\ hashes = <<Table(INITIAL_IMPLICIT_PRODUCER_HASH_SIZE)>>
  /\ implicitProducerHashCount = 0
  /\ implicitProducerHashResizeInProgress = FALSE
  /\ producerListTail = nullptr
  /\ next = [p \in Producers |-> nullptr]
  /\ pc = [t \in Threads |-> "idle"]
  /\ loc = [t \in Threads |-> NoLocals]
  /\ got = [t \in Threads |-> {}]

----------------------------------------------------------------------------
(* get_or_add_implicit_producer, by thread t. *)

Go(t, where) == pc' = [pc EXCEPT ![t] = where]

Current == Len(hashes)

Capacity(h) == hashes[h].capacity

\* The slot that an index stands for in table h.
At(h, index) == index % Capacity(h)

Return(t, producer) ==
  /\ Go(t, "idle")
  /\ loc' = [loc EXCEPT ![t] = NoLocals]
  /\ got' = [got EXCEPT ![t] = @ \cup ({producer} \ {nullptr})]

Call(t) ==
  /\ pc[t] = "idle"
  /\ loc' = [loc EXCEPT ![t].mainHash = Current, ![t].hash = Current, ![t].index = HashedId[t]]
  /\ Go(t, "probe")
  /\ UNCHANGED <<shared, got>>

\* Faulty variant: only the current table is searched.
ProbeCurrent(t) ==
  LET h == loc[t].hash
      slot == At(h, loc[t].index)
      probedKey == hashes[h].key[slot]
  IN
  /\ pc[t] = "probe"
  /\ \/ probedKey = t /\ Return(t, hashes[h].value[slot])
     \/ probedKey = invalid_thread_id /\ Go(t, "count") /\ UNCHANGED <<loc, got>>
     \/ /\ probedKey \notin {t, invalid_thread_id}
        /\ loc' = [loc EXCEPT ![t].index = slot + 1]
        /\ UNCHANGED <<pc, got>>
  /\ UNCHANGED shared

\* Looks for t, slot by slot and table by table.
Probe(t) ==
  LET h == loc[t].hash
      slot == At(h, loc[t].index)
      probedKey == hashes[h].key[slot]
  IN
  /\ pc[t] = "probe"
  /\ \/ /\ probedKey = t /\ h = loc[t].mainHash
        /\ Return(t, hashes[h].value[slot])
     \/ /\ probedKey = t /\ h # loc[t].mainHash
        /\ loc' = [loc EXCEPT ![t].index = HashedId[t], ![t].producer = hashes[h].value[slot]]
        /\ Go(t, "insert") /\ UNCHANGED got
     \/ /\ probedKey = invalid_thread_id
        /\ loc' = [loc EXCEPT ![t].hash = h - 1, ![t].index = HashedId[t]]
        /\ (IF h = 1 THEN Go(t, "count") ELSE UNCHANGED pc) /\ UNCHANGED got
     \/ /\ probedKey \notin {t, invalid_thread_id}
        /\ loc' = [loc EXCEPT ![t].index = slot + 1]
        /\ UNCHANGED <<pc, got>>
  /\ UNCHANGED shared

Count(t) ==
  /\ pc[t] = "count"
  /\ implicitProducerHashCount' = implicitProducerHashCount + 1
  /\ loc' = [loc EXCEPT ![t].newCount = implicitProducerHashCount']
  /\ Go(t, "check")
  /\ UNCHANGED <<hashes, implicitProducerHashResizeInProgress, producerListTail, next, got>>

HalfFull(t, h) == loc[t].newCount >= Capacity(h) \div 2

\* Half full: one thread gets the lock to make a bigger table.
Check(t) ==
  /\ pc[t] = "check"
  /\ IF HalfFull(t, loc[t].mainHash)
     THEN /\ implicitProducerHashResizeInProgress' = TRUE
          /\ Go(t, IF implicitProducerHashResizeInProgress THEN "room" ELSE "reload")
     ELSE Go(t, "room") /\ UNCHANGED implicitProducerHashResizeInProgress
  /\ UNCHANGED <<hashes, implicitProducerHashCount, producerListTail, next, loc, got>>

Reload(t) ==
  /\ pc[t] = "reload"
  /\ loc' = [loc EXCEPT ![t].mainHash = Current]
  /\ Go(t, IF HalfFull(t, Current) THEN "resize" ELSE "clear")
  /\ UNCHANGED <<shared, got>>

\* What doubling the capacity may lead to: newCount is less than half of it.
BigEnough(t) ==
  {c \in {Capacity(Current) * 2 ^ k : k \in 1 .. Cardinality(Threads) + 1} : loc[t].newCount < c \div 2}

Resize(t) ==
  /\ pc[t] = "resize"
  /\ \E newCapacity \in BigEnough(t) :
       /\ \A c \in BigEnough(t) : newCapacity <= c
       /\ hashes' = Append(hashes, Table(newCapacity))
  /\ loc' = [loc EXCEPT ![t].mainHash = Current + 1]
  /\ Go(t, "clear")
  /\ UNCHANGED <<implicitProducerHashCount, implicitProducerHashResizeInProgress,
                 producerListTail, next, got>>

\* Faulty variant: the thread stays counted.
ResizeFailsCounted(t) ==
  /\ pc[t] = "resize"
  /\ Go(t, "clear_and_fail")
  /\ UNCHANGED <<shared, loc, got>>

ResizeFails(t) ==
  /\ pc[t] = "resize"
  /\ implicitProducerHashCount' = implicitProducerHashCount - 1
  /\ Go(t, "clear_and_fail")
  /\ UNCHANGED <<hashes, implicitProducerHashResizeInProgress, producerListTail, next, loc, got>>

\* Faulty variant: the lock is kept when there is no memory.
ClearUnlessFailed(t) ==
  /\ \/ pc[t] = "clear" /\ Go(t, "room") /\ UNCHANGED <<loc, got>>
        /\ implicitProducerHashResizeInProgress' = FALSE
     \/ pc[t] = "clear_and_fail" /\ Return(t, nullptr)
        /\ UNCHANGED implicitProducerHashResizeInProgress
  /\ UNCHANGED <<hashes, implicitProducerHashCount, producerListTail, next>>

Clear(t) ==
  /\ \/ pc[t] = "clear" /\ Go(t, "room") /\ UNCHANGED <<loc, got>>
     \/ pc[t] = "clear_and_fail" /\ Return(t, nullptr)
  /\ implicitProducerHashResizeInProgress' = FALSE
  /\ UNCHANGED <<hashes, implicitProducerHashCount, producerListTail, next>>

\* Faulty variant: the table may become full.
RoomAlways(t) ==
  /\ pc[t] = "room"
  /\ Go(t, "create")
  /\ UNCHANGED <<shared, loc, got>>

\* Less than three quarters full, or wait for whoever makes a bigger one.
Room(t) ==
  LET c == Capacity(loc[t].mainHash) IN
  /\ pc[t] = "room"
  /\ IF loc[t].newCount < c \div 2 + c \div 4
     THEN Go(t, "create") /\ UNCHANGED loc
     ELSE Go(t, "check") /\ loc' = [loc EXCEPT ![t].mainHash = Current]
  /\ UNCHANGED <<shared, got>>

\* The producers that exist.
Created == (UNION {got[t] : t \in Threads}) \cup {loc[t].producer : t \in Threads}
             \cup (UNION {{hashes[h].value[i] : i \in DOMAIN hashes[h].value} : h \in DOMAIN hashes})

\* recycle_or_create_producer: none is inactive, so it creates one, and
\* add_producer loads the tail of the list.
Create(t) ==
  /\ pc[t] = "create"
  /\ \/ /\ \E p \in Producers \ Created :
             loc' = [loc EXCEPT ![t].producer = p, ![t].prevTail = producerListTail]
        /\ Go(t, "link")
        /\ UNCHANGED <<implicitProducerHashCount, got>>
     \/ /\ implicitProducerHashCount' = implicitProducerHashCount - 1
        /\ Return(t, nullptr)
  /\ UNCHANGED <<hashes, implicitProducerHashResizeInProgress, producerListTail, next>>

\* Faulty variant: the tail is stored whatever it has become.
LinkStore(t) ==
  /\ pc[t] = "link"
  /\ next' = [next EXCEPT ![loc[t].producer] = loc[t].prevTail]
  /\ producerListTail' = loc[t].producer
  /\ loc' = [loc EXCEPT ![t].index = HashedId[t], ![t].prevTail = nullptr]
  /\ Go(t, "insert")
  /\ UNCHANGED <<hashes, implicitProducerHashCount, implicitProducerHashResizeInProgress, got>>

\* Sets next, then swaps the tail if it is still prevTail.
Link(t) ==
  LET p == loc[t].producer IN
  /\ pc[t] = "link"
  /\ next' = [next EXCEPT ![p] = loc[t].prevTail]
  /\ \/ /\ producerListTail = loc[t].prevTail
        /\ producerListTail' = p
        /\ loc' = [loc EXCEPT ![t].index = HashedId[t], ![t].prevTail = nullptr]
        /\ Go(t, "insert")
     \/ /\ producerListTail # loc[t].prevTail
        /\ loc' = [loc EXCEPT ![t].prevTail = producerListTail]
        /\ UNCHANGED <<producerListTail, pc>>
  /\ UNCHANGED <<hashes, implicitProducerHashCount, implicitProducerHashResizeInProgress, got>>

\* Takes the first free slot of mainHash; a lost compare-and-swap is a slot
\* that is not free.
Insert(t) ==
  LET h == loc[t].mainHash
      slot == At(h, loc[t].index)
  IN
  /\ pc[t] = "insert"
  /\ IF hashes[h].key[slot] = invalid_thread_id
     THEN /\ hashes' = [hashes EXCEPT ![h].key[slot] = t, ![h].value[slot] = loc[t].producer]
          /\ Return(t, loc[t].producer)
     ELSE /\ loc' = [loc EXCEPT ![t].index = slot + 1]
          /\ UNCHANGED <<hashes, pc, got>>
  /\ UNCHANGED <<implicitProducerHashCount, implicitProducerHashResizeInProgress,
                 producerListTail, next>>

Continue(t) ==
  \/ Probe(t) \/ Count(t) \/ Check(t) \/ Reload(t) \/ Resize(t) \/ ResizeFails(t)
  \/ Clear(t) \/ Room(t) \/ Create(t) \/ Link(t) \/ Insert(t)

Next == \E t \in Threads : Call(t) \/ Continue(t)

Spec == Init /\ [][Next]_vars

\* Threads are scheduled.
FairSpec == Spec /\ \A t \in Threads : WF_vars(Continue(t))

----------------------------------------------------------------------------
(* Properties. *)

(* Type correctness; the count is never negative.                          *)
TypeOK ==
  /\ \A h \in DOMAIN hashes :
       LET slots == 0 .. hashes[h].capacity - 1 IN
       /\ hashes[h].key \in [slots -> Threads \cup {invalid_thread_id}]
       /\ hashes[h].value \in [slots -> Producers \cup {nullptr}]
  /\ implicitProducerHashCount \in 0 .. Cardinality(Threads)
  /\ implicitProducerHashResizeInProgress \in BOOLEAN
  /\ producerListTail \in Producers \cup {nullptr}
  /\ next \in [Producers -> Producers \cup {nullptr}]
  /\ got \in [Threads -> SUBSET Producers]

(* A thread enqueues to one sub-queue for ever, and to one of its own: the *)
(* order of its elements, and that a sub-queue has one writer, rest on it. *)
OneProducerEach ==
  /\ \A t \in Threads : Cardinality(got[t]) <= 1
  /\ \A t, u \in Threads : t # u => got[t] \cap got[u] = {}

(* "Not an infinite loop because at least one slot is free in the hash     *)
(* table": of every table, however it is raced for and however late a      *)
(* thread that was counted long ago adds itself.                           *)
OneSlotFree ==
  \A h \in DOMAIN hashes : \E i \in DOMAIN hashes[h].key : hashes[h].key[i] = invalid_thread_id

Registered == {t \in Threads : \E h \in DOMAIN hashes : \E i \in DOMAIN hashes[h].key : hashes[h].key[i] = t}

\* The threads that have been counted and are not yet in a table.
Counted ==
  {t \in Threads :
     \/ pc[t] \in {"check", "reload", "resize", "clear", "room", "create", "link"}
     \/ pc[t] = "insert" /\ t \notin Registered}

(* The one count "implicitly reserves space" in all the tables: it is the  *)
(* number of threads in them or about to be, whatever allocations fail.    *)
CountReserves == implicitProducerHashCount = Cardinality(Registered \cup Counted)

\* The producers a consumer meets when it walks the list: those that no set
\* that has the tail and follows the links of its members can leave out.
Listed ==
  {p \in Producers : \A S \in SUBSET Producers :
     /\ producerListTail \in S \cup {nullptr}
     /\ \A q \in S : next[q] \in S \cup {nullptr}
     => p \in S}

(* What is enqueued can be found: a producer is in the consumers' list     *)
(* before its thread may use it.                                           *)
ProducersListed == \A t \in Threads : got[t] \subseteq Listed

(* A call returns, though it may wait for another thread's table, unless   *)
(* allocations fail again and again.                                       *)
CallsReturn ==
  \A t \in Threads :
    ((pc[t] # "idle") ~> (pc[t] = "idle")) \/ []<><<\E u \in Threads : ResizeFails(u)>>_vars
=============================================================================
