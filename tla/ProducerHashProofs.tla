------------------------- MODULE ProducerHashProofs -------------------------
(***************************************************************************)
(* Why a thread finds its producer again, for any number of threads, any   *)
(* hash function and any growth of the tables.  A key never leaves its     *)
(* slot, and on the way from where the search of a thread starts to the    *)
(* slot that holds its id no slot is ever free; so a search that meets a   *)
(* free slot, in every table, has shown that the thread is in none.        *)
(***************************************************************************)
EXTENDS ProducerHash, FiniteSetTheorems, TLAPS

Keys == Threads \cup {invalid_thread_id}
Maybe == Producers \cup {nullptr}

AnyTable ==
  UNION {[capacity : {c}, key : [0 .. c - 1 -> Keys], value : [0 .. c - 1 -> Maybe]] :
           c \in Nat \ {0}}

Locals == [mainHash : Nat, hash : Nat, index : Nat, newCount : Int, producer : Maybe, prevTail : Maybe]

\* The accesses of a thread that is in no table.
NewcomerSteps ==
  {"count", "check", "reload", "resize", "clear", "clear_and_fail", "room", "create", "link"}

Steps == {"idle", "probe", "insert"} \cup NewcomerSteps

Types ==
  /\ hashes \in Seq(AnyTable) /\ Len(hashes) >= 1
  /\ implicitProducerHashCount \in Int
  /\ implicitProducerHashResizeInProgress \in BOOLEAN
  /\ producerListTail \in Maybe
  /\ next \in [Producers -> Maybe]
  /\ pc \in [Threads -> Steps]
  /\ loc \in [Threads -> Locals]
  /\ got \in [Threads -> SUBSET Producers]

Slots(h) == 0 .. Capacity(h) - 1

\* t has a slot in table h.
In(t, h) == \E i \in Slots(h) : hashes[h].key[i] = t

\* The search of t: where it starts, which slots it goes past, and to which.
First(t, h) == At(h, HashedId[t])
Taken(t, h, i) == hashes[h].key[i] \notin {t, invalid_thread_id}
After(h, i) == At(h, i + 1)

\* The search of t in table h does not leave S.
Stays(t, h, S) == First(t, h) \in S /\ \A i \in S : Taken(t, h, i) => After(h, i) \in S

\* The search of t comes to slot i.
ComesTo(t, h, i) == \A S \in SUBSET Slots(h) : Stays(t, h, S) => i \in S

\* The search of t has come to slot i past slots that hold other ids.
Passed(t, h, i) ==
  \E V \in SUBSET Slots(h) :
    /\ First(t, h) \in V \cup {i}
    /\ \A j \in V : Taken(t, h, j) /\ After(h, j) \in V \cup {i}

TablesOK ==
  /\ \A g, h \in 1 .. Len(hashes) : g <= h => Capacity(g) <= Capacity(h)
  /\ \A h \in 1 .. Len(hashes) : \A i \in Slots(h) : \A t \in Threads :
       hashes[h].key[i] = t =>
         /\ ComesTo(t, h, i) /\ hashes[h].value[i] \in Producers
         /\ \A j \in Slots(h) : hashes[h].key[j] = t => i = j

\* What holds of thread t at access w with local variables l.
StandsAt(t, w, l) ==
  /\ w # "idle" => l.mainHash \in 1 .. Len(hashes)
  /\ w = "probe" =>
       /\ l.hash \in 1 .. l.mainHash
       /\ \A h \in l.hash + 1 .. Len(hashes) : ~ In(t, h)
       /\ Passed(t, l.hash, At(l.hash, l.index))
  /\ w \in NewcomerSteps => \A h \in 1 .. Len(hashes) : ~ In(t, h)
  /\ w = "insert" => ~ In(t, l.mainHash) /\ ComesTo(t, l.mainHash, At(l.mainHash, l.index))
  /\ IF w \in {"link", "insert"} THEN l.producer \in Producers ELSE l.producer = nullptr

ThreadOK(t) == StandsAt(t, pc[t], loc[t])

SearchInv == Types /\ TablesOK /\ \A t \in Threads : ThreadOK(t)

----------------------------------------------------------------------------
(* Tables and searches. *)

LEMMA ModIsSlot ==
  ASSUME NEW c \in Nat \ {0}, NEW i \in Nat
  PROVE  i % c \in 0 .. c - 1
  OBVIOUS

LEMMA TableIs ==
  ASSUME Types, NEW h \in 1 .. Len(hashes)
  PROVE  /\ Capacity(h) \in Nat \ {0}
         /\ hashes[h] = [capacity |-> Capacity(h), key |-> hashes[h].key, value |-> hashes[h].value]
         /\ hashes[h].key \in [Slots(h) -> Keys]
         /\ hashes[h].value \in [Slots(h) -> Maybe]
         /\ hashes[h] \in AnyTable
  <1>1. hashes[h] \in AnyTable
    BY DEF Types
  <1>2. PICK c \in Nat \ {0} :
          hashes[h] \in [capacity : {c}, key : [0 .. c - 1 -> Keys], value : [0 .. c - 1 -> Maybe]]
    BY <1>1 DEF AnyTable
  <1>3. Capacity(h) = c
    BY <1>2 DEF Capacity
  <1> QED BY <1>1, <1>2, <1>3 DEF Slots, Capacity

LEMMA AtIsSlot ==
  ASSUME Types, NEW h \in 1 .. Len(hashes), NEW i \in Nat
  PROVE  At(h, i) \in Slots(h)
  BY TableIs, ModIsSlot DEF At, Slots

LEMMA KnownTable ==
  ASSUME Types
  PROVE  Current \in 1 .. Len(hashes) /\ Len(hashes) \in Nat \ {0} /\ DOMAIN hashes = 1 .. Len(hashes)
  BY DEF Types, Current

\* A table that is not written to looks the same to every search.
LEMMA SameTable ==
  ASSUME NEW h, hashes'[h] = hashes[h]
  PROVE  /\ Capacity(h)' = Capacity(h) /\ Slots(h)' = Slots(h)
         /\ \A i : At(h, i)' = At(h, i)
         /\ \A t \in Threads : (In(t, h)' <=> In(t, h))
         /\ \A t \in Threads : \A i : /\ ComesTo(t, h, i)' <=> ComesTo(t, h, i)
                                      /\ Passed(t, h, i)' <=> Passed(t, h, i)
  BY DEF Capacity, Slots, At, In, ComesTo, Passed, Stays, First, Taken, After

LEMMA SearchStarts ==
  ASSUME NEW t \in Threads, NEW h
  PROVE  Passed(t, h, First(t, h)) /\ ComesTo(t, h, First(t, h))
  <1>1. {} \in SUBSET Slots(h) /\ First(t, h) \in {} \cup {First(t, h)}
    OBVIOUS
  <1>2. Passed(t, h, First(t, h))
    BY <1>1 DEF Passed
  <1>3. ComesTo(t, h, First(t, h))
    BY DEF ComesTo, Stays
  <1> QED BY <1>2, <1>3

LEMMA SearchGoesOn ==
  ASSUME NEW t \in Threads, NEW h, NEW i \in Slots(h), Taken(t, h, i)
  PROVE  /\ Passed(t, h, i) => Passed(t, h, After(h, i))
         /\ ComesTo(t, h, i) => ComesTo(t, h, After(h, i))
  <1>1. ASSUME Passed(t, h, i) PROVE Passed(t, h, After(h, i))
    <2>1. PICK V \in SUBSET Slots(h) :
            /\ First(t, h) \in V \cup {i}
            /\ \A j \in V : Taken(t, h, j) /\ After(h, j) \in V \cup {i}
      BY <1>1 DEF Passed
    <2>2. V \cup {i} \in SUBSET Slots(h)
      OBVIOUS
    <2>3. \A j \in V \cup {i} : Taken(t, h, j) /\ After(h, j) \in (V \cup {i}) \cup {After(h, i)}
      BY <2>1
    <2> QED BY <2>1, <2>2, <2>3 DEF Passed
  <1>2. ASSUME ComesTo(t, h, i) PROVE ComesTo(t, h, After(h, i))
    BY <1>2 DEF ComesTo, Stays
  <1> QED BY <1>1, <1>2

\* Where a search meets a free slot, its thread has none.
LEMMA SearchEnds ==
  ASSUME TablesOK, NEW t \in Threads, NEW h \in 1 .. Len(hashes), NEW i \in Slots(h),
         Passed(t, h, i), hashes[h].key[i] = invalid_thread_id, ProducerHashAssumption
  PROVE  ~ In(t, h)
  <1> SUFFICES ASSUME NEW k \in Slots(h), hashes[h].key[k] = t PROVE FALSE
    BY DEF In
  <1>1. PICK V \in SUBSET Slots(h) :
          /\ First(t, h) \in V \cup {i}
          /\ \A j \in V : Taken(t, h, j) /\ After(h, j) \in V \cup {i}
    BY DEF Passed
  <1>2. Stays(t, h, V \cup {i})
    BY <1>1 DEF Stays, Taken
  <1>3. ComesTo(t, h, k)
    BY DEF TablesOK
  <1>4. k \in V \cup {i}
    BY <1>2, <1>3 DEF ComesTo
  <1> QED BY <1>1, <1>4 DEF Taken, ProducerHashAssumption

----------------------------------------------------------------------------
(* Steps of one thread that do not write to a table. *)

OnlyMoves(t) == \A u \in Threads \ {t} : pc'[u] = pc[u] /\ loc'[u] = loc[u]

\* The rest of the shared memory, and what is returned.
OthersOK ==
  /\ implicitProducerHashCount \in Int /\ implicitProducerHashResizeInProgress \in BOOLEAN
  /\ producerListTail \in Maybe /\ next \in [Producers -> Maybe]
  /\ got \in [Threads -> SUBSET Producers]

LEMMA TablesStay ==
  ASSUME SearchInv, NEW t \in Threads, OnlyMoves(t), UNCHANGED hashes, Types', ThreadOK(t)'
  PROVE  SearchInv'
  <1>1. \A h : hashes'[h] = hashes[h]
    OBVIOUS
  <1>2. TablesOK'
    <2>1. TablesOK
      BY DEF SearchInv
    <2> QED BY <1>1, <2>1 DEF TablesOK, Capacity, Slots, ComesTo, Stays, First, Taken, After, At
  <1>3. \A u \in Threads : ThreadOK(u)'
    <2> SUFFICES ASSUME NEW u \in Threads \ {t} PROVE ThreadOK(u)'
      OBVIOUS
    <2>1. ThreadOK(u) /\ pc'[u] = pc[u] /\ loc'[u] = loc[u]
      BY DEF SearchInv, OnlyMoves
    <2>2. \A h : /\ In(u, h)' <=> In(u, h)
                 /\ \A i : /\ At(h, i)' = At(h, i)
                           /\ ComesTo(u, h, i)' <=> ComesTo(u, h, i)
                           /\ Passed(u, h, i)' <=> Passed(u, h, i)
      BY SameTable
    <2> QED BY <2>1, <2>2 DEF ThreadOK, StandsAt
  <1> QED BY <1>2, <1>3 DEF SearchInv

LEMMA ThreadSteps ==
  ASSUME SearchInv, NEW t \in Threads, NEW w \in Steps, NEW l \in Locals,
         pc' = [pc EXCEPT ![t] = w], loc' = [loc EXCEPT ![t] = l],
         UNCHANGED hashes, OthersOK', StandsAt(t, w, l)
  PROVE  SearchInv'
  <1>1. /\ OnlyMoves(t) /\ pc'[t] = w /\ loc'[t] = l /\ Types'
    BY DEF SearchInv, Types, OnlyMoves, OthersOK
  <1>2. \A h : /\ In(t, h)' <=> In(t, h)
               /\ \A i : /\ At(h, i)' = At(h, i)
                         /\ ComesTo(t, h, i)' <=> ComesTo(t, h, i)
                         /\ Passed(t, h, i)' <=> Passed(t, h, i)
    BY SameTable
  <1>3. ThreadOK(t)'
    BY <1>1, <1>2 DEF ThreadOK, StandsAt
  <1> QED BY <1>1, <1>3, TablesStay

LEMMA ThreadHas ==
  ASSUME SearchInv, NEW t \in Threads
  PROVE  /\ OthersOK /\ pc[t] \in Steps /\ loc[t] \in Locals /\ StandsAt(t, pc[t], loc[t])
         /\ Current \in 1 .. Len(hashes) /\ Current = Len(hashes)
         /\ TablesOK /\ Types
         /\ pc[t] \notin {"link", "insert"} => loc[t].producer = nullptr
  <1>1. pc[t] \notin {"link", "insert"} => loc[t].producer = nullptr
    BY DEF SearchInv, ThreadOK, StandsAt
  <1> QED BY <1>1, KnownTable DEF SearchInv, Types, OthersOK, ThreadOK, Current

LEMMA ReturnStep ==
  ASSUME SearchInv, NEW t \in Threads, NEW p \in Maybe, Return(t, p), UNCHANGED hashes,
         implicitProducerHashCount' \in Int, implicitProducerHashResizeInProgress' \in BOOLEAN,
         UNCHANGED <<producerListTail, next>>
  PROVE  SearchInv'
  <1>1. NoLocals \in Locals /\ StandsAt(t, "idle", NoLocals)
    BY DEF NoLocals, Locals, Maybe, StandsAt, NewcomerSteps
  <1>2. got' \in [Threads -> SUBSET Producers]
    BY ThreadHas DEF Return, OthersOK, Maybe
  <1>3. OthersOK'
    BY <1>2, ThreadHas DEF OthersOK
  <1> QED BY <1>1, <1>3, ThreadSteps DEF Return, Go, Steps

LEMMA CallStep ==
  ASSUME ProducerHashAssumption, SearchInv, NEW t \in Threads, Call(t)
  PROVE  SearchInv'
  <1> DEFINE l == [loc[t] EXCEPT !.mainHash = Current, !.hash = Current, !.index = HashedId[t]]
  <1>1. /\ pc[t] = "idle" /\ loc[t] \in Locals /\ OthersOK /\ Current \in 1 .. Len(hashes)
        /\ Current = Len(hashes) /\ StandsAt(t, pc[t], loc[t]) /\ Types /\ HashedId[t] \in Nat
        /\ UNCHANGED <<shared, got>> /\ loc[t].producer = nullptr /\ Current \in Nat
    BY ThreadHas, KnownTable DEF Call, ProducerHashAssumption
  <1>2. /\ l \in Locals /\ l.mainHash = Current /\ l.hash = Current /\ l.index = HashedId[t]
        /\ l.producer = nullptr
    BY <1>1 DEF Locals
  <1>3. pc' = [pc EXCEPT ![t] = "probe"] /\ loc' = [loc EXCEPT ![t] = l]
    BY <1>1 DEF Call, Go, Types
  <1>4. Passed(t, Current, At(Current, HashedId[t]))
    BY SearchStarts DEF First
  <1>5. \A h \in Current + 1 .. Len(hashes) : FALSE
    BY <1>1, KnownTable
  <1>6. StandsAt(t, "probe", l)
    <2> HIDE DEF l
    <2> QED BY <1>1, <1>2, <1>4, <1>5 DEF StandsAt, NewcomerSteps
  <1>7. OthersOK'
    BY <1>1 DEF OthersOK, shared
  <1> HIDE DEF l
  <1> QED BY <1>1, <1>2, <1>3, <1>6, <1>7, ThreadSteps DEF Steps, shared

\* One look at a slot: it is the thread's own, in the newest table it knows
\* or an older one, or free, or another's.
LEMMA ProbeStep ==
  ASSUME ProducerHashAssumption, SearchInv, NEW t \in Threads, Probe(t)
  PROVE  SearchInv'
  <1> DEFINE h == loc[t].hash
             slot == At(h, loc[t].index)
             probedKey == hashes[h].key[slot]
  <1>1. /\ pc[t] = "probe" /\ loc[t] \in Locals /\ OthersOK /\ Types /\ TablesOK
        /\ UNCHANGED shared /\ HashedId[t] \in Nat /\ loc[t].producer = nullptr
        /\ loc[t].index \in Nat /\ loc[t].mainHash \in Nat
    BY ThreadHas DEF Probe, ProducerHashAssumption, Locals
  <1>2. /\ h \in 1 .. loc[t].mainHash /\ loc[t].mainHash \in 1 .. Len(hashes)
        /\ \A g \in h + 1 .. Len(hashes) : ~ In(t, g)
        /\ Passed(t, h, slot) /\ h \in 1 .. Len(hashes)
    BY <1>1, ThreadHas, KnownTable DEF StandsAt
  <1>3. slot \in Slots(h) /\ Len(hashes) \in Nat
    BY <1>1, <1>2, AtIsSlot, KnownTable
  <1>4. /\ hashes[h].key \in [Slots(h) -> Keys] /\ hashes[h].value \in [Slots(h) -> Maybe]
        /\ hashes[h].value[slot] \in Maybe /\ probedKey \in Keys
    BY <1>1, <1>2, <1>3, TableIs
  <1>5. UNCHANGED got => OthersOK'
    BY <1>1 DEF OthersOK, shared
  <1>6. CASE Return(t, hashes[h].value[slot])
    BY <1>1, <1>4, <1>6, ReturnStep DEF OthersOK, shared
  <1>7. CASE /\ probedKey = t /\ h # loc[t].mainHash
             /\ loc' = [loc EXCEPT ![t].index = HashedId[t], ![t].producer = hashes[h].value[slot]]
             /\ Go(t, "insert") /\ UNCHANGED got
    <2> DEFINE l == [loc[t] EXCEPT !.index = HashedId[t], !.producer = hashes[h].value[slot]]
    <2>1. /\ l \in Locals /\ l.mainHash = loc[t].mainHash /\ l.index = HashedId[t]
          /\ l.producer = hashes[h].value[slot]
      BY <1>1, <1>4 DEF Locals
    <2>2. pc' = [pc EXCEPT ![t] = "insert"] /\ loc' = [loc EXCEPT ![t] = l]
      BY <1>1, <1>7 DEF Go, Types
    <2>3. hashes[h].value[slot] \in Producers
      BY <1>1, <1>2, <1>3, <1>7, SMTT(20) DEF TablesOK
    <2>4. ~ In(t, loc[t].mainHash)
      BY <1>2, <1>3, <1>7
    <2>5. ComesTo(t, l.mainHash, At(l.mainHash, l.index))
      BY <2>1, SearchStarts DEF First
    <2>6. StandsAt(t, "insert", l)
      <3> HIDE DEF l
      <3> QED BY <1>2, <2>1, <2>3, <2>4, <2>5 DEF StandsAt, NewcomerSteps
    <2> HIDE DEF l
    <2> QED BY <1>1, <1>5, <1>7, <2>1, <2>2, <2>6, ThreadSteps DEF Steps, shared
  <1>8. CASE /\ probedKey = invalid_thread_id
             /\ loc' = [loc EXCEPT ![t].hash = h - 1, ![t].index = HashedId[t]]
             /\ (IF h = 1 THEN Go(t, "count") ELSE UNCHANGED pc) /\ UNCHANGED got
    <2> DEFINE l == [loc[t] EXCEPT !.hash = h - 1, !.index = HashedId[t]]
               w == IF h = 1 THEN "count" ELSE "probe"
    <2>1. /\ l \in Locals /\ l.mainHash = loc[t].mainHash /\ l.index = HashedId[t]
          /\ l.hash = h - 1 /\ l.producer = nullptr
      <3>1. h - 1 \in Nat
        BY <1>2, <1>3
      <3> HIDE DEF h
      <3>2. loc[t] \in Locals /\ HashedId[t] \in Nat /\ loc[t].producer = nullptr
        BY <1>1
      <3> QED BY <3>1, <3>2 DEF Locals
    <2>2. pc' = [pc EXCEPT ![t] = w] /\ loc' = [loc EXCEPT ![t] = l]
      BY <1>1, <1>8 DEF Go, Types
    <2>3. \A g \in h .. Len(hashes) : ~ In(t, g)
      <3>1. ~ In(t, h)
        BY <1>1, <1>2, <1>3, <1>8, SearchEnds
      <3> QED BY <1>2, <1>3, <3>1
    <2>4. Passed(t, l.hash, At(l.hash, l.index))
      BY <2>1, SearchStarts DEF First
    <2>5. StandsAt(t, w, l)
      <3> HIDE DEF l
      <3>1. CASE h = 1
        BY <1>2, <2>1, <2>3, <3>1 DEF StandsAt, NewcomerSteps
      <3>2. CASE h # 1
        <4>1. l.hash \in 1 .. l.mainHash /\ l.hash + 1 = h
          BY <1>2, <1>3, <2>1, <3>2
        <4> QED BY <1>2, <2>1, <2>3, <2>4, <3>2, <4>1 DEF StandsAt, NewcomerSteps
      <3> QED BY <3>1, <3>2
    <2>6. w \in Steps
      BY DEF Steps, NewcomerSteps
    <2> HIDE DEF l, w
    <2> QED BY <1>1, <1>5, <1>8, <2>1, <2>2, <2>5, <2>6, ThreadSteps DEF shared
  <1>9. CASE /\ probedKey \notin {t, invalid_thread_id}
             /\ loc' = [loc EXCEPT ![t].index = slot + 1]
             /\ UNCHANGED <<pc, got>>
    <2> DEFINE l == [loc[t] EXCEPT !.index = slot + 1]
    <2>1. slot \in Nat
      BY <1>1, <1>2, <1>3, TableIs DEF Slots
    <2>2. /\ l \in Locals /\ l.mainHash = loc[t].mainHash /\ l.index = slot + 1
          /\ l.hash = h /\ l.producer = nullptr
      <3> HIDE DEF slot
      <3> QED BY <1>1, <2>1 DEF Locals
    <2>3. pc' = [pc EXCEPT ![t] = "probe"] /\ loc' = [loc EXCEPT ![t] = l]
      BY <1>1, <1>9 DEF Types
    <2>4. Taken(t, h, slot)
      BY <1>9 DEF Taken
    <2>5. Passed(t, h, At(h, slot + 1))
      <3> HIDE DEF slot
      <3> QED BY <1>2, <1>3, <2>4, SearchGoesOn DEF After
    <2>6. StandsAt(t, "probe", l)
      <3> HIDE DEF l, slot
      <3> QED BY <1>2, <2>2, <2>5 DEF StandsAt, NewcomerSteps
    <2> HIDE DEF l, slot
    <2> QED BY <1>1, <1>5, <1>9, <2>2, <2>3, <2>6, ThreadSteps DEF Steps, shared
  <1> QED BY <1>6, <1>7, <1>8, <1>9 DEF Probe

----------------------------------------------------------------------------
(* The steps of a thread that is in no table yet. *)

LEMMA NewcomerMoves ==
  ASSUME SearchInv, NEW t \in Threads, pc[t] \in NewcomerSteps,
         NEW w \in NewcomerSteps, NEW l \in Locals, l.mainHash \in 1 .. Len(hashes),
         IF w = "link" THEN l.producer \in Producers ELSE l.producer = nullptr,
         pc' = [pc EXCEPT ![t] = w], loc' = [loc EXCEPT ![t] = l], UNCHANGED hashes, OthersOK'
  PROVE  SearchInv'
  <1>1. \A h \in 1 .. Len(hashes) : ~ In(t, h)
    BY ThreadHas DEF StandsAt
  <1>2. StandsAt(t, w, l)
    BY <1>1 DEF StandsAt, NewcomerSteps
  <1> QED BY <1>2, ThreadSteps DEF Steps

\* What is known of such a thread.
LEMMA NewcomerHas ==
  ASSUME SearchInv, NEW t \in Threads, pc[t] \in NewcomerSteps
  PROVE  /\ OthersOK /\ loc[t] \in Locals /\ Types
         /\ loc[t].mainHash \in 1 .. Len(hashes) /\ Current \in 1 .. Len(hashes) /\ Current \in Nat
         /\ pc[t] # "link" => loc[t].producer = nullptr
         /\ pc[t] = "link" => loc[t].producer \in Producers
         /\ \A h \in 1 .. Len(hashes) : ~ In(t, h)
         /\ loc' = loc => loc' = [loc EXCEPT ![t] = loc[t]]
  <1>1. StandsAt(t, pc[t], loc[t]) /\ OthersOK /\ loc[t] \in Locals /\ Types
    BY ThreadHas
  <1>2. Current \in 1 .. Len(hashes) /\ Current \in Nat
    BY <1>1, KnownTable
  <1>3. loc' = loc => loc' = [loc EXCEPT ![t] = loc[t]]
    BY <1>1 DEF Types
  <1> QED BY <1>1, <1>2, <1>3 DEF StandsAt, NewcomerSteps

\* The steps that change nothing but the count, the lock and mainHash.
LEMMA GrowSteps ==
  ASSUME SearchInv, NEW t \in Threads,
         Count(t) \/ Check(t) \/ Reload(t) \/ ResizeFails(t) \/ Clear(t) \/ Room(t)
  PROVE  SearchInv'
  <1>1. pc[t] \in NewcomerSteps /\ pc[t] # "link"
    BY DEF Count, Check, Reload, ResizeFails, Clear, Room, NewcomerSteps
  <1>2. /\ OthersOK /\ loc[t] \in Locals /\ Types /\ loc[t].mainHash \in 1 .. Len(hashes)
        /\ Current \in 1 .. Len(hashes) /\ Current \in Nat /\ loc[t].producer = nullptr
        /\ loc' = loc => loc' = [loc EXCEPT ![t] = loc[t]]
    BY <1>1, NewcomerHas
  <1>4. CASE Count(t)
    <2> DEFINE l == [loc[t] EXCEPT !.newCount = implicitProducerHashCount']
    <2>1. implicitProducerHashCount' \in Int
      BY <1>2, <1>4 DEF Count, OthersOK
    <2>2. l \in Locals /\ l.mainHash = loc[t].mainHash /\ l.producer = nullptr
      BY <1>2, <2>1 DEF Locals
    <2>3. pc' = [pc EXCEPT ![t] = "check"] /\ loc' = [loc EXCEPT ![t] = l] /\ OthersOK' /\ UNCHANGED hashes
      BY <1>2, <1>4, <2>1 DEF Count, Go, Types, OthersOK
    <2>4. "check" \in NewcomerSteps /\ "check" # "link"
      BY DEF NewcomerSteps
    <2> HIDE DEF l
    <2> QED BY <1>1, <1>2, <2>2, <2>3, <2>4, NewcomerMoves
  <1>5. ASSUME NEW w \in NewcomerSteps \ {"link"}, pc' = [pc EXCEPT ![t] = w],
               loc' = loc \/ loc' = [loc EXCEPT ![t].mainHash = Current],
               UNCHANGED hashes, OthersOK'
        PROVE  SearchInv'
    <2> DEFINE l == [loc[t] EXCEPT !.mainHash = Current]
    <2>1. l \in Locals /\ l.mainHash = Current /\ l.producer = nullptr
      BY <1>2 DEF Locals
    <2>2. CASE loc' = loc
      BY <1>1, <1>2, <1>5, <2>2, NewcomerMoves
    <2>3. CASE loc' = [loc EXCEPT ![t].mainHash = Current]
      <3>1. loc' = [loc EXCEPT ![t] = l]
        BY <1>2, <2>3 DEF Types
      <3> HIDE DEF l
      <3> QED BY <1>1, <1>2, <1>5, <2>1, <3>1, NewcomerMoves
    <2> QED BY <1>5, <2>2, <2>3
  <1>6. CASE Check(t) \/ Reload(t) \/ ResizeFails(t) \/ Room(t)
    <2>1. \E w \in {"room", "reload", "resize", "clear", "clear_and_fail", "create", "check"} :
            pc' = [pc EXCEPT ![t] = w]
      BY <1>6 DEF Check, Reload, ResizeFails, Room, Go
    <2>2. loc' = loc \/ loc' = [loc EXCEPT ![t].mainHash = Current]
      BY <1>6 DEF Check, Reload, ResizeFails, Room
    <2>3. UNCHANGED hashes /\ OthersOK'
      <3>1. CASE Check(t)
        BY <1>2, <3>1 DEF Check, OthersOK
      <3>2. CASE Reload(t) \/ Room(t)
        BY <1>2, <3>2 DEF Reload, Room, OthersOK, shared
      <3>3. CASE ResizeFails(t)
        BY <1>2, <3>3 DEF ResizeFails, OthersOK
      <3> QED BY <1>6, <3>1, <3>2, <3>3
    <2> QED BY <1>5, <2>1, <2>2, <2>3 DEF NewcomerSteps
  <1>7. CASE Clear(t)
    <2>1. CASE Return(t, nullptr)
      BY <1>2, <1>7, <2>1, ReturnStep DEF Clear, OthersOK, Maybe
    <2>2. CASE Go(t, "room") /\ UNCHANGED <<loc, got>>
      <3>1. UNCHANGED hashes /\ OthersOK'
        BY <1>2, <1>7, <2>2 DEF Clear, OthersOK
      <3> QED BY <1>5, <2>2, <3>1 DEF Go, NewcomerSteps
    <2> QED BY <1>7, <2>1, <2>2 DEF Clear
  <1> QED BY <1>4, <1>6, <1>7

LEMMA CreateStep ==
  ASSUME SearchInv, NEW t \in Threads, Create(t)
  PROVE  SearchInv'
  <1>1. pc[t] \in NewcomerSteps /\ pc[t] # "link"
    BY DEF Create, NewcomerSteps
  <1>2. /\ OthersOK /\ loc[t] \in Locals /\ Types /\ loc[t].mainHash \in 1 .. Len(hashes)
    BY <1>1, NewcomerHas
  <1>3. CASE implicitProducerHashCount' = implicitProducerHashCount - 1 /\ Return(t, nullptr)
    BY <1>2, <1>3, ReturnStep DEF Create, OthersOK, Maybe
  <1>4. ASSUME NEW p \in Producers,
               loc' = [loc EXCEPT ![t].producer = p, ![t].prevTail = producerListTail],
               Go(t, "link"), UNCHANGED <<implicitProducerHashCount, got>>
        PROVE  SearchInv'
    <2> DEFINE l == [loc[t] EXCEPT !.producer = p, !.prevTail = producerListTail]
    <2>1. l \in Locals /\ l.mainHash = loc[t].mainHash /\ l.producer = p
      BY <1>2 DEF Locals, OthersOK, Maybe
    <2>2. /\ pc' = [pc EXCEPT ![t] = "link"] /\ loc' = [loc EXCEPT ![t] = l]
          /\ UNCHANGED hashes /\ OthersOK'
      BY <1>2, <1>4 DEF Create, Go, Types, OthersOK
    <2>3. "link" \in NewcomerSteps
      BY DEF NewcomerSteps
    <2> HIDE DEF l
    <2> QED BY <1>1, <1>2, <2>1, <2>2, <2>3, NewcomerMoves
  <1> QED BY <1>3, <1>4 DEF Create

LEMMA LinkStep ==
  ASSUME ProducerHashAssumption, SearchInv, NEW t \in Threads, Link(t)
  PROVE  SearchInv'
  <1>1. pc[t] \in NewcomerSteps /\ pc[t] = "link"
    BY DEF Link, NewcomerSteps
  <1>2. /\ OthersOK /\ loc[t] \in Locals /\ Types /\ loc[t].mainHash \in 1 .. Len(hashes)
        /\ loc[t].producer \in Producers /\ HashedId[t] \in Nat
        /\ \A h \in 1 .. Len(hashes) : ~ In(t, h)
    BY <1>1, NewcomerHas DEF ProducerHashAssumption
  <1>3. UNCHANGED hashes /\ OthersOK'
    BY <1>2 DEF Link, OthersOK, Maybe, Locals
  <1>4. CASE loc' = [loc EXCEPT ![t].index = HashedId[t], ![t].prevTail = nullptr] /\ Go(t, "insert")
    <2> DEFINE l == [loc[t] EXCEPT !.index = HashedId[t], !.prevTail = nullptr]
    <2>1. /\ l \in Locals /\ l.mainHash = loc[t].mainHash /\ l.producer = loc[t].producer
          /\ l.index = HashedId[t]
      BY <1>2 DEF Locals, Maybe
    <2>2. pc' = [pc EXCEPT ![t] = "insert"] /\ loc' = [loc EXCEPT ![t] = l]
      BY <1>2, <1>4 DEF Go, Types
    <2>3. ComesTo(t, l.mainHash, At(l.mainHash, l.index))
      BY <2>1, SearchStarts DEF First
    <2> HIDE DEF l
    <2>4. StandsAt(t, "insert", l)
      BY <1>2, <2>1, <2>3 DEF StandsAt, NewcomerSteps
    <2> QED BY <1>3, <2>1, <2>2, <2>4, ThreadSteps DEF Steps
  <1>5. CASE loc' = [loc EXCEPT ![t].prevTail = producerListTail] /\ UNCHANGED pc
    <2> DEFINE l == [loc[t] EXCEPT !.prevTail = producerListTail]
    <2>1. l \in Locals /\ l.mainHash = loc[t].mainHash /\ l.producer = loc[t].producer
      BY <1>2 DEF Locals, OthersOK, Maybe
    <2>2. pc' = [pc EXCEPT ![t] = "link"] /\ loc' = [loc EXCEPT ![t] = l]
      BY <1>1, <1>2, <1>5 DEF Types
    <2>3. "link" \in NewcomerSteps
      BY DEF NewcomerSteps
    <2> HIDE DEF l
    <2> QED BY <1>1, <1>2, <1>3, <2>1, <2>2, <2>3, NewcomerMoves
  <1> QED BY <1>4, <1>5 DEF Link

----------------------------------------------------------------------------
(* The steps that write to tables. *)

LEMMA TwiceAsMuch ==
  ASSUME NEW c \in Nat \ {0}, NEW f \in Nat, f >= 2
  PROVE  c * f \in Nat \ {0} /\ c * f >= c
  <1>1. c * f \in Nat /\ c * f >= c * 2
    OBVIOUS
  <1> QED BY <1>1

LEMMA NewTable ==
  ASSUME NEW c \in Nat \ {0}
  PROVE  Table(c) \in AnyTable
  BY DEF Table, AnyTable, Keys, Maybe

LEMMA ResizeStep ==
  ASSUME ProducerHashAssumption, SearchInv, NEW t \in Threads, Resize(t)
  PROVE  SearchInv'
  <1>1. pc[t] \in NewcomerSteps /\ pc[t] = "resize"
    BY DEF Resize, NewcomerSteps
  <1>2. /\ OthersOK /\ loc[t] \in Locals /\ Types /\ Current \in 1 .. Len(hashes) /\ Current \in Nat
        /\ Len(hashes) \in Nat \ {0} /\ loc[t].producer = nullptr /\ Current = Len(hashes)
        /\ \A h \in 1 .. Len(hashes) : ~ In(t, h)
    BY <1>1, NewcomerHas, KnownTable DEF Current
  <1>3. PICK c \in BigEnough(t) : hashes' = Append(hashes, Table(c))
    BY DEF Resize
  <1>4. c \in Nat \ {0} /\ c >= Capacity(Current)
    <2>1. PICK k \in 1 .. Cardinality(Threads) + 1 : c = Capacity(Current) * 2 ^ k
      BY <1>3 DEF BigEnough
    <2>2. 2 ^ k \in Nat /\ 2 ^ k >= 2
      BY <2>1 DEF ProducerHashAssumption
    <2>3. Capacity(Current) \in Nat \ {0}
      BY <1>2, TableIs
    <2> QED BY <2>1, <2>2, <2>3, TwiceAsMuch
  <1>5. /\ hashes' \in Seq(AnyTable) /\ Len(hashes') = Len(hashes) + 1
        /\ \A h \in 1 .. Len(hashes) : hashes'[h] = hashes[h]
        /\ hashes'[Len(hashes) + 1] = Table(c)
    BY <1>2, <1>3, <1>4, NewTable DEF Types
  <1>6. ASSUME NEW h \in 1 .. Len(hashes)
        PROVE  /\ Capacity(h)' = Capacity(h) /\ Slots(h)' = Slots(h)
               /\ \A u \in Threads : (In(u, h)' <=> In(u, h))
               /\ \A i : At(h, i)' = At(h, i)
               /\ \A u \in Threads : \A i : /\ ComesTo(u, h, i)' <=> ComesTo(u, h, i)
                                            /\ Passed(u, h, i)' <=> Passed(u, h, i)
    BY <1>5, SameTable
  <1> PICK new \in Nat : new = Len(hashes) + 1
    BY <1>2
  <1>7. Capacity(new)' = c /\ \A u \in Threads : ~ In(u, new)'
    <2>1. Table(c).capacity = c /\ \A i \in 0 .. c - 1 : Table(c).key[i] = invalid_thread_id
      BY DEF Table
    <2>2. hashes'[new] = Table(c)
      BY <1>5
    <2>3. Capacity(new)' = c /\ Slots(new)' = 0 .. c - 1
      BY <2>1, <2>2 DEF Capacity, Slots
    <2> QED BY <2>1, <2>2, <2>3 DEF In, ProducerHashAssumption
  <1>8. TablesOK'
    <2>1. ASSUME NEW g \in 1 .. new, NEW h \in 1 .. new, g <= h
          PROVE  Capacity(g)' <= Capacity(h)'
      <3>1. \A k \in 1 .. Len(hashes) : Capacity(k) \in Nat /\ Capacity(k) <= Capacity(Current)
        <4> SUFFICES ASSUME NEW k \in 1 .. Len(hashes)
                     PROVE  Capacity(k) \in Nat /\ Capacity(k) <= Capacity(Current)
          OBVIOUS
        <4>1. k <= Current
          BY <1>2
        <4> QED BY <1>2, <4>1, TableIs, ThreadHas DEF TablesOK
      <3>2. CASE h = new /\ g = new
        BY <1>4, <1>7, <3>2
      <3>3. CASE h = new /\ g # new
        <4>1. g \in 1 .. Len(hashes)
          BY <1>2, <3>3
        <4> QED BY <1>2, <1>4, <1>6, <1>7, <3>1, <3>3, <4>1
      <3>4. CASE h # new
        <4>1. g \in 1 .. Len(hashes) /\ h \in 1 .. Len(hashes)
          BY <1>2, <2>1, <3>4
        <4> QED BY <1>6, <2>1, <4>1, ThreadHas DEF TablesOK
      <3> QED BY <3>2, <3>3, <3>4
    <2>2. ASSUME NEW h \in 1 .. new, NEW i \in Slots(h)', NEW u \in Threads, hashes'[h].key[i] = u
          PROVE  /\ ComesTo(u, h, i)' /\ hashes'[h].value[i] \in Producers
                 /\ \A j \in Slots(h)' : hashes'[h].key[j] = u => i = j
      <3>1. h # new
        BY <1>7, <2>2 DEF In
      <3>2. h \in 1 .. Len(hashes)
        BY <1>2, <3>1
      <3>3. hashes'[h] = hashes[h] /\ Slots(h)' = Slots(h) /\ (ComesTo(u, h, i)' <=> ComesTo(u, h, i))
        BY <1>5, <1>6, <3>2
      <3> QED BY <2>2, <3>2, <3>3, ThreadHas DEF TablesOK
    <2>3. Len(hashes') = new
      BY <1>5
    <2> QED BY <2>1, <2>2, <2>3 DEF TablesOK
  <1> DEFINE l == [loc[t] EXCEPT !.mainHash = Current + 1]
  <1>9. l \in Locals /\ l.mainHash = new /\ l.producer = nullptr
    BY <1>2 DEF Locals
  <1>10. pc' = [pc EXCEPT ![t] = "clear"] /\ loc' = [loc EXCEPT ![t] = l]
    BY <1>2 DEF Resize, Go, Types
  <1>11. /\ OnlyMoves(t) /\ pc'[t] = "clear" /\ loc'[t] = l
         /\ pc' \in [Threads -> Steps] /\ loc' \in [Threads -> Locals]
    <2> HIDE DEF l
    <2> QED BY <1>2, <1>9, <1>10 DEF Types, OnlyMoves, Steps, NewcomerSteps
  <1>12. Types'
    <2>1. Len(hashes') >= 1
      BY <1>2, <1>5
    <2> QED BY <1>2, <1>5, <1>11, <2>1 DEF Types, Resize
  <1>13. \A u \in Threads : (\A h \in 1 .. Len(hashes) : ~ In(u, h)) => \A h \in 1 .. new : ~ In(u, h)'
    <2> SUFFICES ASSUME NEW u \in Threads, \A h \in 1 .. Len(hashes) : ~ In(u, h), NEW h \in 1 .. new
                 PROVE  ~ In(u, h)'
      OBVIOUS
    <2>1. CASE h = new
      BY <1>7, <2>1
    <2>2. CASE h # new
      <3>1. h \in 1 .. Len(hashes)
        BY <1>2, <2>2
      <3> QED BY <1>6, <3>1
    <2> QED BY <2>1, <2>2
  <1>14. ThreadOK(t)'
    <2> HIDE DEF l
    <2>1. Len(hashes') = new /\ new \in 1 .. new
      BY <1>2, <1>5
    <2> QED BY <1>2, <1>9, <1>11, <1>13, <2>1 DEF ThreadOK, StandsAt
  <1>15. ASSUME NEW u \in Threads \ {t} PROVE ThreadOK(u)'
    <2> PICK w \in Steps, m \in Locals : w = pc[u] /\ m = loc[u]
      BY ThreadHas
    <2>1. StandsAt(u, w, m) /\ pc'[u] = w /\ loc'[u] = m
      BY <1>11, ThreadHas DEF OnlyMoves
    <2>2. Len(hashes') = new
      BY <1>5
    <2>3. StandsAt(u, w, m)'
      <3>1. w # "idle" => m.mainHash \in 1 .. Len(hashes) /\ m.mainHash \in 1 .. new
        BY <1>2, <2>1 DEF StandsAt
      <3>2. w = "probe" =>
              /\ m.hash \in 1 .. m.mainHash
              /\ \A h \in m.hash + 1 .. new : ~ In(u, h)'
              /\ Passed(u, m.hash, At(m.hash, m.index))'
        <4> SUFFICES ASSUME w = "probe"
                     PROVE  /\ m.hash \in 1 .. m.mainHash
                            /\ \A h \in m.hash + 1 .. new : ~ In(u, h)'
                            /\ Passed(u, m.hash, At(m.hash, m.index))'
          OBVIOUS
        <4>1. /\ m.hash \in 1 .. m.mainHash
              /\ \A h \in m.hash + 1 .. Len(hashes) : ~ In(u, h)
              /\ Passed(u, m.hash, At(m.hash, m.index))
          BY <2>1 DEF StandsAt
        <4>2. m.hash \in 1 .. Len(hashes)
          BY <1>2, <3>1, <4>1
        <4>3. ASSUME NEW h \in m.hash + 1 .. new PROVE ~ In(u, h)'
          <5>1. CASE h = new
            BY <1>7, <5>1
          <5>2. CASE h # new
            <6>1. h \in 1 .. Len(hashes) /\ h \in m.hash + 1 .. Len(hashes)
              BY <1>2, <4>2, <5>2
            <6> QED BY <1>6, <4>1, <6>1
          <5> QED BY <5>1, <5>2
        <4> QED BY <1>6, <4>1, <4>2, <4>3
      <3>3. w = "insert" =>
              ~ In(u, m.mainHash)' /\ ComesTo(u, m.mainHash, At(m.mainHash, m.index))'
        BY <1>6, <2>1, <3>1 DEF StandsAt
      <3>4. w \in NewcomerSteps => \A h \in 1 .. new : ~ In(u, h)'
        BY <1>13, <2>1 DEF StandsAt
      <3>5. IF w \in {"link", "insert"} THEN m.producer \in Producers ELSE m.producer = nullptr
        BY <2>1 DEF StandsAt
      <3> QED BY <2>2, <3>1, <3>2, <3>3, <3>4, <3>5 DEF StandsAt
    <2> QED BY <2>1, <2>3 DEF ThreadOK
  <1> QED BY <1>8, <1>12, <1>14, <1>15 DEF SearchInv

\* An id in a free slot blocks no search and helps none to end early.
LEMMA Filled ==
  ASSUME NEW h, NEW i, NEW t \in Threads, hashes[h].key[i] = invalid_thread_id,
         Capacity(h)' = Capacity(h), \A j \in Slots(h) \ {i} : hashes'[h].key[j] = hashes[h].key[j]
  PROVE  /\ Slots(h)' = Slots(h) /\ \A j : At(h, j)' = At(h, j)
         /\ \A u \in Threads, j \in Slots(h) : Taken(u, h, j) => Taken(u, h, j)'
         /\ \A u \in Threads, j \in Slots(h) : /\ ComesTo(u, h, j) => ComesTo(u, h, j)'
                                               /\ Passed(u, h, j) => Passed(u, h, j)'
  <1>1. Slots(h)' = Slots(h) /\ \A j : At(h, j)' = At(h, j)
    BY DEF Slots, At
  <1>2. \A u \in Threads, j \in Slots(h) : Taken(u, h, j) => Taken(u, h, j)'
    BY DEF Taken
  <1>3. \A u \in Threads : First(u, h)' = First(u, h)
    BY <1>1 DEF First
  <1>4. \A j : After(h, j)' = After(h, j)
    BY <1>1 DEF After
  <1>5. ASSUME NEW u \in Threads, NEW j \in Slots(h)
        PROVE  /\ ComesTo(u, h, j) => ComesTo(u, h, j)'
               /\ Passed(u, h, j) => Passed(u, h, j)'
    <2>1. \A S \in SUBSET Slots(h) : Stays(u, h, S)' => Stays(u, h, S)
      BY <1>2, <1>3, <1>4 DEF Stays
    <2>2. ComesTo(u, h, j) => ComesTo(u, h, j)'
      BY <1>1, <2>1 DEF ComesTo
    <2>3. Passed(u, h, j) => Passed(u, h, j)'
      BY <1>1, <1>2, <1>3, <1>4 DEF Passed
    <2> QED BY <2>2, <2>3
  <1> QED BY <1>1, <1>2, <1>5

\* Thread t is about to take the free slot of table m for producer p.
Fills(t, m, slot, p) ==
  /\ m \in 1 .. Len(hashes) /\ slot \in Slots(m) /\ p \in Producers
  /\ m = loc[t].mainHash /\ slot = At(m, loc[t].index) /\ p = loc[t].producer
  /\ hashes[m].key[slot] = invalid_thread_id
  /\ Insert(t)

\* Only that slot changes.
SlotTaken(t, m, slot, p) ==
  /\ hashes' \in Seq(AnyTable) /\ Len(hashes') = Len(hashes)
  /\ \A h \in 1 .. Len(hashes) \ {m} : hashes'[h] = hashes[h]
  /\ Capacity(m)' = Capacity(m) /\ hashes'[m].key[slot] = t /\ hashes'[m].value[slot] = p
  /\ \A j \in Slots(m) \ {slot} : /\ hashes'[m].key[j] = hashes[m].key[j]
                                  /\ hashes'[m].value[j] = hashes[m].value[j]

LEMMA SlotFills ==
  ASSUME SearchInv, NEW t \in Threads, NEW m, NEW slot, NEW p, Fills(t, m, slot, p)
  PROVE  SlotTaken(t, m, slot, p)
  <1>0. /\ m \in 1 .. Len(hashes) /\ slot \in Slots(m) /\ p \in Producers
        /\ m = loc[t].mainHash /\ slot = At(m, loc[t].index) /\ p = loc[t].producer
        /\ hashes[m].key[slot] = invalid_thread_id /\ Insert(t)
    BY DEF Fills
  <1>1. /\ Types /\ Len(hashes) \in Nat \ {0} /\ Capacity(m) \in Nat \ {0}
        /\ hashes[m] = [capacity |-> Capacity(m), key |-> hashes[m].key, value |-> hashes[m].value]
        /\ hashes[m].key \in [Slots(m) -> Keys]
        /\ hashes[m].value \in [Slots(m) -> Maybe]
    BY <1>0, ThreadHas, KnownTable, TableIs
  <1> DEFINE table == [hashes[m] EXCEPT !.key[slot] = t, !.value[slot] = p]
  <1>2. /\ table \in AnyTable /\ table.capacity = Capacity(m)
        /\ table.key = [hashes[m].key EXCEPT ![slot] = t]
        /\ table.value = [hashes[m].value EXCEPT ![slot] = p]
    <2> PICK c \in Nat \ {0} : c = Capacity(m)
      BY <1>1
    <2>1. /\ hashes[m] \in [capacity : {c}, key : [0 .. c - 1 -> Keys], value : [0 .. c - 1 -> Maybe]]
          /\ slot \in 0 .. c - 1
      BY <1>0, <1>1 DEF Slots
    <2>2. t \in Keys /\ p \in Maybe
      BY <1>0 DEF Keys, Maybe
    <2>3. table \in [capacity : {c}, key : [0 .. c - 1 -> Keys], value : [0 .. c - 1 -> Maybe]]
      BY <2>1, <2>2
    <2>4. /\ table.key = [hashes[m].key EXCEPT ![slot] = t]
          /\ table.value = [hashes[m].value EXCEPT ![slot] = p]
      BY <2>1, <2>2
    <2> HIDE DEF table
    <2>5. table \in AnyTable
      BY <2>3 DEF AnyTable
    <2>6. table.capacity = Capacity(m)
      BY <2>3
    <2> QED BY <2>4, <2>5, <2>6
  <1>3. hashes' = [hashes EXCEPT ![m] = table]
    <2>1. hashes' = [hashes EXCEPT ![m].key[slot] = t, ![m].value[slot] = p]
      BY <1>0, Zenon DEF Insert
    <2>2. m \in DOMAIN hashes
      BY <1>0, <1>1 DEF Types
    <2> QED BY <2>1, <2>2
  <1>4. /\ hashes' \in Seq(AnyTable) /\ Len(hashes') = Len(hashes) /\ hashes'[m] = table
        /\ \A h \in 1 .. Len(hashes) \ {m} : hashes'[h] = hashes[h]
    <2> HIDE DEF table
    <2> QED BY <1>0, <1>1, <1>2, <1>3 DEF Types
  <1>5. /\ Capacity(m)' = Capacity(m) /\ hashes'[m].key[slot] = t /\ hashes'[m].value[slot] = p
        /\ \A j \in Slots(m) \ {slot} : /\ hashes'[m].key[j] = hashes[m].key[j]
                                        /\ hashes'[m].value[j] = hashes[m].value[j]
    <2> HIDE DEF table
    <2>1. /\ Capacity(m)' = Capacity(m)
          /\ hashes'[m].key = [hashes[m].key EXCEPT ![slot] = t]
          /\ hashes'[m].value = [hashes[m].value EXCEPT ![slot] = p]
      BY <1>2, <1>4 DEF Capacity
    <2>2. hashes'[m].key[slot] = t /\ \A j \in Slots(m) \ {slot} : hashes'[m].key[j] = hashes[m].key[j]
      <3>1. slot \in Slots(m) /\ DOMAIN hashes[m].key = Slots(m)
        BY <1>0, <1>1
      <3> QED BY <3>1, <2>1
    <2>3. hashes'[m].value[slot] = p /\ \A j \in Slots(m) \ {slot} : hashes'[m].value[j] = hashes[m].value[j]
      <3>1. slot \in Slots(m) /\ DOMAIN hashes[m].value = Slots(m)
        BY <1>0, <1>1
      <3> QED BY <3>1, <2>1
    <2> QED BY <2>1, <2>2, <2>3
  <1> QED BY <1>4, <1>5, Zenon DEF SlotTaken

LEMMA InsertStep ==
  ASSUME ProducerHashAssumption, SearchInv, NEW t \in Threads, Insert(t)
  PROVE  SearchInv'
  <1> PICK m \in Nat, slot \in Nat : m = loc[t].mainHash /\ slot = At(m, loc[t].index)
    <2>1. loc[t].mainHash \in 1 .. Len(hashes) /\ loc[t].index \in Nat /\ Types
      BY ThreadHas DEF Insert, StandsAt, Locals
    <2>2. At(loc[t].mainHash, loc[t].index) \in Slots(loc[t].mainHash)
      BY <2>1, AtIsSlot
    <2> QED BY <2>1, <2>2, KnownTable, TableIs DEF Slots
  <1>1. /\ pc[t] = "insert" /\ loc[t] \in Locals /\ OthersOK /\ Types /\ TablesOK
        /\ loc[t].index \in Nat
    BY ThreadHas DEF Insert, Locals
  <1>2. /\ m \in 1 .. Len(hashes) /\ ~ In(t, m) /\ ComesTo(t, m, slot) /\ loc[t].producer \in Producers
    BY <1>1, ThreadHas DEF StandsAt, NewcomerSteps
  <1>3. /\ slot \in Slots(m) /\ Len(hashes) \in Nat \ {0} /\ Capacity(m) \in Nat \ {0}
        /\ hashes[m] = [capacity |-> Capacity(m), key |-> hashes[m].key, value |-> hashes[m].value]
        /\ hashes[m].key \in [Slots(m) -> Keys]
        /\ hashes[m].value \in [Slots(m) -> Maybe]
    BY <1>1, <1>2, AtIsSlot, KnownTable, TableIs
  <1>4. CASE hashes[m].key[slot] # invalid_thread_id
    <2> DEFINE l == [loc[t] EXCEPT !.index = slot + 1]
    <2>1. /\ l \in Locals /\ l.mainHash = m /\ l.index = slot + 1 /\ l.producer = loc[t].producer
      BY <1>1 DEF Locals
    <2>2. /\ pc' = [pc EXCEPT ![t] = "insert"] /\ loc' = [loc EXCEPT ![t] = l]
          /\ UNCHANGED hashes /\ OthersOK'
      BY <1>1, <1>4 DEF Insert, Types, OthersOK
    <2>3. Taken(t, m, slot)
      BY <1>2, <1>3, <1>4 DEF Taken, In
    <2>4. ComesTo(t, m, At(m, slot + 1))
      BY <1>2, <1>3, <2>3, SearchGoesOn DEF After
    <2> HIDE DEF l
    <2>5. StandsAt(t, "insert", l)
      BY <1>2, <2>1, <2>4 DEF StandsAt, NewcomerSteps
    <2> QED BY <2>1, <2>2, <2>5, ThreadSteps DEF Steps
  <1>5. CASE hashes[m].key[slot] = invalid_thread_id
    <2> PICK p \in Producers : p = loc[t].producer
      BY <1>2
    <2>1. /\ hashes' = [hashes EXCEPT ![m].key[slot] = t, ![m].value[slot] = p] /\ Return(t, p)
          /\ UNCHANGED <<implicitProducerHashCount, implicitProducerHashResizeInProgress,
                         producerListTail, next>>
      BY <1>5 DEF Insert
    <2>4. /\ hashes' \in Seq(AnyTable) /\ Len(hashes') = Len(hashes)
          /\ \A h \in 1 .. Len(hashes) \ {m} : hashes'[h] = hashes[h]
          /\ Capacity(m)' = Capacity(m) /\ hashes'[m].key[slot] = t /\ hashes'[m].value[slot] = p
          /\ \A j \in Slots(m) \ {slot} : /\ hashes'[m].key[j] = hashes[m].key[j]
                                          /\ hashes'[m].value[j] = hashes[m].value[j]
      <3>1. Fills(t, m, slot, p)
        BY <1>2, <1>3, <1>5 DEF Fills
      <3> QED BY <3>1, SlotFills DEF SlotTaken
    <2>5. /\ Capacity(m)' = Capacity(m) /\ hashes'[m].key[slot] = t /\ hashes'[m].value[slot] = p
          /\ \A j \in Slots(m) \ {slot} : /\ hashes'[m].key[j] = hashes[m].key[j]
                                          /\ hashes'[m].value[j] = hashes[m].value[j]
      BY <2>4
    <2>6. ASSUME NEW h \in 1 .. Len(hashes)
          PROVE  /\ Capacity(h)' = Capacity(h) /\ Slots(h)' = Slots(h)
                 /\ \A i : At(h, i)' = At(h, i)
                 /\ \A u \in Threads \ {t} : In(u, h)' <=> In(u, h)
                 /\ \A u \in Threads, i \in Slots(h) : /\ ComesTo(u, h, i) => ComesTo(u, h, i)'
                                                       /\ Passed(u, h, i) => Passed(u, h, i)'
      <3>1. CASE h = m
        <4>1. \A u \in Threads \ {t} : In(u, m)' <=> In(u, m)
          <5>1. Slots(m)' = Slots(m)
            BY <2>5 DEF Slots
          <5> QED BY <1>5, <2>5, <5>1, SMTT(20) DEF In, ProducerHashAssumption
        <4> QED BY <1>5, <2>5, <3>1, <4>1, Filled, ZenonT(40)
      <3>2. CASE h # m
        BY <2>4, <3>2, SameTable
      <3> QED BY <3>1, <3>2
    <2>7. TablesOK'
      <3>1. ASSUME NEW h \in 1 .. Len(hashes), NEW i \in Slots(h), NEW u \in Threads,
                   hashes'[h].key[i] = u
            PROVE  /\ ComesTo(u, h, i)' /\ hashes'[h].value[i] \in Producers
                   /\ \A j \in Slots(h) : hashes'[h].key[j] = u => i = j
        <4>1. CASE h # m
          BY <1>1, <2>4, <2>6, <3>1, <4>1 DEF TablesOK
        <4>2. CASE h = m /\ u = t
          <5>1. \A j \in Slots(m) : hashes'[m].key[j] = t => j = slot
            BY <1>2, <2>5 DEF In
          <5> QED BY <1>2, <1>3, <2>5, <2>6, <3>1, <4>2, <5>1
        <4>3. CASE h = m /\ u # t
          <5>1. \A j \in Slots(m) : hashes'[m].key[j] = u => j # slot /\ hashes[m].key[j] = u
            BY <2>5, <4>3
          <5>2. i # slot /\ hashes[m].key[i] = u /\ i \in Slots(m)
            BY <3>1, <4>3, <5>1
          <5>3. /\ ComesTo(u, m, i) /\ hashes[m].value[i] \in Producers
                /\ \A j \in Slots(m) : hashes[m].key[j] = u => i = j
            BY <1>1, <1>2, <5>2 DEF TablesOK
          <5> QED BY <2>5, <2>6, <4>3, <5>1, <5>2, <5>3
        <4> QED BY <4>1, <4>2, <4>3
      <3>2. \A g, h \in 1 .. Len(hashes) : g <= h => Capacity(g)' <= Capacity(h)'
        BY <1>1, <2>6 DEF TablesOK
      <3> QED BY <2>4, <2>6, <3>1, <3>2 DEF TablesOK
    <2>8. /\ OnlyMoves(t) /\ pc'[t] = "idle" /\ loc'[t] = NoLocals /\ Types'
      <3>1. NoLocals \in Locals
        BY DEF NoLocals, Locals, Maybe
      <3>2. /\ pc' \in [Threads -> Steps] /\ loc' \in [Threads -> Locals]
            /\ OnlyMoves(t) /\ pc'[t] = "idle" /\ loc'[t] = NoLocals
        BY <1>1, <2>1, <3>1 DEF Return, Go, Types, OnlyMoves, Steps
      <3>3. got' \in [Threads -> SUBSET Producers]
        BY <1>1, <2>1 DEF Return, Types
      <3>4. Len(hashes') >= 1
        BY <1>1, <2>4 DEF Types
      <3> QED BY <1>1, <2>1, <2>4, <3>2, <3>3, <3>4 DEF Types
    <2>9. ThreadOK(t)'
      BY <2>8 DEF ThreadOK, StandsAt, NewcomerSteps, NoLocals
    <2>10. ASSUME NEW u \in Threads \ {t} PROVE ThreadOK(u)'
      <3> PICK w \in Steps, l \in Locals : w = pc[u] /\ l = loc[u]
        BY ThreadHas
      <3>1. StandsAt(u, w, l) /\ pc'[u] = w /\ loc'[u] = l
        BY <2>8, ThreadHas DEF OnlyMoves
      <3>2. /\ w # "idle" => l.mainHash \in 1 .. Len(hashes)
            /\ l.index \in Nat
        BY <3>1 DEF StandsAt, Locals
      <3>3. w = "probe" =>
              /\ l.hash \in 1 .. l.mainHash
              /\ \A h \in l.hash + 1 .. Len(hashes) : ~ In(u, h)'
              /\ Passed(u, l.hash, At(l.hash, l.index))'
        <4> SUFFICES ASSUME w = "probe"
                     PROVE  /\ l.hash \in 1 .. l.mainHash
                            /\ \A h \in l.hash + 1 .. Len(hashes) : ~ In(u, h)'
                            /\ Passed(u, l.hash, At(l.hash, l.index))'
          OBVIOUS
        <4>1. /\ l.hash \in 1 .. l.mainHash
              /\ \A h \in l.hash + 1 .. Len(hashes) : ~ In(u, h)
              /\ Passed(u, l.hash, At(l.hash, l.index))
          BY <3>1 DEF StandsAt
        <4>2. l.hash \in 1 .. Len(hashes)
          BY <1>3, <3>2, <4>1
        <4>3. ASSUME NEW h \in l.hash + 1 .. Len(hashes) PROVE ~ In(u, h)'
          <5>1. h \in 1 .. Len(hashes)
            BY <4>2
          <5> QED BY <2>6, <4>1, <5>1
        <4>4. At(l.hash, l.index) \in Slots(l.hash)
          BY <1>1, <3>2, <4>2, AtIsSlot
        <4> QED BY <2>6, <4>1, <4>2, <4>3, <4>4
      <3>4. w = "insert" =>
              ~ In(u, l.mainHash)' /\ ComesTo(u, l.mainHash, At(l.mainHash, l.index))'
        <4> SUFFICES ASSUME w = "insert"
                     PROVE  ~ In(u, l.mainHash)' /\ ComesTo(u, l.mainHash, At(l.mainHash, l.index))'
          OBVIOUS
        <4>1. /\ ~ In(u, l.mainHash) /\ ComesTo(u, l.mainHash, At(l.mainHash, l.index))
              /\ l.mainHash \in 1 .. Len(hashes)
          BY <3>1 DEF StandsAt
        <4>2. At(l.mainHash, l.index) \in Slots(l.mainHash)
          BY <1>1, <3>2, <4>1, AtIsSlot
        <4> QED BY <2>6, <4>1, <4>2
      <3>5. w \in NewcomerSteps => \A h \in 1 .. Len(hashes) : ~ In(u, h)'
        BY <2>6, <3>1 DEF StandsAt
      <3>6. IF w \in {"link", "insert"} THEN l.producer \in Producers ELSE l.producer = nullptr
        BY <3>1 DEF StandsAt
      <3>7. StandsAt(u, w, l)'
        BY <2>4, <3>2, <3>3, <3>4, <3>5, <3>6 DEF StandsAt
      <3> QED BY <3>1, <3>7 DEF ThreadOK
    <2> QED BY <2>7, <2>8, <2>9, <2>10 DEF SearchInv
  <1> QED BY <1>4, <1>5

----------------------------------------------------------------------------
(* What every state the program can be in has. *)

LEMMA InitSearchInv ==
  ASSUME ProducerHashAssumption, Init
  PROVE  SearchInv
  <1> DEFINE size == INITIAL_IMPLICIT_PRODUCER_HASH_SIZE
  <1>1. /\ size \in Nat \ {0} /\ hashes = <<Table(size)>> /\ Table(size) \in AnyTable
    BY NewTable DEF Init, ProducerHashAssumption
  <1>2. /\ hashes \in Seq(AnyTable) /\ Len(hashes) = 1 /\ hashes[1] = Table(size)
    <2> HIDE DEF size
    <2> QED BY <1>1
  <1>3. Types
    <2>1. NoLocals \in Locals /\ "idle" \in Steps /\ nullptr \in Maybe
      BY DEF NoLocals, Locals, Maybe, Steps
    <2>2. pc \in [Threads -> Steps] /\ loc \in [Threads -> Locals]
      BY <2>1 DEF Init
    <2>3. next \in [Producers -> Maybe] /\ got \in [Threads -> SUBSET Producers]
      BY <2>1 DEF Init
    <2>4. implicitProducerHashCount \in Int /\ implicitProducerHashResizeInProgress \in BOOLEAN
      <3>1. implicitProducerHashCount \in Int
        BY DEF Init
      <3>2. implicitProducerHashResizeInProgress \in BOOLEAN
        BY Zenon DEF Init
      <3> QED BY <3>1, <3>2
    <2> QED BY <1>2, <2>1, <2>2, <2>3, <2>4 DEF Init, Types
  <1>4. \A i \in Slots(1) : hashes[1].key[i] = invalid_thread_id
    BY <1>2 DEF Slots, Capacity, Table
  <1>5. TablesOK
    <2>1. \A g, h \in 1 .. Len(hashes) : g = 1 /\ h = 1
      BY <1>2
    <2>2. Capacity(1) \in Nat
      BY <1>1, <1>2 DEF Capacity, Table
    <2>3. \A i \in Slots(1) : \A t \in Threads : hashes[1].key[i] # t
      BY <1>4 DEF ProducerHashAssumption
    <2>4. \A g, h \in 1 .. Len(hashes) : g <= h => Capacity(g) <= Capacity(h)
      BY <2>1, <2>2
    <2> QED BY <2>1, <2>3, <2>4 DEF TablesOK
  <1>6. \A t \in Threads : ThreadOK(t)
    BY DEF Init, ThreadOK, StandsAt, NewcomerSteps, NoLocals
  <1> QED BY <1>3, <1>5, <1>6 DEF SearchInv

LEMMA NextSearchInv ==
  ASSUME ProducerHashAssumption, SearchInv, [Next]_vars
  PROVE  SearchInv'
  <1>1. ASSUME NEW t \in Threads, Call(t) \/ Continue(t) PROVE SearchInv'
    BY <1>1, CallStep, ProbeStep, GrowSteps, ResizeStep, CreateStep, LinkStep, InsertStep DEF Continue
  <1>2. CASE UNCHANGED vars
    <2>1. UNCHANGED <<hashes, pc, loc>> /\ Types'
      BY <1>2 DEF SearchInv, vars, shared, Types
    <2>2. TablesOK'
      BY <2>1 DEF SearchInv, TablesOK, Capacity, Slots, ComesTo, Stays, First, Taken, After, At
    <2>3. ASSUME NEW u \in Threads PROVE ThreadOK(u)'
      <3>1. \A h : /\ In(u, h)' <=> In(u, h)
                   /\ \A i : /\ At(h, i)' = At(h, i)
                             /\ ComesTo(u, h, i)' <=> ComesTo(u, h, i)
                             /\ Passed(u, h, i)' <=> Passed(u, h, i)
        BY <2>1, SameTable
      <3> QED BY <2>1, <3>1 DEF SearchInv, ThreadOK, StandsAt
    <2> QED BY <2>1, <2>2, <2>3 DEF SearchInv
  <1> QED BY <1>1, <1>2 DEF Next

LEMMA SearchInvHolds ==
  ASSUME ProducerHashAssumption
  PROVE  Spec => []SearchInv
  <1> USE ProducerHashAssumption
  <1> QED BY InitSearchInv, NextSearchInv, PTL DEF Spec

----------------------------------------------------------------------------
(* What a step does to the tables as a whole. *)

\* t has a slot in some table.
Listing(t) == \E h \in 1 .. Len(hashes) : In(t, h)

\* The producers the tables name for t.
Named(t) ==
  {p \in Producers : \E h \in 1 .. Len(hashes) : \E i \in Slots(h) :
                       hashes[h].key[i] = t /\ hashes[h].value[i] = p}

\* Only t moves, and only t is returned a producer.
OneCalls(t) == OnlyMoves(t) /\ \A u \in Threads \ {t} : got'[u] = got[u]

\* No key is written; a table may be added.
KeysStay ==
  /\ Len(hashes') \in Nat /\ Len(hashes') >= Len(hashes)
  /\ \A h \in 1 .. Len(hashes) : hashes'[h] = hashes[h]
  /\ \A u \in Threads : \A h \in 1 .. Len(hashes') : h > Len(hashes) => ~ In(u, h)'

LEMMA Alone ==
  ASSUME SearchInv, NEW t \in Threads, Call(t) \/ Continue(t)
  PROVE  OneCalls(t)
  <1>1. /\ pc \in [Threads -> Steps] /\ loc \in [Threads -> Locals]
        /\ got \in [Threads -> SUBSET Producers]
    BY DEF SearchInv, Types
  <1>2. ASSUME NEW p, Return(t, p) PROVE OneCalls(t)
    BY <1>1, <1>2 DEF Return, Go, OneCalls, OnlyMoves
  <1>3. CASE Call(t)
    BY <1>1, <1>3 DEF Call, Go, OneCalls, OnlyMoves
  <1>4. CASE Probe(t)
    BY <1>1, <1>2, <1>4 DEF Probe, Go, OneCalls, OnlyMoves
  <1>5. CASE Count(t)
    BY <1>1, <1>5 DEF Count, Go, OneCalls, OnlyMoves
  <1>6. CASE Check(t)
    BY <1>1, <1>6 DEF Check, Go, OneCalls, OnlyMoves
  <1>7. CASE Reload(t)
    BY <1>1, <1>7 DEF Reload, Go, OneCalls, OnlyMoves
  <1>8. CASE Resize(t)
    BY <1>1, <1>8 DEF Resize, Go, OneCalls, OnlyMoves
  <1>9. CASE ResizeFails(t)
    BY <1>1, <1>9 DEF ResizeFails, Go, OneCalls, OnlyMoves
  <1>10. CASE Clear(t)
    BY <1>1, <1>2, <1>10 DEF Clear, Go, OneCalls, OnlyMoves
  <1>11. CASE Room(t)
    BY <1>1, <1>11 DEF Room, Go, OneCalls, OnlyMoves
  <1>12. CASE Create(t)
    BY <1>1, <1>2, <1>12 DEF Create, Go, OneCalls, OnlyMoves
  <1>13. CASE Link(t)
    BY <1>1, <1>13 DEF Link, Go, OneCalls, OnlyMoves
  <1>14. CASE Insert(t)
    BY <1>1, <1>2, <1>14 DEF Insert, Go, OneCalls, OnlyMoves
  <1> QED BY <1>3, <1>4, <1>5, <1>6, <1>7, <1>8, <1>9, <1>10, <1>11, <1>12, <1>13, <1>14 DEF Continue

LEMMA SameTables ==
  ASSUME SearchInv, UNCHANGED hashes
  PROVE  KeysStay
  BY KnownTable DEF KeysStay, SearchInv

LEMMA TableAdded ==
  ASSUME ProducerHashAssumption, SearchInv, NEW t \in Threads, Resize(t)
  PROVE  /\ KeysStay /\ Len(hashes') = Len(hashes) + 1
         /\ Capacity(Len(hashes)) <= hashes'[Len(hashes) + 1].capacity
  <1>1. SearchInv' /\ Len(hashes) \in Nat \ {0} /\ Types
    BY ResizeStep, KnownTable DEF SearchInv
  <1>2. PICK c : hashes' = Append(hashes, Table(c))
    BY DEF Resize
  <1>3. /\ Len(hashes') = Len(hashes) + 1 /\ hashes'[Len(hashes) + 1] = Table(c)
        /\ \A h \in 1 .. Len(hashes) : hashes'[h] = hashes[h]
    BY <1>1, <1>2 DEF Types
  <1> PICK new \in Nat : new = Len(hashes) + 1
    BY <1>1
  <1>4. \A u \in Threads : ~ In(u, new)'
    <2>1. /\ Slots(new)' = 0 .. c - 1
          /\ \A i \in 0 .. c - 1 : hashes'[new].key[i] = invalid_thread_id
      BY <1>3 DEF Table, Slots, Capacity
    <2> QED BY <2>1 DEF In, ProducerHashAssumption
  <1>5. KeysStay
    <2>1. \A h \in 1 .. Len(hashes') : h > Len(hashes) => h = new
      BY <1>1, <1>3
    <2>2. Len(hashes') \in Nat /\ Len(hashes') >= Len(hashes)
      BY <1>1, <1>3
    <2> QED BY <1>3, <1>4, <2>1, <2>2 DEF KeysStay
  <1>6. Capacity(Len(hashes)) <= hashes'[new].capacity
    <2>1. new - 1 \in 1 .. Len(hashes') /\ new \in 1 .. Len(hashes') /\ new - 1 <= new
      BY <1>1, <1>3
    <2>2. Capacity(new - 1)' <= Capacity(new)'
      BY <1>1, <2>1 DEF SearchInv, TablesOK
    <2>3. hashes'[new - 1] = hashes[Len(hashes)]
      BY <1>1, <1>3
    <2> QED BY <2>2, <2>3 DEF Capacity
  <1> QED BY <1>1, <1>3, <1>5, <1>6

LEMMA TablesAgree ==
  ASSUME SearchInv, KeysStay
  PROVE  /\ \A u \in Threads, h \in 1 .. Len(hashes) : In(u, h)' <=> In(u, h)
         /\ \A h \in 1 .. Len(hashes) : Capacity(h)' = Capacity(h)
         /\ \A u \in Threads : (Listing(u)' <=> Listing(u)) /\ Named(u)' = Named(u)
  <1>1. Len(hashes) \in Nat \ {0} /\ 1 .. Len(hashes) \subseteq 1 .. Len(hashes')
    BY KnownTable DEF SearchInv, KeysStay
  <1>2. ASSUME NEW h \in 1 .. Len(hashes)
        PROVE  /\ Capacity(h)' = Capacity(h) /\ Slots(h)' = Slots(h)
               /\ \A u \in Threads : In(u, h)' <=> In(u, h)
    BY SameTable DEF KeysStay
  <1>3. ASSUME NEW u \in Threads PROVE Listing(u)' <=> Listing(u)
    <2>1. Listing(u) => Listing(u)'
      BY <1>1, <1>2 DEF Listing
    <2>2. ASSUME NEW h \in 1 .. Len(hashes'), In(u, h)' PROVE Listing(u)
      <3>1. h \in 1 .. Len(hashes)
        BY <1>1, <2>2 DEF KeysStay
      <3> QED BY <1>2, <2>2, <3>1 DEF Listing
    <2> QED BY <2>1, <2>2 DEF Listing
  <1>4. ASSUME NEW u \in Threads PROVE Named(u)' = Named(u)
    <2>1. Named(u) \subseteq Named(u)'
      BY <1>1, <1>2 DEF Named, KeysStay
    <2>2. ASSUME NEW p \in Producers, NEW h \in 1 .. Len(hashes'), NEW i \in Slots(h)',
                 hashes'[h].key[i] = u, hashes'[h].value[i] = p
          PROVE  p \in Named(u)
      <3>1. In(u, h)'
        BY <2>2 DEF In
      <3>2. h \in 1 .. Len(hashes)
        BY <1>1, <3>1 DEF KeysStay
      <3> QED BY <1>2, <2>2, <3>2 DEF Named, KeysStay
    <2> QED BY <2>1, <2>2 DEF Named
  <1> QED BY <1>2, <1>3, <1>4

LEMMA KeyAdded ==
  ASSUME ProducerHashAssumption, SearchInv, NEW t \in Threads, NEW m, NEW slot, NEW p, Fills(t, m, slot, p)
  PROVE  /\ Len(hashes') = Len(hashes)
         /\ \A h \in 1 .. Len(hashes) : Capacity(h)' = Capacity(h) /\ Slots(h)' = Slots(h)
         /\ \A u \in Threads, h \in 1 .. Len(hashes) : In(u, h)' <=> (In(u, h) \/ (u = t /\ h = m))
         /\ \A u \in Threads \ {t} : Named(u)' = Named(u)
         /\ Named(t)' = Named(t) \cup {p}
  <1>1. /\ m \in 1 .. Len(hashes) /\ slot \in Slots(m) /\ p \in Producers
        /\ hashes[m].key[slot] = invalid_thread_id /\ SlotTaken(t, m, slot, p)
    BY SlotFills DEF Fills
  <1>2. Len(hashes') = Len(hashes)
    BY <1>1 DEF SlotTaken
  <1>3. ASSUME NEW h \in 1 .. Len(hashes)
        PROVE  Capacity(h)' = Capacity(h) /\ Slots(h)' = Slots(h)
    BY <1>1, <1>3 DEF SlotTaken, Capacity, Slots
  <1>4. ASSUME NEW u \in Threads, NEW h \in 1 .. Len(hashes), NEW i \in Slots(h), NEW q \in Producers
        PROVE  (hashes'[h].key[i] = u /\ hashes'[h].value[i] = q) <=>
                 (\/ hashes[h].key[i] = u /\ hashes[h].value[i] = q
                  \/ u = t /\ q = p /\ h = m /\ i = slot)
    <2>1. u # invalid_thread_id
      BY DEF ProducerHashAssumption
    <2> QED BY <1>1, <1>4, <2>1 DEF SlotTaken
  <1>5. ASSUME NEW u \in Threads, NEW h \in 1 .. Len(hashes)
        PROVE  In(u, h)' <=> (In(u, h) \/ (u = t /\ h = m))
    <2>1. u # invalid_thread_id
      BY DEF ProducerHashAssumption
    <2>2. \A i \in Slots(h) : hashes'[h].key[i] = u <=> (hashes[h].key[i] = u \/ (u = t /\ h = m /\ i = slot))
      BY <1>1, <1>5, <2>1 DEF SlotTaken
    <2> QED BY <1>1, <1>3, <2>2 DEF In
  <1>6. ASSUME NEW u \in Threads \ {t} PROVE Named(u)' = Named(u)
    BY <1>2, <1>3, <1>4 DEF Named
  <1>7. Named(t)' = Named(t) \cup {p}
    <2>1. Named(t)' \subseteq Named(t) \cup {p}
      BY <1>2, <1>3, <1>4 DEF Named
    <2>2. Named(t) \subseteq Named(t)'
      BY <1>2, <1>3, <1>4 DEF Named
    <2>3. p \in Named(t)'
      BY <1>1, <1>2, <1>3, <1>4 DEF Named
    <2> QED BY <2>1, <2>2, <2>3
  <1> QED BY <1>2, <1>3, <1>5, <1>6, <1>7

----------------------------------------------------------------------------
(* A thread has one producer, and it is its own. *)

\* The producers a call of t returned, carries, or would find.
Mine(t) == Named(t) \cup ({loc[t].producer} \ {nullptr}) \cup got[t]

OwnInv ==
  \A t \in Threads :
    /\ got[t] \subseteq Named(t)
    /\ \A p, q \in Mine(t) : p = q
    /\ \A u \in Threads \ {t} : Mine(t) \cap Mine(u) = {}

\* No thread has a producer it did not have, and the tables keep theirs.
NoGain(t) ==
  /\ \A u \in Threads \ {t} : Mine(u)' = Mine(u) /\ Named(u)' = Named(u)
  /\ Mine(t)' \subseteq Mine(t) /\ Named(t) \subseteq Named(t)'

LEMMA NobodyGains ==
  ASSUME OwnInv, NEW t \in Threads, OneCalls(t),
         \A u \in Threads \ {t} : Named(u)' = Named(u), Named(t) \subseteq Named(t)',
         Mine(t)' \subseteq Mine(t), got'[t] \subseteq Named(t)'
  PROVE  OwnInv' /\ NoGain(t)
  <1>1. \A u \in Threads \ {t} : Mine(u)' = Mine(u) /\ got'[u] \subseteq Named(u)'
    BY DEF OneCalls, OnlyMoves, OwnInv, Mine
  <1>2. \A u \in Threads : Mine(u)' \subseteq Mine(u) /\ got'[u] \subseteq Named(u)'
    BY <1>1
  <1> HIDE DEF Mine, Named
  <1> QED BY <1>1, <1>2 DEF OwnInv, NoGain

LEMMA NoneGained ==
  ASSUME SearchInv, OwnInv, NEW t \in Threads, OneCalls(t), KeysStay,
         loc'[t].producer \in Mine(t) \cup {nullptr}, got'[t] \subseteq Named(t)
  PROVE  OwnInv' /\ NoGain(t)
  <1>1. \A u \in Threads : Named(u)' = Named(u)
    BY TablesAgree
  <1>2. Mine(t)' \subseteq Mine(t)
    BY <1>1 DEF Mine
  <1> QED BY <1>1, <1>2, NobodyGains

LEMMA OwnReturn ==
  ASSUME SearchInv, OwnInv, NEW t \in Threads, OneCalls(t), KeysStay, NEW p, Return(t, p),
         p \in Named(t) \cup {nullptr}
  PROVE  OwnInv' /\ NoGain(t)
  <1>1. loc'[t].producer = nullptr /\ got'[t] \subseteq Named(t)
    BY DEF Return, NoLocals, SearchInv, Types, OwnInv
  <1> QED BY <1>1, NoneGained

LEMMA OwnKept ==
  ASSUME SearchInv, OwnInv, NEW t \in Threads, OneCalls(t), KeysStay,
         loc'[t].producer = loc[t].producer, UNCHANGED got
  PROVE  OwnInv' /\ NoGain(t)
  BY NoneGained DEF OwnInv, Mine

LEMMA OwnProbe ==
  ASSUME ProducerHashAssumption, SearchInv, OwnInv, NEW t \in Threads, Probe(t)
  PROVE  OwnInv' /\ NoGain(t)
  <1> DEFINE h == loc[t].hash
             slot == At(h, loc[t].index)
  <1>1. OneCalls(t) /\ UNCHANGED hashes /\ KeysStay /\ loc \in [Threads -> Locals] /\ loc[t] \in Locals
    BY Alone, SameTables DEF Continue, Probe, shared, SearchInv, Types
  <1>2. h \in 1 .. Len(hashes) /\ slot \in Slots(h) /\ TablesOK
    <2>1. /\ h \in 1 .. loc[t].mainHash /\ loc[t].mainHash \in 1 .. Len(hashes)
          /\ Types /\ loc[t].index \in Nat /\ TablesOK
      BY ThreadHas DEF Probe, StandsAt, Locals
    <2> QED BY <2>1, AtIsSlot, KnownTable
  <1>3. hashes[h].key[slot] = t => hashes[h].value[slot] \in Named(t)
    BY <1>2 DEF TablesOK, Named
  <1>4. CASE Return(t, hashes[h].value[slot]) /\ hashes[h].key[slot] = t
    <2> HIDE DEF h, slot
    <2> QED BY <1>1, <1>3, <1>4, OwnReturn
  <1>5. CASE /\ loc' = [loc EXCEPT ![t].index = HashedId[t], ![t].producer = hashes[h].value[slot]]
             /\ hashes[h].key[slot] = t /\ UNCHANGED got
    <2>1. loc'[t].producer = hashes[h].value[slot]
      BY <1>1, <1>5 DEF Locals
    <2>2. loc'[t].producer \in Mine(t) /\ got'[t] \subseteq Named(t)
      BY <1>3, <1>5, <2>1 DEF Mine, OwnInv
    <2> QED BY <1>1, <2>2, NoneGained
  <1>6. CASE loc'[t].producer = loc[t].producer /\ UNCHANGED got
    BY <1>1, <1>6, OwnKept
  <1>7. CASE loc' = [loc EXCEPT ![t].hash = h - 1, ![t].index = HashedId[t]] /\ UNCHANGED got
    BY <1>1, <1>6, <1>7 DEF Locals
  <1>8. CASE loc' = [loc EXCEPT ![t].index = slot + 1] /\ UNCHANGED got
    BY <1>1, <1>6, <1>8 DEF Locals
  <1> QED BY <1>4, <1>5, <1>7, <1>8 DEF Probe

LEMMA OwnQuiet ==
  ASSUME ProducerHashAssumption, SearchInv, OwnInv, NEW t \in Threads,
         \/ Call(t) \/ Count(t) \/ Check(t) \/ Reload(t) \/ Resize(t) \/ ResizeFails(t) \/ Clear(t)
         \/ Room(t) \/ Link(t)
  PROVE  OwnInv' /\ NoGain(t)
  <1>1. OneCalls(t) /\ loc \in [Threads -> Locals] /\ loc[t] \in Locals
    BY Alone DEF Continue, SearchInv, Types
  <1>2. KeysStay
    <2>1. CASE Resize(t)
      BY <2>1, TableAdded
    <2>2. CASE ~ Resize(t)
      BY <2>2, SameTables DEF Call, Count, Check, Reload, ResizeFails, Clear, Room, Link, shared
    <2> QED BY <2>1, <2>2
  <1>3. CASE Clear(t)
    <2>1. CASE Return(t, nullptr)
      BY <1>1, <1>2, <2>1, OwnReturn
    <2>2. CASE UNCHANGED <<loc, got>>
      BY <1>1, <1>2, <2>2, OwnKept
    <2> QED BY <1>3, <2>1, <2>2 DEF Clear
  <1>4. CASE ~ Clear(t)
    <2>1. CASE Call(t)
      BY <1>1, <1>2, <2>1, OwnKept DEF Call, Locals
    <2>2. CASE Count(t) \/ Resize(t)
      BY <1>1, <1>2, <2>2, OwnKept DEF Count, Resize, Locals
    <2>3. CASE Check(t) \/ ResizeFails(t)
      BY <1>1, <1>2, <2>3, OwnKept DEF Check, ResizeFails
    <2>4. CASE Reload(t)
      BY <1>1, <1>2, <2>4, OwnKept DEF Reload, Locals
    <2>5. CASE Room(t)
      BY <1>1, <1>2, <2>5, OwnKept DEF Room, Locals
    <2>6. CASE Link(t)
      BY <1>1, <1>2, <2>6, OwnKept DEF Link, Locals
    <2> QED BY <1>4, <2>1, <2>2, <2>3, <2>4, <2>5, <2>6
  <1> QED BY <1>3, <1>4

LEMMA OwnCreate ==
  ASSUME ProducerHashAssumption, SearchInv, OwnInv, NEW t \in Threads, Create(t)
  PROVE  /\ OwnInv'
         /\ \/ NoGain(t)
            \/ /\ pc'[t] = "link" /\ \A u \in Threads : Named(u)' = Named(u)
               /\ \A u \in Threads \ {t} : Mine(u)' = Mine(u)
  <1>1. /\ OneCalls(t) /\ UNCHANGED hashes /\ KeysStay /\ loc \in [Threads -> Locals] /\ loc[t] \in Locals
        /\ Types /\ TablesOK
    BY Alone, SameTables DEF Continue, Create, SearchInv, Types
  <1>2. CASE Return(t, nullptr)
    BY <1>1, <1>2, OwnReturn
  <1>3. ASSUME NEW p \in Producers \ Created, Go(t, "link"), UNCHANGED got,
               loc' = [loc EXCEPT ![t].producer = p, ![t].prevTail = producerListTail]
        PROVE  /\ OwnInv' /\ pc'[t] = "link" /\ \A u \in Threads : Named(u)' = Named(u)
               /\ \A u \in Threads \ {t} : Mine(u)' = Mine(u)
    <2>1. loc'[t].producer = p /\ p # nullptr
      BY <1>1, <1>3 DEF Locals, ProducerHashAssumption
    <2>2. Mine(t) = {}
      <3>1. pc[t] \in NewcomerSteps /\ pc[t] # "link"
        BY DEF Create, NewcomerSteps
      <3>2. loc[t].producer = nullptr /\ \A h \in 1 .. Len(hashes) : ~ In(t, h)
        BY <3>1, NewcomerHas
      <3>3. Named(t) = {}
        BY <3>2 DEF Named, In
      <3> QED BY <3>2, <3>3 DEF Mine, OwnInv
    <2>3. \A u \in Threads : p \notin Mine(u)
      <3> SUFFICES ASSUME NEW u \in Threads, p \in Mine(u) PROVE FALSE
        OBVIOUS
      <3>1. CASE p \in Named(u)
        <4>1. PICK h \in 1 .. Len(hashes) : \E i \in Slots(h) : hashes[h].value[i] = p
          BY <3>1 DEF Named
        <4>2. h \in DOMAIN hashes /\ Slots(h) = DOMAIN hashes[h].value
          BY <1>1, <4>1, TableIs, KnownTable
        <4>3. p \in {hashes[h].value[i] : i \in DOMAIN hashes[h].value}
          BY <4>1, <4>2
        <4>4. p \in UNION {{hashes[g].value[i] : i \in DOMAIN hashes[g].value} : g \in DOMAIN hashes}
          BY <4>2, <4>3, Zenon
        <4> QED BY <1>3, <4>4 DEF Created
      <3>2. CASE p \in got[u]
        BY <1>3, <3>2 DEF Created
      <3>3. CASE p = loc[u].producer
        <4>1. p \in {loc[v].producer : v \in Threads}
          BY <3>3
        <4> QED BY <1>3, <4>1 DEF Created
      <3> QED BY <3>1, <3>2, <3>3 DEF Mine
    <2>4. \A u \in Threads : Named(u)' = Named(u)
      BY <1>1, TablesAgree
    <2>5. Mine(t)' = {p}
      BY <1>3, <2>1, <2>2, <2>4 DEF Mine
    <2>6. \A u \in Threads \ {t} : Mine(u)' = Mine(u)
      BY <1>1, <2>4 DEF OneCalls, OnlyMoves, Mine
    <2>7. \A u \in Threads : got'[u] \subseteq Named(u)'
      BY <1>3, <2>4 DEF OwnInv
    <2>8. OwnInv'
      BY <2>3, <2>5, <2>6, <2>7 DEF OwnInv
    <2>9. pc'[t] = "link"
      BY <1>1, <1>3 DEF Go, Types
    <2> QED BY <2>4, <2>6, <2>8, <2>9
  <1> QED BY <1>2, <1>3 DEF Create

\* Either the slot was taken, or this is what is left to do.
LEMMA InsertTries ==
  ASSUME SearchInv, NEW t \in Threads, Insert(t)
  PROVE  \/ \E m, slot, p : Fills(t, m, slot, p) /\ Return(t, p)
         \/ /\ UNCHANGED <<hashes, pc, got>>
            /\ loc' = [loc EXCEPT ![t].index = At(loc[t].mainHash, loc[t].index) + 1]
  <1>1. /\ loc[t].mainHash \in 1 .. Len(hashes) /\ loc[t].index \in Nat /\ Types
        /\ loc[t].producer \in Producers
    BY ThreadHas DEF Insert, StandsAt, Locals
  <1>2. At(loc[t].mainHash, loc[t].index) \in Slots(loc[t].mainHash)
    BY <1>1, AtIsSlot
  <1>3. CASE hashes[loc[t].mainHash].key[At(loc[t].mainHash, loc[t].index)] = invalid_thread_id
    <2>1. Fills(t, loc[t].mainHash, At(loc[t].mainHash, loc[t].index), loc[t].producer)
      BY <1>1, <1>2, <1>3 DEF Fills
    <2>2. Return(t, loc[t].producer)
      BY <1>3 DEF Insert
    <2> QED BY <2>1, <2>2
  <1>4. CASE hashes[loc[t].mainHash].key[At(loc[t].mainHash, loc[t].index)] # invalid_thread_id
    BY <1>4 DEF Insert
  <1> QED BY <1>3, <1>4

LEMMA OwnInsert ==
  ASSUME ProducerHashAssumption, SearchInv, OwnInv, NEW t \in Threads, Insert(t)
  PROVE  OwnInv' /\ NoGain(t)
  <1>1. OneCalls(t) /\ loc \in [Threads -> Locals] /\ loc[t] \in Locals /\ Types
    BY Alone DEF Continue, SearchInv, Types
  <1>2. ASSUME NEW m, NEW slot, NEW p, Fills(t, m, slot, p), Return(t, p)
        PROVE  OwnInv' /\ NoGain(t)
    <2>1. /\ \A u \in Threads \ {t} : Named(u)' = Named(u)
          /\ Named(t)' = Named(t) \cup {p}
      BY <1>2, KeyAdded
    <2>2. p \in Mine(t)
      BY <1>2 DEF Fills, Mine, ProducerHashAssumption
    <2>3. loc'[t].producer = nullptr /\ got'[t] = got[t] \cup ({p} \ {nullptr})
      BY <1>1, <1>2 DEF Return, NoLocals, Types
    <2>4. Mine(t)' \subseteq Mine(t)
      BY <2>1, <2>2, <2>3 DEF Mine
    <2>5. got'[t] \subseteq Named(t)'
      BY <2>1, <2>3 DEF OwnInv
    <2> QED BY <1>1, <2>1, <2>4, <2>5, NobodyGains
  <1>3. CASE /\ UNCHANGED <<hashes, pc, got>>
             /\ loc' = [loc EXCEPT ![t].index = At(loc[t].mainHash, loc[t].index) + 1]
    <2>1. KeysStay
      BY <1>3, SameTables
    <2> QED BY <1>1, <1>3, <2>1, OwnKept DEF Locals
  <1> QED BY <1>2, <1>3, InsertTries

LEMMA OwnInvHolds ==
  ASSUME ProducerHashAssumption
  PROVE  Spec => []OwnInv
  <1>1. ASSUME Init PROVE OwnInv
    <2>1. \A t \in Threads : got[t] = {} /\ loc[t].producer = nullptr
      BY <1>1 DEF Init, NoLocals
    <2>2. Len(hashes) = 1 /\ hashes[1] = Table(INITIAL_IMPLICIT_PRODUCER_HASH_SIZE)
      BY <1>1 DEF Init
    <2>3. \A t \in Threads : Named(t) = {}
      BY <2>2 DEF Named, Slots, Capacity, Table, ProducerHashAssumption
    <2> QED BY <2>1, <2>3 DEF OwnInv, Mine
  <1>2. ASSUME SearchInv, OwnInv, [Next]_vars PROVE OwnInv'
    <2>1. ASSUME NEW t \in Threads, Call(t) \/ Continue(t) PROVE OwnInv'
      BY <1>2, <2>1, OwnProbe, OwnQuiet, OwnCreate, OwnInsert DEF Continue
    <2>2. CASE UNCHANGED vars
      <3>1. UNCHANGED <<hashes, loc, got>>
        BY <2>2 DEF vars, shared
      <3>2. \A u \in Threads : Named(u)' = Named(u)
        BY <3>1 DEF Named, Slots, Capacity
      <3>3. \A u \in Threads : Mine(u)' = Mine(u)
        BY <3>1, <3>2 DEF Mine
      <3> QED BY <1>2, <3>1, <3>2, <3>3 DEF OwnInv
    <2> QED BY <1>2, <2>1, <2>2 DEF Next
  <1>3. Spec => []SearchInv
    BY SearchInvHolds
  <1> QED BY <1>1, <1>2, <1>3, PTL DEF Spec

\* What a thread enqueues goes to one sub-queue, and no two threads share
\* one: the second look of a thread finds what the first one made, through
\* every growth of the table, and a producer is made for one thread only.
THEOREM OneSubQueueEach ==
  ASSUME ProducerHashAssumption
  PROVE  Spec => []OneProducerEach
  <1>1. ASSUME OwnInv PROVE OneProducerEach
    <2>1. ASSUME NEW t \in Threads PROVE Cardinality(got[t]) <= 1
      <3>1. CASE got[t] = {}
        BY <3>1, FS_EmptySet
      <3>2. CASE got[t] # {}
        <4>1. PICK p \in got[t] : TRUE
          BY <3>2
        <4>2. got[t] = {p}
          BY <1>1, <4>1 DEF OwnInv, Mine
        <4> QED BY <4>2, FS_Singleton
      <3> QED BY <3>1, <3>2
    <2>2. \A t, u \in Threads : t # u => got[t] \cap got[u] = {}
      BY <1>1 DEF OwnInv, Mine
    <2> QED BY <2>1, <2>2 DEF OneProducerEach
  <1> QED BY <1>1, OwnInvHolds, PTL

----------------------------------------------------------------------------
(* A producer is linked before it is used. *)

\* What a consumer meets is what threads have, but for what is being linked,
\* and nothing else.
WalkInv ==
  /\ \A t \in Threads : pc[t] # "link" => Mine(t) \subseteq Listed
  /\ \A p \in Listed : \E t \in Threads :
       p \in Named(t) \/ (pc[t] = "insert" /\ loc[t].producer = p)

\* The list is the least set with the tail and the links of its members.
LEMMA ListedIs ==
  ASSUME Types
  PROVE  /\ Listed \in SUBSET Producers /\ producerListTail \in Listed \cup {nullptr}
         /\ \A q \in Listed : next[q] \in Listed \cup {nullptr}
  <1>1. producerListTail \in Listed \cup {nullptr}
    BY DEF Types, Maybe, Listed
  <1>2. ASSUME NEW q \in Listed, next[q] # nullptr PROVE next[q] \in Listed
    <2>1. q \in Producers /\ next[q] \in Producers
      BY <1>2 DEF Types, Maybe, Listed
    <2> SUFFICES ASSUME NEW S \in SUBSET Producers, producerListTail \in S \cup {nullptr},
                        \A r \in S : next[r] \in S \cup {nullptr}
                 PROVE  next[q] \in S
      BY <2>1 DEF Listed
    <2>2. q \in S
      BY DEF Listed
    <2> QED BY <1>2, <2>2
  <1> QED BY <1>1, <1>2 DEF Listed

LEMMA ListedIsLeast ==
  ASSUME NEW S \in SUBSET Producers, producerListTail \in S \cup {nullptr},
         \A q \in S : next[q] \in S \cup {nullptr}
  PROVE  Listed \subseteq S
  BY DEF Listed

\* A producer that is not listed gets a link, and perhaps becomes the tail.
LEMMA ListGrows ==
  ASSUME ProducerHashAssumption, Types, Types', NEW p \in Producers \ Listed, NEW q \in Maybe,
         next' = [next EXCEPT ![p] = q],
         \/ UNCHANGED producerListTail
         \/ q = producerListTail /\ producerListTail' = p
  PROVE  Listed' = IF producerListTail' = p THEN Listed \cup {p} ELSE Listed
  <1>1. /\ next'[p] = q /\ \A r \in Producers \ {p} : next'[r] = next[r]
        /\ p # nullptr
    BY DEF Types, ProducerHashAssumption
  <1>2. /\ Listed \in SUBSET Producers /\ producerListTail \in Listed \cup {nullptr}
        /\ \A r \in Listed : next[r] \in Listed \cup {nullptr}
    BY ListedIs
  <1>3. \A r \in Listed : r \in Producers \ {p} /\ next'[r] = next[r]
    BY <1>1, <1>2
  <1>4. Listed \subseteq Listed'
    <2> SUFFICES ASSUME NEW S \in SUBSET Producers, producerListTail' \in S \cup {nullptr},
                        \A r \in S : next'[r] \in S \cup {nullptr}
                 PROVE  Listed \subseteq S
      BY <1>2 DEF Listed
    <2> DEFINE R == S \cap Listed
    <2>1. producerListTail \in S \cup {nullptr}
      BY <1>1
    <2>2. producerListTail \in R \cup {nullptr}
      BY <1>2, <2>1
    <2>3. \A r \in R : next[r] \in R \cup {nullptr}
      BY <1>2, <1>3
    <2>4. Listed \subseteq R
      <3> HIDE DEF R
      <3>1. R \in SUBSET Producers
        BY DEF R
      <3> QED BY <2>2, <2>3, <3>1, ListedIsLeast
    <2> QED BY <2>4
  <1>5. CASE producerListTail' = p
    <2>1. q = producerListTail
      BY <1>1, <1>2, <1>5
    <2>2. p \in Listed'
      BY <1>1, <1>5 DEF Listed
    <2> DEFINE R == Listed \cup {p}
    <2>3. /\ R \in SUBSET Producers /\ producerListTail' \in R \cup {nullptr}
          /\ \A r \in R : next'[r] \in R \cup {nullptr}
      BY <1>1, <1>2, <1>3, <1>5, <2>1
    <2>4. Listed' \subseteq R
      <3> HIDE DEF R
      <3> QED BY <2>3 DEF Listed
    <2> QED BY <1>4, <1>5, <2>2, <2>4
  <1>6. CASE producerListTail' # p
    <2>1. UNCHANGED producerListTail
      BY <1>6
    <2>2. \A r \in Listed : next'[r] \in Listed \cup {nullptr}
      BY <1>2, <1>3
    <2>3. Listed' \subseteq Listed
      <3> DEFINE R == Listed
      <3>1. /\ R \in SUBSET Producers /\ producerListTail' \in R \cup {nullptr}
            /\ \A r \in R : next'[r] \in R \cup {nullptr}
        BY <1>2, <2>1, <2>2
      <3> HIDE DEF R
      <3>2. Listed' \subseteq R
        BY <3>1 DEF Listed
      <3> QED BY <3>2 DEF R
    <2> QED BY <1>4, <1>6, <2>3
  <1> QED BY <1>5, <1>6

LEMMA WalkKept ==
  ASSUME WalkInv, NEW t \in Threads, OneCalls(t), NoGain(t),
         UNCHANGED <<producerListTail, next>>, pc[t] # "link",
         pc[t] = "insert" => \/ loc[t].producer \in Named(t)'
                             \/ pc'[t] = "insert" /\ loc'[t].producer = loc[t].producer
  PROVE  WalkInv'
  <1>1. Listed' = Listed
    BY DEF Listed
  <1>2. ASSUME NEW u \in Threads, pc'[u] # "link" PROVE Mine(u)' \subseteq Listed
    <2>1. Mine(u)' \subseteq Mine(u) /\ pc[u] # "link"
      BY <1>2 DEF OneCalls, OnlyMoves, NoGain
    <2> QED BY <2>1 DEF WalkInv
  <1>3. ASSUME NEW p \in Listed
        PROVE  \E u \in Threads : p \in Named(u)' \/ (pc'[u] = "insert" /\ loc'[u].producer = p)
    <2>1. PICK u \in Threads : p \in Named(u) \/ (pc[u] = "insert" /\ loc[u].producer = p)
      BY DEF WalkInv
    <2>2. CASE u # t
      BY <2>1, <2>2 DEF OneCalls, OnlyMoves, NoGain
    <2>3. CASE u = t
      BY <2>1, <2>3 DEF NoGain
    <2> QED BY <2>2, <2>3
  <1> QED BY <1>1, <1>2, <1>3 DEF WalkInv

LEMMA WalkCreate ==
  ASSUME ProducerHashAssumption, SearchInv, OwnInv, WalkInv, NEW t \in Threads, Create(t)
  PROVE  WalkInv'
  <1>1. OneCalls(t) /\ pc[t] = "create" /\ UNCHANGED <<producerListTail, next>>
    BY Alone DEF Continue, Create
  <1>2. CASE NoGain(t)
    BY <1>1, <1>2, WalkKept
  <1>3. CASE /\ pc'[t] = "link" /\ \A u \in Threads : Named(u)' = Named(u)
             /\ \A u \in Threads \ {t} : Mine(u)' = Mine(u)
    <2>1. Listed' = Listed
      BY <1>1 DEF Listed
    <2>2. \A u \in Threads : pc'[u] # "link" => Mine(u)' \subseteq Listed
      BY <1>1, <1>3 DEF OneCalls, OnlyMoves, WalkInv
    <2>3. ASSUME NEW p \in Listed
          PROVE  \E u \in Threads : p \in Named(u)' \/ (pc'[u] = "insert" /\ loc'[u].producer = p)
      <3>1. PICK u \in Threads : p \in Named(u) \/ (pc[u] = "insert" /\ loc[u].producer = p)
        BY DEF WalkInv
      <3>2. p \in Named(u) => p \in Named(u)'
        BY <1>3
      <3>3. pc[u] = "insert" => pc'[u] = pc[u] /\ loc'[u] = loc[u]
        BY <1>1 DEF OneCalls, OnlyMoves
      <3> QED BY <3>1, <3>2, <3>3
    <2> QED BY <2>1, <2>2, <2>3 DEF WalkInv
  <1> QED BY <1>2, <1>3, OwnCreate

LEMMA WalkInsert ==
  ASSUME ProducerHashAssumption, SearchInv, OwnInv, WalkInv, NEW t \in Threads, Insert(t)
  PROVE  WalkInv'
  <1>1. /\ OneCalls(t) /\ pc[t] = "insert" /\ UNCHANGED <<producerListTail, next>>
        /\ NoGain(t) /\ loc \in [Threads -> Locals] /\ loc[t] \in Locals
    BY Alone, OwnInsert DEF Continue, Insert, SearchInv, Types
  <1>2. ASSUME NEW m, NEW slot, NEW p, Fills(t, m, slot, p) PROVE loc[t].producer \in Named(t)'
    <2>1. Named(t)' = Named(t) \cup {p} /\ p = loc[t].producer
      BY <1>2, KeyAdded DEF Fills
    <2> QED BY <2>1
  <1>3. \/ loc[t].producer \in Named(t)'
        \/ pc'[t] = "insert" /\ loc'[t].producer = loc[t].producer
    <2>1. CASE \E m, slot, p : Fills(t, m, slot, p)
      BY <1>2, <2>1
    <2>2. CASE /\ UNCHANGED <<hashes, pc, got>>
               /\ loc' = [loc EXCEPT ![t].index = At(loc[t].mainHash, loc[t].index) + 1]
      BY <1>1, <2>2 DEF Locals
    <2> QED BY <2>1, <2>2, InsertTries
  <1> QED BY <1>1, <1>3, WalkKept

\* What is linked is not in the list yet, as it belongs to nobody else.
LEMMA WalkLink ==
  ASSUME ProducerHashAssumption, SearchInv, OwnInv, WalkInv, NEW t \in Threads, Link(t)
  PROVE  WalkInv'
  <1> DEFINE p == loc[t].producer
  <1>1. /\ OneCalls(t) /\ pc[t] = "link" /\ NoGain(t) /\ p \in Producers /\ p # nullptr
        /\ loc \in [Threads -> Locals] /\ loc[t] \in Locals /\ pc \in [Threads -> Steps]
        /\ Types /\ \A h \in 1 .. Len(hashes) : ~ In(t, h)
    <2>1. pc[t] \in NewcomerSteps /\ pc[t] = "link"
      BY DEF Link, NewcomerSteps
    <2> QED BY <2>1, Alone, OwnQuiet, NewcomerHas
            DEF Continue, SearchInv, Types, ProducerHashAssumption
  <1>2. Types'
    BY LinkStep DEF SearchInv
  <1>3. /\ next' = [next EXCEPT ![p] = loc[t].prevTail] /\ loc[t].prevTail \in Maybe
        /\ UNCHANGED <<hashes, got>>
    BY <1>1 DEF Link, Locals
  <1>4. p \in Mine(t) /\ Named(t) = {}
    BY <1>1 DEF Mine, Named, In
  <1>5. p \notin Listed
    <2> SUFFICES ASSUME p \in Listed PROVE FALSE
      OBVIOUS
    <2>1. PICK u \in Threads : p \in Named(u) \/ (pc[u] = "insert" /\ loc[u].producer = p)
      BY DEF WalkInv
    <2>2. u # t /\ p \in Mine(u)
      BY <1>1, <1>4, <2>1 DEF Mine
    <2> QED BY <1>4, <2>2 DEF OwnInv
  <1>6. \A u \in Threads : u # t => Mine(u)' = Mine(u) /\ Named(u)' = Named(u) /\ pc'[u] = pc[u]
                                      /\ loc'[u] = loc[u]
    BY <1>1 DEF OneCalls, OnlyMoves, NoGain
  <1>7. ASSUME NEW q \in Listed
        PROVE  \E u \in Threads : q \in Named(u)' \/ (pc'[u] = "insert" /\ loc'[u].producer = q)
    <2>1. PICK u \in Threads : q \in Named(u) \/ (pc[u] = "insert" /\ loc[u].producer = q)
      BY DEF WalkInv
    <2>2. u # t
      BY <1>1, <1>4, <2>1
    <2> QED BY <1>6, <2>1, <2>2
  <1>8. CASE /\ producerListTail = loc[t].prevTail /\ producerListTail' = p
             /\ loc' = [loc EXCEPT ![t].index = HashedId[t], ![t].prevTail = nullptr]
             /\ Go(t, "insert")
    <2>1. Listed' = Listed \cup {p}
      BY <1>1, <1>2, <1>3, <1>5, <1>8, ListGrows
    <2>2. pc'[t] = "insert" /\ loc'[t].producer = p
      BY <1>1, <1>8 DEF Go, Locals
    <2>3. Mine(t)' \subseteq {p}
      <3>1. Mine(t) \subseteq {p}
        BY <1>4 DEF OwnInv
      <3> QED BY <1>1, <3>1 DEF NoGain
    <2>4. \A u \in Threads : pc'[u] # "link" => Mine(u)' \subseteq Listed \cup {p}
      BY <1>6, <2>3 DEF WalkInv
    <2>5. \A q \in Listed \cup {p} : \E u \in Threads :
            q \in Named(u)' \/ (pc'[u] = "insert" /\ loc'[u].producer = q)
      BY <1>7, <2>2
    <2> QED BY <2>1, <2>4, <2>5 DEF WalkInv
  <1>9. CASE UNCHANGED <<producerListTail, pc>>
    <2>1. producerListTail' # p
      BY <1>1, <1>5, <1>9, ListedIs
    <2>2. Listed' = Listed
      BY <1>1, <1>2, <1>3, <1>5, <1>9, <2>1, ListGrows
    <2>3. \A u \in Threads : pc'[u] # "link" => Mine(u)' \subseteq Listed
      BY <1>1, <1>6, <1>9 DEF WalkInv
    <2> QED BY <1>7, <2>2, <2>3 DEF WalkInv
  <1> QED BY <1>8, <1>9 DEF Link

LEMMA WalkQuiet ==
  ASSUME ProducerHashAssumption, SearchInv, OwnInv, WalkInv, NEW t \in Threads,
         \/ Call(t) \/ Probe(t) \/ Count(t) \/ Check(t) \/ Reload(t) \/ Resize(t) \/ ResizeFails(t)
         \/ Clear(t) \/ Room(t)
  PROVE  WalkInv'
  <1>1. OneCalls(t) /\ NoGain(t)
    BY Alone, OwnProbe, OwnQuiet DEF Continue
  <1>2. UNCHANGED <<producerListTail, next>> /\ pc[t] \notin {"link", "insert"}
    BY DEF Call, Probe, Count, Check, Reload, Resize, ResizeFails, Clear, Room, shared
  <1> QED BY <1>1, <1>2, WalkKept

LEMMA WalkInvHolds ==
  ASSUME ProducerHashAssumption
  PROVE  Spec => []WalkInv
  <1>1. ASSUME Init PROVE WalkInv
    <2>1. \A t \in Threads : got[t] = {} /\ loc[t].producer = nullptr
      BY <1>1 DEF Init, NoLocals
    <2>2. Len(hashes) = 1 /\ hashes[1] = Table(INITIAL_IMPLICIT_PRODUCER_HASH_SIZE)
      BY <1>1 DEF Init
    <2>3. \A t \in Threads : Named(t) = {}
      BY <2>2 DEF Named, Slots, Capacity, Table, ProducerHashAssumption
    <2>4. \A t \in Threads : Mine(t) = {}
      BY <2>1, <2>3 DEF Mine
    <2>5. Listed \subseteq {}
      <3> DEFINE R == {}
      <3>1. /\ R \in SUBSET Producers /\ producerListTail \in R \cup {nullptr}
            /\ \A q \in R : next[q] \in R \cup {nullptr}
        BY <1>1 DEF Init
      <3>2. Listed \subseteq R
        <4> HIDE DEF R
        <4> QED BY <3>1, ListedIsLeast
      <3> QED BY <3>2
    <2> QED BY <2>4, <2>5 DEF WalkInv
  <1>2. ASSUME SearchInv, OwnInv, WalkInv, [Next]_vars PROVE WalkInv'
    <2>1. ASSUME NEW t \in Threads, Call(t) \/ Continue(t) PROVE WalkInv'
      BY <1>2, <2>1, WalkQuiet, WalkCreate, WalkLink, WalkInsert DEF Continue
    <2>2. CASE UNCHANGED vars
      <3>1. UNCHANGED <<hashes, loc, got, pc, producerListTail, next>>
        BY <2>2 DEF vars, shared
      <3>2. \A u \in Threads : Named(u)' = Named(u)
        BY <3>1 DEF Named, Slots, Capacity
      <3>3. \A u \in Threads : Mine(u)' = Mine(u)
        BY <3>1, <3>2 DEF Mine
      <3>4. Listed' = Listed
        BY <3>1 DEF Listed
      <3> QED BY <1>2, <3>1, <3>2, <3>3, <3>4 DEF WalkInv
    <2> QED BY <1>2, <2>1, <2>2 DEF Next
  <1>3. Spec => [](SearchInv /\ OwnInv)
    BY SearchInvHolds, OwnInvHolds, PTL
  <1> QED BY <1>1, <1>2, <1>3, PTL DEF Spec

\* What is enqueued can be found: a call returns a producer only when a
\* consumer that walks the list from its tail meets it, however the threads
\* that link theirs race for the tail (add_producer).
THEOREM ProducersAreListed ==
  ASSUME ProducerHashAssumption
  PROVE  Spec => []ProducersListed
  <1>1. ASSUME SearchInv, OwnInv, WalkInv PROVE ProducersListed
    <2> SUFFICES ASSUME NEW t \in Threads PROVE got[t] \subseteq Listed
      BY DEF ProducersListed
    <2>1. CASE pc[t] = "link"
      <3>1. Named(t) = {}
        BY <1>1, <2>1, NewcomerHas DEF NewcomerSteps, Named, In
      <3> QED BY <1>1, <3>1 DEF OwnInv
    <2>2. CASE pc[t] # "link"
      BY <1>1, <2>2 DEF WalkInv, Mine
    <2> QED BY <2>1, <2>2
  <1>2. Spec => [](SearchInv /\ OwnInv /\ WalkInv)
    BY SearchInvHolds, OwnInvHolds, WalkInvHolds, PTL
  <1> QED BY <1>1, <1>2, PTL

----------------------------------------------------------------------------
(* What the count stands for. *)

\* The accesses of a thread that is counted and in no table yet.
CountedSteps == {"check", "reload", "resize", "clear", "room", "create", "link"}

Waits(t) == pc[t] \in CountedSteps \/ (pc[t] = "insert" /\ ~ Listing(t))
Reserves(t) == Listing(t) \/ pc[t] \in CountedSteps \/ pc[t] = "insert"
Reserving == {t \in Threads : Reserves(t)}

CountInv == implicitProducerHashCount = Cardinality(Reserving)

LEMMA SetsInSteps ==
  ASSUME Types
  PROVE  /\ Registered = {t \in Threads : Listing(t)}
         /\ Counted = {t \in Threads : Waits(t)}
         /\ Reserving = Registered \cup Counted
  <1>1. \A h \in 1 .. Len(hashes) : DOMAIN hashes[h].key = Slots(h)
    BY TableIs
  <1>2. DOMAIN hashes = 1 .. Len(hashes)
    BY KnownTable
  <1>3. Registered = {t \in Threads : Listing(t)}
    BY <1>1, <1>2 DEF Registered, Listing, In
  <1>4. Counted = {t \in Threads : Waits(t)}
    <2>1. ASSUME NEW t \in Threads PROVE t \in Registered <=> Listing(t)
      BY <1>3
    <2> HIDE DEF Registered, Listing
    <2> QED BY <2>1 DEF Counted, Waits, CountedSteps
  <1>5. Reserving = Registered \cup Counted
    <2> HIDE DEF Registered, Counted, Listing
    <2> QED BY <1>3, <1>4 DEF Reserving, Reserves, Waits
  <1> QED BY <1>3, <1>4, <1>5

LEMMA ReservingIsFinite ==
  ASSUME ProducerHashAssumption
  PROVE  /\ IsFiniteSet(Reserving) /\ Cardinality(Reserving) \in 0 .. Cardinality(Threads)
         /\ IsFiniteSet(Reserving')
  <1>1. IsFiniteSet(Threads) /\ Reserving \in SUBSET Threads /\ Reserving' \in SUBSET Threads
    BY DEF ProducerHashAssumption, Reserving
  <1> QED BY <1>1, FS_Subset, FS_CardinalityType

LEMMA CountKept ==
  ASSUME CountInv, UNCHANGED implicitProducerHashCount, \A u \in Threads : Reserves(u)' <=> Reserves(u)
  PROVE  CountInv'
  <1>1. Reserving' = Reserving
    BY DEF Reserving
  <1> QED BY <1>1 DEF CountInv

LEMMA OthersReserve ==
  ASSUME SearchInv, NEW t \in Threads, OneCalls(t), KeysStay
  PROVE  /\ \A u \in Threads \ {t} : Reserves(u)' <=> Reserves(u)
         /\ Listing(t)' <=> Listing(t)
  <1>1. \A u \in Threads : Listing(u)' <=> Listing(u)
    BY TablesAgree
  <1> QED BY <1>1 DEF Reserves, OneCalls, OnlyMoves

\* A thread at one of these accesses is in no table.
LEMMA NewcomerIsNotListed ==
  ASSUME SearchInv, NEW t \in Threads, pc[t] \in NewcomerSteps
  PROVE  ~ Listing(t)
  BY NewcomerHas DEF Listing

LEMMA OneMore ==
  ASSUME ProducerHashAssumption, CountInv, NEW t \in Threads, ~ Reserves(t), Reserves(t)',
         \A u \in Threads \ {t} : Reserves(u)' <=> Reserves(u),
         implicitProducerHashCount' = implicitProducerHashCount + 1
  PROVE  CountInv'
  <1>1. Reserving' = Reserving \cup {t} /\ t \notin Reserving
    BY DEF Reserving
  <1> QED BY <1>1, FS_AddElement, ReservingIsFinite DEF CountInv

LEMMA OneLess ==
  ASSUME ProducerHashAssumption, CountInv, NEW t \in Threads, Reserves(t), ~ Reserves(t)',
         \A u \in Threads \ {t} : Reserves(u)' <=> Reserves(u),
         implicitProducerHashCount' = implicitProducerHashCount - 1
  PROVE  CountInv'
  <1>1. Reserving' = Reserving \ {t} /\ t \in Reserving
    BY DEF Reserving
  <1> QED BY <1>1, FS_RemoveElement, ReservingIsFinite DEF CountInv

LEMMA CountStep ==
  ASSUME ProducerHashAssumption, SearchInv, CountInv, NEW t \in Threads, Call(t) \/ Continue(t)
  PROVE  CountInv'
  <1>1. OneCalls(t) /\ pc \in [Threads -> Steps]
    BY Alone DEF SearchInv, Types
  <1>2. ~ Insert(t) => KeysStay
    <2>1. CASE Resize(t)
      BY <2>1, TableAdded
    <2>2. CASE Call(t) \/ Probe(t) \/ Count(t) \/ Check(t) \/ Reload(t)
      BY <2>2, SameTables DEF Call, Probe, Count, Check, Reload, shared
    <2>3. CASE ResizeFails(t) \/ Clear(t) \/ Room(t) \/ Create(t) \/ Link(t)
      BY <2>3, SameTables DEF ResizeFails, Clear, Room, Create, Link, shared
    <2> QED BY <2>1, <2>2, <2>3 DEF Continue
  <1>3. CASE Count(t)
    <2>1. ~ Insert(t) /\ ~ Listing(t) /\ pc[t] = "count" /\ pc'[t] = "check"
      BY <1>1, <1>3, NewcomerIsNotListed DEF Count, Go, Insert, NewcomerSteps
    <2>2. ~ Reserves(t) /\ Reserves(t)'
      BY <2>1 DEF Reserves, CountedSteps
    <2> QED BY <1>1, <1>2, <1>3, <2>1, <2>2, OthersReserve, OneMore DEF Count
  <1>4. CASE /\ ResizeFails(t) \/ (Create(t) /\ implicitProducerHashCount' = implicitProducerHashCount - 1)
             /\ pc'[t] \in {"clear_and_fail", "idle"}
    <2>1. /\ ~ Insert(t) /\ ~ Listing(t) /\ pc[t] \in CountedSteps /\ pc'[t] \notin CountedSteps
          /\ pc'[t] # "insert" /\ implicitProducerHashCount' = implicitProducerHashCount - 1
      BY <1>4, NewcomerIsNotListed DEF ResizeFails, Create, Insert, NewcomerSteps, CountedSteps
    <2>2. KeysStay /\ (Listing(t)' <=> Listing(t)) /\ \A u \in Threads \ {t} : Reserves(u)' <=> Reserves(u)
      BY <1>1, <1>2, <2>1, OthersReserve
    <2>3. Reserves(t) /\ ~ Reserves(t)'
      BY <2>1, <2>2 DEF Reserves
    <2> QED BY <2>1, <2>2, <2>3, OneLess
  <1>5. ASSUME UNCHANGED implicitProducerHashCount, ~ Insert(t),
               \/ pc[t] \in CountedSteps /\ pc'[t] \in CountedSteps \cup {"insert"}
               \/ pc'[t] = pc[t]
               \/ /\ pc[t] \in {"idle", "probe", "clear_and_fail"}
                  /\ pc'[t] \in {"idle", "probe", "count", "clear_and_fail"}
               \/ Listing(t)
        PROVE  CountInv'
    <2>1. KeysStay /\ (Listing(t)' <=> Listing(t)) /\ \A u \in Threads \ {t} : Reserves(u)' <=> Reserves(u)
      BY <1>1, <1>2, <1>5, OthersReserve
    <2>2. Reserves(t)' <=> Reserves(t)
      BY <1>5, <2>1 DEF Reserves, CountedSteps
    <2> QED BY <1>5, <2>1, <2>2, CountKept
  <1>6. CASE Call(t)
    BY <1>1, <1>5, <1>6 DEF Call, Go, shared, Insert
  <1>7. CASE Probe(t)
    <2>1. pc[t] = "probe" /\ ~ Insert(t) /\ UNCHANGED implicitProducerHashCount
      BY <1>7 DEF Probe, Insert, shared
    <2>2. CASE pc'[t] = "insert"
      <3>1. loc[t].hash \in 1 .. Len(hashes) /\ loc[t].index \in Nat
        BY <2>1, ThreadHas, KnownTable DEF StandsAt, Locals
      <3>2. At(loc[t].hash, loc[t].index) \in Slots(loc[t].hash)
        BY <3>1, ThreadHas, AtIsSlot
      <3>3. hashes[loc[t].hash].key[At(loc[t].hash, loc[t].index)] = t
        BY <1>1, <1>7, <2>1, <2>2 DEF Probe, Go, Return
      <3>4. Listing(t)
        BY <3>1, <3>2, <3>3 DEF Listing, In
      <3> QED BY <1>5, <2>1, <3>4
    <2>3. CASE pc'[t] # "insert"
      <3>1. pc'[t] \in {"idle", "probe", "count"}
        BY <1>1, <1>7, <2>1, <2>3 DEF Probe, Go, Return
      <3> QED BY <1>5, <2>1, <3>1
    <2> QED BY <2>2, <2>3
  <1>8. CASE Check(t) \/ Reload(t) \/ Resize(t) \/ Room(t) \/ Link(t)
    <2>1. pc[t] \in CountedSteps /\ ~ Insert(t) /\ UNCHANGED implicitProducerHashCount
      BY <1>8 DEF Check, Reload, Resize, Room, Link, CountedSteps, Insert, shared
    <2>2. pc'[t] \in CountedSteps \cup {"insert"}
      BY <1>1, <1>8 DEF Check, Reload, Resize, Room, Link, CountedSteps, Go
    <2> QED BY <1>5, <2>1, <2>2
  <1>9. CASE Clear(t)
    <2>1. ~ Insert(t) /\ UNCHANGED implicitProducerHashCount
      BY <1>9 DEF Clear, Insert
    <2>2. \/ pc[t] \in CountedSteps /\ pc'[t] \in CountedSteps
          \/ pc[t] = "clear_and_fail" /\ pc'[t] = "idle"
      BY <1>1, <1>9 DEF Clear, CountedSteps, Go, Return
    <2> QED BY <1>5, <2>1, <2>2
  <1>10. CASE ResizeFails(t)
    BY <1>1, <1>4, <1>10 DEF ResizeFails, Go
  <1>11. CASE Create(t)
    <2>1. CASE Go(t, "link") /\ UNCHANGED implicitProducerHashCount
      BY <1>1, <1>5, <1>11, <2>1 DEF Create, Go, Insert, CountedSteps
    <2>2. CASE implicitProducerHashCount' = implicitProducerHashCount - 1 /\ Return(t, nullptr)
      BY <1>1, <1>4, <1>11, <2>2 DEF Return, Go
    <2> QED BY <1>11, <2>1, <2>2 DEF Create
  <1>12. CASE Insert(t)
    <2>1. UNCHANGED implicitProducerHashCount /\ pc[t] = "insert"
      BY <1>12 DEF Insert
    <2>2. ASSUME NEW m, NEW slot, NEW p, Fills(t, m, slot, p)
          PROVE  \A u \in Threads : Reserves(u)' <=> Reserves(u)
      <3>1. /\ Len(hashes') = Len(hashes) /\ m \in 1 .. Len(hashes)
            /\ \A u \in Threads, h \in 1 .. Len(hashes) : In(u, h)' <=> (In(u, h) \/ (u = t /\ h = m))
        BY <2>2, KeyAdded DEF Fills
      <3>2. \A u \in Threads \ {t} : Listing(u)' <=> Listing(u)
        BY <3>1 DEF Listing
      <3>3. Listing(t)'
        BY <3>1 DEF Listing
      <3> QED BY <1>1, <2>1, <3>2, <3>3 DEF Reserves, OneCalls, OnlyMoves
    <2>3. CASE UNCHANGED <<hashes, pc>>
      BY <2>1, <2>3, CountKept DEF Reserves, Listing, In, Slots, Capacity
    <2> QED BY <1>12, <2>1, <2>2, <2>3, CountKept, InsertTries
  <1> QED BY <1>3, <1>6, <1>7, <1>8, <1>9, <1>10, <1>11, <1>12 DEF Continue

LEMMA CountInvHolds ==
  ASSUME ProducerHashAssumption
  PROVE  Spec => []CountInv
  <1>1. ASSUME Init PROVE CountInv
    <2>1. \A t \in Threads : ~ Listing(t)
      <3>1. Len(hashes) = 1 /\ hashes[1] = Table(INITIAL_IMPLICIT_PRODUCER_HASH_SIZE)
        BY <1>1 DEF Init
      <3> QED BY <3>1 DEF Listing, In, Slots, Capacity, Table, ProducerHashAssumption
    <2>2. Reserving = {}
      BY <1>1, <2>1 DEF Init, Reserving, Reserves, CountedSteps
    <2>3. implicitProducerHashCount = 0
      BY <1>1 DEF Init
    <2> QED BY <2>2, <2>3, FS_EmptySet DEF CountInv
  <1>2. ASSUME SearchInv, CountInv, [Next]_vars PROVE CountInv'
    <2>1. CASE UNCHANGED vars
      BY <1>2, <2>1, CountKept DEF vars, shared, Reserves, Listing, In, Slots, Capacity
    <2> QED BY <1>2, <2>1, CountStep DEF Next
  <1>3. Spec => []SearchInv
    BY SearchInvHolds
  <1> QED BY <1>1, <1>2, <1>3, PTL DEF Spec

\* The one count is exact: no failure to allocate, whether of a table or of
\* a producer, leaves a place reserved for a thread that is not coming.
THEOREM TheCountReserves ==
  ASSUME ProducerHashAssumption
  PROVE  Spec => []CountReserves
  <1>1. ASSUME SearchInv, CountInv PROVE CountReserves
    BY <1>1, SetsInSteps DEF SearchInv, CountInv, CountReserves
  <1> QED BY <1>1, SearchInvHolds, CountInvHolds, PTL

----------------------------------------------------------------------------
(* Why no table fills up. *)

\* Three quarters of a table.
RoomOf(c) == c \div 2 + c \div 4

\* The threads in the tables up to h, and those that a table with room for
\* k lets in.
Admitted(h, k) == {t \in Threads : (\E g \in 1 .. h : In(t, g)) \/ (Waits(t) /\ loc[t].newCount < k)}

Few(S, k) == Cardinality(S) < k \/ S = {}

\* What was found before thread t, at access w with local variables l, may
\* take a slot.
Admits(t, w, l) ==
  /\ w \in {"create", "link"} \/ (w = "insert" /\ ~ Listing(t)) => l.newCount < RoomOf(Capacity(l.mainHash))
  /\ w = "insert" /\ Listing(t) => \E g \in 1 .. l.mainHash : In(t, g)

PlaceOK(t) == Admits(t, pc[t], loc[t])

RoomInv ==
  /\ \A h \in 1 .. Len(hashes) : \A k \in Nat : k >= RoomOf(Capacity(h)) => Few(Admitted(h, k), k)
  /\ \A t \in Threads : PlaceOK(t)

LEMMA RoomGrows ==
  ASSUME NEW c \in Nat, NEW d \in Nat, c <= d
  PROVE  RoomOf(c) \in Nat /\ RoomOf(d) \in Nat /\ RoomOf(c) <= RoomOf(d) /\ RoomOf(c) <= c
  BY DEF RoomOf

LEMMA FewerStill ==
  ASSUME ProducerHashAssumption, NEW S \in SUBSET Threads, NEW k \in Nat, Few(S, k), NEW R \in SUBSET S
  PROVE  Few(R, k)
  <1>1. IsFiniteSet(S)
    BY FS_Subset DEF ProducerHashAssumption
  <1>2. Cardinality(R) \in Nat /\ Cardinality(S) \in Nat /\ Cardinality(R) <= Cardinality(S)
    BY <1>1, FS_Subset, FS_CardinalityType
  <1> QED BY <1>2 DEF Few

LEMMA PlacesStay ==
  ASSUME SearchInv, RoomInv, NEW t \in Threads, OneCalls(t), KeysStay
  PROVE  \A u \in Threads \ {t} : PlaceOK(u)'
  <1> SUFFICES ASSUME NEW u \in Threads \ {t} PROVE PlaceOK(u)'
    OBVIOUS
  <1> PICK w \in Steps, l \in Locals : w = pc[u] /\ l = loc[u]
    BY ThreadHas
  <1>1. pc'[u] = w /\ loc'[u] = l
    BY DEF OneCalls, OnlyMoves
  <1>2. Admits(u, w, l) /\ (w # "idle" => l.mainHash \in 1 .. Len(hashes)) /\ Len(hashes) \in Nat
    BY ThreadHas, KnownTable DEF RoomInv, PlaceOK, StandsAt
  <1>3. /\ \A h \in 1 .. Len(hashes) : (In(u, h)' <=> In(u, h)) /\ Capacity(h)' = Capacity(h)
        /\ Listing(u)' <=> Listing(u)
    BY TablesAgree
  <1>4. w = "insert" => 1 .. l.mainHash \subseteq 1 .. Len(hashes)
    BY <1>2
  <1>5. Admits(u, w, l)'
    BY <1>2, <1>3, <1>4 DEF Admits
  <1> QED BY <1>1, <1>5 DEF PlaceOK

LEMMA AnyCapacity ==
  ASSUME NEW table \in AnyTable
  PROVE  table.capacity \in Nat
  BY DEF AnyTable

\* A table that is there, or the last one before it, is no bigger than the
\* table of that number after the step, and knows every thread that that one
\* knows.
LEMMA OlderTable ==
  ASSUME SearchInv, SearchInv', KeysStay, NEW h \in 1 .. Len(hashes')
  PROVE  \E g \in 1 .. Len(hashes) :
           /\ RoomOf(Capacity(g)) <= RoomOf(Capacity(h)') /\ RoomOf(Capacity(g)) \in Nat
           /\ RoomOf(Capacity(h)') \in Nat
           /\ \A u \in Threads : (\E i \in 1 .. h : In(u, i)') => \E i \in 1 .. g : In(u, i)
  <1>0. /\ Len(hashes) \in Nat \ {0} /\ Len(hashes') \in Nat /\ Len(hashes') >= Len(hashes)
        /\ Types /\ Types' /\ TablesOK'
    BY KnownTable DEF SearchInv, KeysStay
  <1>1. \A i \in 1 .. Len(hashes) : Capacity(i)' = Capacity(i) /\ \A u \in Threads : In(u, i)' <=> In(u, i)
    BY TablesAgree
  <1>2. Capacity(h)' \in Nat /\ \A i \in 1 .. Len(hashes) : Capacity(i) \in Nat
    <2>1. \A i \in 1 .. Len(hashes) : Capacity(i) \in Nat
      BY <1>0, TableIs
    <2>2. hashes'[h] \in AnyTable
      BY <1>0 DEF Types
    <2>3. Capacity(h)' \in Nat
      BY <2>2, AnyCapacity DEF Capacity
    <2> QED BY <2>1, <2>3
  <1>3. CASE h <= Len(hashes)
    <2>1. h \in 1 .. Len(hashes) /\ 1 .. h \subseteq 1 .. Len(hashes)
      BY <1>0, <1>3
    <2> QED BY <1>1, <1>2, <2>1, RoomGrows
  <1>4. CASE h > Len(hashes)
    <2> PICK last \in Nat : last = Len(hashes)
      BY <1>0
    <2>1. last \in 1 .. Len(hashes) /\ last \in 1 .. Len(hashes') /\ last <= h
      BY <1>0, <1>4
    <2>2. Capacity(last)' <= Capacity(h)'
      BY <1>0, <2>1 DEF TablesOK
    <2>3. /\ RoomOf(Capacity(last)) <= RoomOf(Capacity(h)')
          /\ RoomOf(Capacity(last)) \in Nat /\ RoomOf(Capacity(h)') \in Nat
      BY <1>1, <1>2, <2>1, <2>2, RoomGrows
    <2>5. ASSUME NEW u \in Threads, NEW i \in 1 .. h, In(u, i)' PROVE i \in 1 .. last /\ In(u, i)
      <3>1. i \in 1 .. Len(hashes')
        BY <1>0
      <3>2. i \in 1 .. Len(hashes)
        BY <1>0, <2>5, <3>1 DEF KeysStay
      <3> QED BY <1>1, <2>5, <3>2
    <2> QED BY <2>1, <2>3, <2>5
  <1> QED BY <1>0, <1>3, <1>4

LEMMA RoomKept ==
  ASSUME ProducerHashAssumption, SearchInv, SearchInv', RoomInv, NEW t \in Threads, OneCalls(t), KeysStay,
         Waits(t)' => Waits(t) /\ loc'[t].newCount = loc[t].newCount, PlaceOK(t)'
  PROVE  RoomInv'
  <1>1. \A u \in Threads : PlaceOK(u)'
    BY PlacesStay
  <1>2. ASSUME NEW h \in 1 .. Len(hashes'), NEW k \in Nat, k >= RoomOf(Capacity(h)')
        PROVE  Few(Admitted(h, k)', k)
    <2>1. PICK g \in 1 .. Len(hashes) :
            /\ RoomOf(Capacity(g)) <= RoomOf(Capacity(h)') /\ RoomOf(Capacity(g)) \in Nat
            /\ RoomOf(Capacity(h)') \in Nat
            /\ \A u \in Threads : (\E i \in 1 .. h : In(u, i)') => \E i \in 1 .. g : In(u, i)
      BY OlderTable
    <2>2. \A u \in Threads : Waits(u)' => Waits(u) /\ loc'[u].newCount = loc[u].newCount
      BY TablesAgree DEF Waits, OneCalls, OnlyMoves
    <2>3. Admitted(h, k)' \subseteq Admitted(g, k) /\ Admitted(g, k) \in SUBSET Threads
      BY <2>1, <2>2 DEF Admitted
    <2>4. k >= RoomOf(Capacity(g))
      BY <1>2, <2>1
    <2>5. Few(Admitted(g, k), k)
      BY <2>4 DEF RoomInv
    <2> QED BY <2>3, <2>5, FewerStill
  <1> QED BY <1>1, <1>2 DEF RoomInv, Few

\* A thread is counted: a table has room for it only if it has room for all
\* that are counted.
LEMMA RoomCount ==
  ASSUME ProducerHashAssumption, SearchInv, SearchInv', CountInv, RoomInv, NEW t \in Threads, Count(t)
  PROVE  RoomInv'
  <1>1. OneCalls(t) /\ KeysStay /\ loc[t] \in Locals /\ pc'[t] = "check"
        /\ loc'[t].newCount = implicitProducerHashCount + 1 /\ ~ Listing(t)
    <2>1. pc \in [Threads -> Steps] /\ loc \in [Threads -> Locals]
      BY DEF SearchInv, Types
    <2>2. ~ Listing(t)
      BY NewcomerIsNotListed DEF Count, NewcomerSteps
    <2> QED BY <2>1, <2>2, Alone, SameTables DEF Continue, Count, Go, Locals
  <1>2. \A u \in Threads : PlaceOK(u)'
    <2>1. PlaceOK(t)'
      BY <1>1 DEF PlaceOK, Admits
    <2> QED BY <1>1, <2>1, PlacesStay
  <1>3. ASSUME NEW h \in 1 .. Len(hashes'), NEW k \in Nat, k >= RoomOf(Capacity(h)')
        PROVE  Few(Admitted(h, k)', k)
    <2>1. PICK g \in 1 .. Len(hashes) :
            /\ RoomOf(Capacity(g)) <= RoomOf(Capacity(h)') /\ RoomOf(Capacity(g)) \in Nat
            /\ RoomOf(Capacity(h)') \in Nat
            /\ \A u \in Threads : (\E i \in 1 .. h : In(u, i)') => \E i \in 1 .. g : In(u, i)
      BY <1>1, OlderTable
    <2>2. \A u \in Threads \ {t} : Waits(u)' => Waits(u) /\ loc'[u].newCount = loc[u].newCount
      BY <1>1, TablesAgree DEF Waits, OneCalls, OnlyMoves
    <2>3. CASE loc'[t].newCount >= k
      <3>1. ~ (loc'[t].newCount < k)
        <4>1. loc'[t].newCount \in Int
          BY <1>1 DEF SearchInv, Types
        <4> QED BY <2>3, <4>1
      <3>2. Admitted(h, k)' \subseteq Admitted(g, k) /\ Admitted(g, k) \in SUBSET Threads
        BY <2>1, <2>2, <3>1 DEF Admitted
      <3>3. k >= RoomOf(Capacity(g))
        BY <1>3, <2>1
      <3>4. Few(Admitted(g, k), k)
        BY <3>3 DEF RoomInv
      <3> QED BY <3>2, <3>4, FewerStill
    <2>4. CASE loc'[t].newCount < k
      <3>1. \A u \in Threads \ {t} : Reserves(u)' => Reserves(u)
        BY <1>1, OthersReserve
      <3>2. \A u \in Threads : u \in Admitted(h, k)' => Reserves(u)'
        BY DEF Admitted, Reserves, Waits, Listing
      <3>3. Admitted(h, k)' \subseteq Reserving \cup {t}
        BY <3>1, <3>2 DEF Reserving, Admitted
      <3>4. /\ IsFiniteSet(Reserving \cup {t}) /\ Cardinality(Reserving \cup {t}) <= Cardinality(Reserving) + 1
            /\ Cardinality(Reserving) \in Nat /\ Cardinality(Reserving \cup {t}) \in Nat
        <4>1. IsFiniteSet(Reserving) /\ IsFiniteSet(Reserving \cup {t})
          BY ReservingIsFinite, FS_AddElement
        <4>2. Cardinality(Reserving) \in Nat /\ Cardinality(Reserving \cup {t}) \in Nat
          BY <4>1, FS_CardinalityType
        <4>3. Cardinality(Reserving \cup {t}) =
                IF t \in Reserving THEN Cardinality(Reserving) ELSE Cardinality(Reserving) + 1
          BY <4>1, FS_AddElement
        <4> QED BY <4>1, <4>2, <4>3
      <3>5. Cardinality(Admitted(h, k)') <= Cardinality(Reserving \cup {t}) /\ Cardinality(Admitted(h, k)') \in Nat
        BY <3>3, <3>4, FS_Subset, FS_CardinalityType
      <3> QED BY <1>1, <2>4, <3>4, <3>5 DEF Few, CountInv
    <2>5. loc'[t].newCount \in Int
      BY <1>1 DEF SearchInv, Types
    <2> QED BY <2>3, <2>4, <2>5
  <1> QED BY <1>2, <1>3 DEF RoomInv, Few

\* The taken slot was reserved in its table and in every later one.
LEMMA RoomInsert ==
  ASSUME ProducerHashAssumption, SearchInv, SearchInv', RoomInv, NEW t \in Threads, Insert(t)
  PROVE  RoomInv'
  <1>1. OneCalls(t) /\ pc[t] = "insert" /\ loc[t] \in Locals /\ PlaceOK(t)
    BY ThreadHas, Alone DEF Continue, Insert, RoomInv
  <1>2. ASSUME UNCHANGED <<hashes, pc, got>>,
               loc' = [loc EXCEPT ![t].index = At(loc[t].mainHash, loc[t].index) + 1]
        PROVE  RoomInv'
    <2>1. KeysStay /\ (Listing(t)' <=> Listing(t))
      BY <1>2, SameTables, TablesAgree
    <2>2. loc'[t].newCount = loc[t].newCount /\ loc'[t].mainHash = loc[t].mainHash
      BY <1>1, <1>2 DEF SearchInv, Types, Locals
    <2>3. PlaceOK(t)'
      BY <1>1, <1>2, <2>1, <2>2 DEF PlaceOK, Admits, Capacity, In, Slots
    <2>4. Waits(t)' => Waits(t)
      BY <1>2, <2>1 DEF Waits
    <2> QED BY <1>1, <2>1, <2>2, <2>3, <2>4, RoomKept
  <1>3. ASSUME NEW m, NEW slot, NEW p, Fills(t, m, slot, p), Return(t, p) PROVE RoomInv'
    <2>1. m \in 1 .. Len(hashes) /\ m = loc[t].mainHash /\ Types /\ TablesOK
      BY <1>3 DEF Fills, SearchInv
    <2>2. /\ Len(hashes') = Len(hashes) /\ Len(hashes) \in Nat
          /\ \A h \in 1 .. Len(hashes) : Capacity(h)' = Capacity(h) /\ Capacity(h) \in Nat
          /\ \A u \in Threads, h \in 1 .. Len(hashes) : In(u, h)' <=> (In(u, h) \/ (u = t /\ h = m))
      BY <1>3, <2>1, KeyAdded, KnownTable, TableIs
    <2>3. Listing(t)' /\ \A u \in Threads \ {t} : Listing(u)' <=> Listing(u)
      BY <2>1, <2>2 DEF Listing
    <2>4. \A u \in Threads \ {t} : pc'[u] = pc[u] /\ loc'[u] = loc[u]
      BY <1>1 DEF OneCalls, OnlyMoves
    <2>5. pc'[t] = "idle"
      BY <1>3 DEF Return, Go, SearchInv, Types
    <2>6. ASSUME NEW u \in Threads PROVE PlaceOK(u)'
      <3>1. CASE u = t
        BY <2>5, <3>1 DEF PlaceOK, Admits
      <3>2. CASE u # t
        <4> PICK w \in Steps, l \in Locals : w = pc[u] /\ l = loc[u]
          BY ThreadHas
        <4>1. pc'[u] = w /\ loc'[u] = l
          BY <2>4, <3>2
        <4>2. Admits(u, w, l) /\ (w # "idle" => l.mainHash \in 1 .. Len(hashes))
          BY ThreadHas DEF RoomInv, PlaceOK, StandsAt
        <4>3. w = "insert" => 1 .. l.mainHash \subseteq 1 .. Len(hashes)
          BY <2>2, <4>2
        <4>4. Admits(u, w, l)'
          BY <2>2, <2>3, <3>2, <4>2, <4>3 DEF Admits
        <4> QED BY <4>1, <4>4 DEF PlaceOK
      <3> QED BY <3>1, <3>2
    <2>7. ASSUME NEW h \in 1 .. Len(hashes), NEW k \in Nat, k >= RoomOf(Capacity(h))
          PROVE  Admitted(h, k)' \subseteq Admitted(h, k)
      <3>1. 1 .. h \subseteq 1 .. Len(hashes)
        BY <2>2
      <3>2. ASSUME NEW u \in Threads \ {t}, u \in Admitted(h, k)' PROVE u \in Admitted(h, k)
        <4>1. Waits(u)' => Waits(u) /\ loc'[u].newCount = loc[u].newCount
          BY <2>3, <2>4 DEF Waits
        <4> QED BY <2>2, <3>1, <3>2, <4>1 DEF Admitted
      <3>3. ASSUME t \in Admitted(h, k)' PROVE t \in Admitted(h, k)
        <4>1. ~ Waits(t)'
          BY <2>5 DEF Waits, CountedSteps
        <4>2. PICK g \in 1 .. h : In(t, g)'
          BY <3>3, <4>1 DEF Admitted
        <4>3. CASE In(t, g)
          BY <4>2, <4>3 DEF Admitted
        <4>4. CASE g = m /\ Listing(t)
          <5>1. PICK i \in 1 .. m : In(t, i)
            BY <1>1, <2>1, <4>4 DEF PlaceOK, Admits
          <5>2. i \in 1 .. h
            BY <2>2, <4>4
          <5> QED BY <5>1, <5>2 DEF Admitted
        <4>5. CASE g = m /\ ~ Listing(t)
          <5>1. loc[t].newCount < RoomOf(Capacity(m)) /\ Waits(t) /\ loc[t].newCount \in Int
            BY <1>1, <2>1, <4>5 DEF PlaceOK, Admits, Waits, Locals
          <5>2. Capacity(m) <= Capacity(h) /\ Capacity(m) \in Nat /\ Capacity(h) \in Nat
            BY <2>1, <2>2, <4>5 DEF TablesOK
          <5>3. RoomOf(Capacity(m)) <= RoomOf(Capacity(h)) /\ RoomOf(Capacity(m)) \in Nat /\ RoomOf(Capacity(h)) \in Nat
            BY <5>2, RoomGrows
          <5>4. loc[t].newCount < k
            BY <2>7, <5>1, <5>3
          <5> QED BY <5>1, <5>4 DEF Admitted
        <4> QED BY <2>2, <3>1, <4>2, <4>3, <4>4, <4>5
      <3> QED BY <3>2, <3>3 DEF Admitted
    <2>8. ASSUME NEW h \in 1 .. Len(hashes'), NEW k \in Nat, k >= RoomOf(Capacity(h)')
          PROVE  Few(Admitted(h, k)', k)
      <3>1. h \in 1 .. Len(hashes) /\ k >= RoomOf(Capacity(h))
        BY <2>2, <2>8
      <3>2. Few(Admitted(h, k), k) /\ Admitted(h, k) \in SUBSET Threads
        BY <3>1 DEF RoomInv, Admitted
      <3> QED BY <2>7, <3>1, <3>2, FewerStill
    <2> QED BY <2>6, <2>8 DEF RoomInv, Few
  <1> QED BY <1>2, <1>3, InsertTries

\* The steps of a thread that nothing is counted by and no slot is taken by.
LEMMA RoomQuiet ==
  ASSUME ProducerHashAssumption, SearchInv, SearchInv', RoomInv, NEW t \in Threads,
         Call(t) \/ Continue(t), ~ Count(t), ~ Insert(t)
  PROVE  RoomInv'
  <1>1. /\ OneCalls(t) /\ loc[t] \in Locals /\ PlaceOK(t)
        /\ pc \in [Threads -> Steps] /\ loc \in [Threads -> Locals]
    BY ThreadHas, Alone DEF RoomInv, SearchInv, Types
  <1>2. KeysStay
    <2>1. CASE Resize(t)
      BY <2>1, TableAdded
    <2>2. CASE Call(t) \/ Probe(t) \/ Check(t) \/ Reload(t)
      BY <2>2, SameTables DEF Call, Probe, Check, Reload, shared
    <2>3. CASE ResizeFails(t) \/ Clear(t) \/ Room(t) \/ Create(t) \/ Link(t)
      BY <2>3, SameTables DEF ResizeFails, Clear, Room, Create, Link, shared
    <2> QED BY <2>1, <2>2, <2>3 DEF Continue
  <1>3. Listing(t)' <=> Listing(t)
    BY <1>1, <1>2, OthersReserve
  <1>4. ASSUME pc'[t] \notin {"create", "link", "insert"},
               Waits(t)' => Waits(t) /\ loc'[t].newCount = loc[t].newCount
        PROVE  RoomInv'
    <2>1. PlaceOK(t)'
      BY <1>4 DEF PlaceOK, Admits
    <2> QED BY <1>1, <1>2, <1>4, <2>1, RoomKept
  <1>5. CASE Call(t)
    BY <1>1, <1>4, <1>5 DEF Call, Go, Waits, CountedSteps
  <1>6. CASE Probe(t)
    <2>1. CASE pc'[t] = "insert"
      <3>1. /\ loc[t].hash \in 1 .. loc[t].mainHash /\ loc[t].mainHash \in 1 .. Len(hashes)
            /\ loc[t].index \in Nat /\ pc[t] = "probe" /\ Len(hashes) \in Nat
        BY <1>6, ThreadHas, KnownTable DEF Probe, StandsAt, Locals
      <3>2. loc[t].hash \in 1 .. Len(hashes)
        BY <3>1
      <3>3. At(loc[t].hash, loc[t].index) \in Slots(loc[t].hash)
        BY <3>1, <3>2, ThreadHas, AtIsSlot
      <3>4. hashes[loc[t].hash].key[At(loc[t].hash, loc[t].index)] = t /\ loc'[t].mainHash = loc[t].mainHash
        <4>1. /\ pc \in [Threads -> Steps] /\ loc \in [Threads -> Locals]
              /\ pc[t] = "probe" /\ pc'[t] = "insert"
          BY <2>1, <3>1, ThreadHas DEF Types
        <4> DEFINE slot == At(loc[t].hash, loc[t].index)
        <4>2. /\ hashes[loc[t].hash].key[slot] = t
              /\ loc' = [loc EXCEPT ![t].index = HashedId[t],
                                    ![t].producer = hashes[loc[t].hash].value[slot]]
          BY <1>6, <4>1, SMTT(20) DEF Probe, Go, Return
        <4> QED BY <4>1, <4>2 DEF Locals
      <3>5. In(t, loc[t].hash) /\ Listing(t)
        BY <3>2, <3>3, <3>4 DEF Listing, In
      <3> PICK h \in Nat : h = loc[t].hash
        BY <1>1 DEF Locals
      <3>6. In(t, h)' /\ Listing(t)' /\ h \in 1 .. loc'[t].mainHash
        <4>1. hashes'[h] = hashes[h]
          BY <1>2, <3>2 DEF KeysStay
        <4> QED BY <1>3, <3>1, <3>4, <3>5, <4>1 DEF In, Slots, Capacity
      <3>7. PlaceOK(t)'
        BY <2>1, <3>6 DEF PlaceOK, Admits
      <3>8. ~ Waits(t)'
        BY <2>1, <3>6 DEF Waits, CountedSteps
      <3> QED BY <1>1, <1>2, <3>7, <3>8, RoomKept
    <2>2. CASE pc'[t] # "insert"
      <3>1. pc'[t] \in {"idle", "probe", "count"}
        BY <1>1, <1>6, <2>2 DEF Probe, Go, Return
      <3> QED BY <1>4, <3>1 DEF Waits, CountedSteps
    <2> QED BY <2>1, <2>2
  <1>7. CASE Check(t) \/ Reload(t) \/ Resize(t) \/ ResizeFails(t)
    <2>1. /\ pc[t] \in {"check", "reload", "resize"}
          /\ pc'[t] \in {"room", "reload", "resize", "clear", "clear_and_fail"}
      BY <1>1, <1>7 DEF Check, Reload, Resize, ResizeFails, Go
    <2>2. loc'[t].newCount = loc[t].newCount
      BY <1>1, <1>7 DEF Check, Reload, Resize, ResizeFails, Locals
    <2> QED BY <1>4, <2>1, <2>2 DEF Waits, CountedSteps
  <1>8. CASE Clear(t)
    <2>1. \/ pc[t] = "clear" /\ pc'[t] = "room" /\ loc' = loc
          \/ pc'[t] = "idle"
      BY <1>1, <1>8 DEF Clear, Return, Go
    <2> QED BY <1>4, <2>1 DEF Waits, CountedSteps
  <1>9. CASE Room(t)
    <2>1. CASE pc'[t] = "create" /\ UNCHANGED loc /\ loc[t].newCount < RoomOf(Capacity(loc[t].mainHash))
      <3> PICK l \in Locals : l = loc[t]
        BY <1>1
      <3>1. l.mainHash \in 1 .. Len(hashes)
        BY <1>9, ThreadHas DEF Room, StandsAt
      <3>2. Capacity(l.mainHash)' = Capacity(l.mainHash)
        BY <1>2, <3>1, TablesAgree
      <3>3. PlaceOK(t)'
        BY <2>1, <3>2 DEF PlaceOK, Admits
      <3>4. Waits(t) /\ loc'[t].newCount = loc[t].newCount
        BY <1>9, <2>1 DEF Room, Waits, CountedSteps
      <3> QED BY <1>1, <1>2, <3>3, <3>4, RoomKept
    <2>2. CASE pc'[t] = "check" /\ loc' = [loc EXCEPT ![t].mainHash = Current]
      <3>1. Waits(t) /\ loc'[t].newCount = loc[t].newCount
        BY <1>1, <1>9, <2>2 DEF Room, Waits, CountedSteps, Locals
      <3> QED BY <1>4, <2>2, <3>1
    <2> QED BY <1>1, <1>9, <2>1, <2>2 DEF Room, Go, RoomOf
  <1>10. ASSUME Waits(t), pc[t] \in {"create", "link"}, pc'[t] \in {"link", "insert"}, ~ Listing(t),
                loc'[t].newCount = loc[t].newCount, loc'[t].mainHash = loc[t].mainHash
         PROVE  RoomInv'
    <2> PICK l \in Locals, n \in Locals : l = loc[t] /\ n = loc'[t]
      BY <1>1 DEF SearchInv, Types
    <2>1. l.mainHash \in 1 .. Len(hashes) /\ l.newCount < RoomOf(Capacity(l.mainHash))
      BY <1>1, <1>10, ThreadHas DEF StandsAt, PlaceOK, Admits
    <2>2. Capacity(l.mainHash)' = Capacity(l.mainHash)
      BY <1>2, <2>1, TablesAgree
    <2>3. n.newCount < RoomOf(Capacity(n.mainHash)')
      BY <1>10, <2>1, <2>2
    <2>4. PlaceOK(t)'
      BY <1>3, <1>10, <2>3 DEF PlaceOK, Admits
    <2> QED BY <1>1, <1>2, <1>10, <2>4, RoomKept
  <1>11. CASE Create(t)
    <2>1. CASE Return(t, nullptr)
      BY <1>1, <1>4, <2>1 DEF Return, Go, Waits, CountedSteps
    <2>2. ASSUME NEW p, Go(t, "link"),
                 loc' = [loc EXCEPT ![t].producer = p, ![t].prevTail = producerListTail]
          PROVE  RoomInv'
      <3>1. pc[t] = "create" /\ pc'[t] = "link" /\ ~ Listing(t)
        BY <1>1, <1>11, <2>2, NewcomerIsNotListed DEF Create, Go, NewcomerSteps
      <3>2. loc'[t].newCount = loc[t].newCount /\ loc'[t].mainHash = loc[t].mainHash
        BY <1>1, <2>2 DEF Locals
      <3> QED BY <1>10, <3>1, <3>2 DEF Waits, CountedSteps
    <2> QED BY <1>11, <2>1, <2>2 DEF Create
  <1>12. CASE Link(t)
    <2>1. pc[t] = "link" /\ pc'[t] \in {"link", "insert"} /\ ~ Listing(t)
      BY <1>1, <1>12, NewcomerIsNotListed DEF Link, Go, NewcomerSteps
    <2>2. loc'[t].newCount = loc[t].newCount /\ loc'[t].mainHash = loc[t].mainHash
      BY <1>1, <1>12 DEF Link, Locals
    <2> QED BY <1>10, <2>1, <2>2 DEF Waits, CountedSteps
  <1> QED BY <1>5, <1>6, <1>7, <1>8, <1>9, <1>11, <1>12 DEF Continue

LEMMA RoomInvHolds ==
  ASSUME ProducerHashAssumption
  PROVE  Spec => []RoomInv
  <1>1. ASSUME Init PROVE RoomInv
    <2>1. \A t \in Threads : ~ In(t, 1) /\ ~ Listing(t)
      <3>1. Len(hashes) = 1 /\ hashes[1] = Table(INITIAL_IMPLICIT_PRODUCER_HASH_SIZE)
        BY <1>1 DEF Init
      <3> QED BY <3>1 DEF Listing, In, Slots, Capacity, Table, ProducerHashAssumption
    <2>2. \A t \in Threads : PlaceOK(t) /\ ~ Waits(t)
      BY <1>1 DEF Init, PlaceOK, Admits, Waits, CountedSteps
    <2>3. \A h \in 1 .. Len(hashes) : 1 .. h \subseteq 1 .. Len(hashes)
      BY <1>1 DEF Init
    <2>4. \A h \in 1 .. Len(hashes) : \A k \in Nat : Admitted(h, k) = {}
      BY <2>1, <2>2, <2>3 DEF Admitted, Listing
    <2> QED BY <2>2, <2>4 DEF RoomInv, Few
  <1>2. ASSUME SearchInv, SearchInv', CountInv, RoomInv, [Next]_vars, ProducerHashAssumption PROVE RoomInv'
    <2>1. ASSUME NEW t \in Threads, Call(t) \/ Continue(t) PROVE RoomInv'
      BY <1>2, <2>1, RoomCount, RoomInsert, RoomQuiet
    <2>2. CASE UNCHANGED vars
      <3>1. UNCHANGED <<hashes, pc, loc>>
        BY <2>2 DEF vars, shared
      <3>2. /\ \A h : Capacity(h)' = Capacity(h) /\ \A t \in Threads : In(t, h)' <=> In(t, h)
            /\ \A t \in Threads : Listing(t)' <=> Listing(t)
        BY <3>1, SameTable DEF Listing
      <3>3. \A t \in Threads : PlaceOK(t)'
        BY <1>2, <3>1, <3>2 DEF RoomInv, PlaceOK, Admits
      <3>4. \A h, k : Admitted(h, k)' = Admitted(h, k)
        BY <3>1, <3>2 DEF Admitted, Waits
      <3> QED BY <1>2, <3>1, <3>2, <3>3, <3>4 DEF RoomInv
    <2> QED BY <1>2, <2>1, <2>2 DEF Next
  <1>3. Spec => []SearchInv /\ []CountInv
    BY SearchInvHolds, CountInvHolds
  <1> QED BY <1>1, <1>2, <1>3, PTL DEF Spec

\* "Not an infinite loop because at least one slot is free": in every table,
\* for any number of threads, however late a thread that was let in comes.
THEOREM OneSlotStaysFree ==
  ASSUME ProducerHashAssumption
  PROVE  Spec => []OneSlotFree
  <1>1. ASSUME SearchInv, RoomInv PROVE OneSlotFree
    <2>1. Types /\ TablesOK
      BY <1>1 DEF SearchInv
    <2>2. ASSUME NEW h \in 1 .. Len(hashes) PROVE \E i \in Slots(h) : hashes[h].key[i] = invalid_thread_id
      <3> SUFFICES ASSUME \A i \in Slots(h) : hashes[h].key[i] # invalid_thread_id PROVE FALSE
        OBVIOUS
      <3> PICK c \in Nat \ {0} : c = Capacity(h)
        BY <2>1, TableIs
      <3> PICK K \in [0 .. c - 1 -> Keys] : K = hashes[h].key
        BY <2>1, TableIs DEF Slots
      <3>1. \A i \in 0 .. c - 1 : K[i] \in Threads
        BY DEF Slots, Keys
      <3>2. \A i, j \in 0 .. c - 1 : K[i] = K[j] => i = j
        BY <2>1, <3>1 DEF TablesOK, Slots
      <3> DEFINE S == Admitted(h, RoomOf(c))
      <3>3. RoomOf(c) \in Nat /\ RoomOf(c) <= c
        BY RoomGrows
      <3>4. \A i \in 0 .. c - 1 : K[i] \in S
        <4>1. \A i \in 0 .. c - 1 : In(K[i], h)
          BY DEF In, Slots
        <4>2. h \in 1 .. h
          BY <2>1, KnownTable
        <4> QED BY <3>1, <4>1, <4>2 DEF Admitted
      <3>5. Few(S, RoomOf(c)) /\ IsFiniteSet(S)
        <4>1. S \in SUBSET Threads
          BY DEF Admitted
        <4>2. Few(S, RoomOf(c))
          BY <1>1, <3>3 DEF RoomInv
        <4> QED BY <4>1, <4>2, FS_Subset DEF ProducerHashAssumption
      <3> HIDE DEF S
      <3>6. S # {}
        BY <3>4
      <3>7. K \in Injection(0 .. c - 1, S)
        BY <3>2, <3>4 DEF Injection, IsInjective
      <3>8. Cardinality(0 .. c - 1) <= Cardinality(S)
        BY <3>5, <3>7, FS_Injection
      <3>9. Cardinality(0 .. c - 1) = c
        BY FS_Interval
      <3>10. Cardinality(S) \in Nat
        BY <3>5, FS_CardinalityType
      <3> QED BY <3>3, <3>5, <3>6, <3>8, <3>9, <3>10 DEF Few
    <2>3. DOMAIN hashes = 1 .. Len(hashes) /\ \A h \in 1 .. Len(hashes) : DOMAIN hashes[h].key = Slots(h)
      BY <2>1, KnownTable, TableIs
    <2> QED BY <2>2, <2>3 DEF OneSlotFree
  <1> QED BY <1>1, SearchInvHolds, RoomInvHolds, PTL

\* The tables, the list of producers and what is returned keep to their
\* types, and the count to the number of threads.
THEOREM CountStaysInBounds ==
  ASSUME ProducerHashAssumption
  PROVE  Spec => []TypeOK
  <1>1. ASSUME SearchInv, CountInv PROVE TypeOK
    <2>1. Types
      BY <1>1 DEF SearchInv
    <2>2. implicitProducerHashCount \in 0 .. Cardinality(Threads)
      BY <1>1, ReservingIsFinite DEF CountInv
    <2>3. \A h \in DOMAIN hashes : /\ hashes[h].key \in [0 .. hashes[h].capacity - 1 -> Keys]
                                   /\ hashes[h].value \in [0 .. hashes[h].capacity - 1 -> Maybe]
      BY <2>1, KnownTable, TableIs DEF Slots, Capacity
    <2> QED BY <2>1, <2>2, <2>3 DEF TypeOK, Types, Keys, Maybe
  <1> QED BY <1>1, SearchInvHolds, CountInvHolds, PTL
=============================================================================
