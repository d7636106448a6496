--------------------------- MODULE FreeListProofs ---------------------------
(***************************************************************************)
(* Why the free list works for any number of threads and nodes.  At any    *)
(* time a node is in one of six states, and its reference word says how    *)
(* many threads refer to it.  A node nobody refers to is the only one      *)
(* whose links are written, and a thread that refers to a node keeps what  *)
(* it has read of it: that is what the compare-and-swap of the head needs. *)
(***************************************************************************)
EXTENDS FreeList, FiniteSetTheorems, TLAPS

\* Threads whose reference to n is counted.
Holders(n) ==
  {t \in Threads : \/ pc[t] \in {"load_next", "pop", "release"} /\ loc[t].head = n
                   \/ pc[t] = "drop_ref" /\ loc[t].node = n}

Held(n) == Cardinality(Holders(n))

EarlySteps == {"load_head", "store_next", "store_refs"}
LateSteps == {"push", "defer"}

\* The states of a node.
InUse(n) ==
  users[n] = 1 /\ Takers(n) = {} /\ Adders(n) = {} /\ freeListRefs[n] = Held(n)

Taken(n) ==
  /\ users[n] = 0 /\ Adders(n) = {} /\ freeListRefs[n] = 1 + Held(n)
  /\ \E t \in Threads : Takers(n) = {t}

Deferred(n) ==
  /\ users[n] = 0 /\ Takers(n) = {} /\ Adders(n) = {}
  /\ freeListRefs[n] = SHOULD_BE_ON_FREELIST + Held(n) /\ Holders(n) # {}

Early(n) ==
  /\ users[n] = 0 /\ Takers(n) = {}
  /\ freeListRefs[n] = SHOULD_BE_ON_FREELIST /\ Holders(n) = {}
  /\ \E t \in Threads : Adders(n) = {t} /\ pc[t] \in EarlySteps

Late(n) ==
  /\ users[n] = 0 /\ Takers(n) = {} /\ freeListRefs[n] = 1 + Held(n)
  /\ \E t \in Threads : Adders(n) = {t} /\ pc[t] \in LateSteps

Listed(n) ==
  users[n] = 0 /\ Takers(n) = {} /\ Adders(n) = {} /\ freeListRefs[n] = 1 + Held(n)

NodeOK(n) == InUse(n) \/ Taken(n) \/ Deferred(n) \/ Early(n) \/ Late(n) \/ Listed(n)

\* The head, and the links of the nodes on the list, lead to nodes on the
\* list, each to another.
LinksOK ==
  \A k \in Nodes :
    /\ freeListHead = k => Listed(k)
    /\ \A m \in Nodes : Listed(m) /\ freeListNext[m] = k =>
         /\ Listed(k) /\ freeListHead # k
         /\ \A n \in Nodes : Listed(n) /\ freeListNext[n] = k => n = m

\* A walk from the head meets them all.
WalkOK == \A n \in Nodes : Listed(n) => n \in Reachable(freeListHead)

\* What the local variables of a thread are at its steps.
LocalOK(t) ==
  /\ pc[t] \in {"load_refs", "take_ref", "load_next", "pop", "release"} => loc[t].head \in Nodes
  /\ pc[t] \in AddSteps \cup {"drop_ref"} => loc[t].node \in Nodes
  /\ pc[t] = "take_ref" => loc[t].refs % RefsRange # 0
  /\ pc[t] = "pop" => loc[t].next = freeListNext[loc[t].head]
  /\ pc[t] \in {"store_refs", "push"} => freeListNext[loc[t].node] = loc[t].expected

Types ==
  /\ freeListHead \in Ref
  /\ freeListRefs \in [Nodes -> Nat]
  /\ freeListNext \in [Nodes -> Ref]
  /\ users \in [Nodes -> Nat]
  /\ pc \in [Threads -> {"idle"} \cup GetSteps \cup AddSteps]
  /\ loc \in [Threads -> Locals]

FreeInv ==
  /\ Types
  /\ \A n \in Nodes : NodeOK(n)
  /\ LinksOK
  /\ WalkOK
  /\ \A t \in Threads : LocalOK(t)

----------------------------------------------------------------------------
(* Arithmetic of the reference word, and sizes of sets of threads. *)

LEMMA SmallMod ==
  ASSUME NEW k \in Nat, NEW m \in Nat, k < m
  PROVE  k % m = k
  OBVIOUS

LEMMA BitMod ==
  ASSUME NEW k \in Nat, NEW m \in Nat, k < m
  PROVE  (m + k) % m = k
  OBVIOUS

LEMMA Words ==
  ASSUME FreeListAssumption
  PROVE  /\ RefsRange \in Nat /\ Cardinality(Threads) \in Nat
         /\ RefsRange > Cardinality(Threads) + 1
         /\ SHOULD_BE_ON_FREELIST = RefsRange
  BY FS_CardinalityType DEF FreeListAssumption, SHOULD_BE_ON_FREELIST

LEMMA Sizes ==
  ASSUME FreeListAssumption, NEW S \in SUBSET Threads
  PROVE  /\ Cardinality(S) \in Nat /\ Cardinality(S) <= Cardinality(Threads)
         /\ (S = {}) <=> Cardinality(S) = 0
         /\ \A t \in S : Cardinality(S \ {t}) = Cardinality(S) - 1
         /\ \A t \in Threads \ S : Cardinality(S \cup {t}) = Cardinality(S) + 1
  <1>1. IsFiniteSet(S) /\ Cardinality(S) <= Cardinality(Threads)
    BY FS_Subset DEF FreeListAssumption
  <1> QED BY <1>1, FS_CardinalityType, FS_AddElement, FS_RemoveElement, FS_EmptySet

LEMMA HeldType ==
  ASSUME FreeListAssumption, NEW n \in Nodes
  PROVE  /\ Holders(n) \in SUBSET Threads /\ Held(n) \in Nat /\ Held(n) + 1 < RefsRange
         /\ (Holders(n) = {}) <=> Held(n) = 0
  <1>1. Holders(n) \in SUBSET Threads
    BY DEF Holders
  <1> QED BY <1>1, Sizes, Words DEF Held

\* The reference word is never so large that fetch_add wraps around.
LEMMA WordBounds ==
  ASSUME FreeListAssumption, NEW n \in Nodes, NodeOK(n)
  PROVE  freeListRefs[n] \in Held(n) .. RefsRange + Held(n)
  BY HeldType, Words DEF NodeOK, InUse, Taken, Deferred, Early, Late, Listed

LEMMA FetchAddIs ==
  ASSUME FreeListAssumption, Types, NEW n \in Nodes, NEW delta \in Int, FetchAdd(n, delta),
         freeListRefs[n] + delta \in 0 .. 2 * RefsRange - 1
  PROVE  /\ freeListRefs' = [freeListRefs EXCEPT ![n] = freeListRefs[n] + delta]
         /\ freeListRefs'[n] = freeListRefs[n] + delta
         /\ \A m \in Nodes \ {n} : freeListRefs'[m] = freeListRefs[m]
         /\ freeListRefs' \in [Nodes -> Nat]
  <1>1. RefsRange \in Nat /\ 2 * RefsRange \in Nat
    BY Words
  <1>2. freeListRefs[n] \in Nat
    BY DEF Types
  <1>3. (freeListRefs[n] + delta) % (2 * RefsRange) = freeListRefs[n] + delta
    <2>1. freeListRefs[n] + delta \in Nat /\ freeListRefs[n] + delta < 2 * RefsRange
      BY <1>1, <1>2
    <2> QED BY <1>1, <2>1, SmallMod
  <1>4. freeListRefs' = [freeListRefs EXCEPT ![n] = freeListRefs[n] + delta]
    BY <1>3 DEF FetchAdd
  <1> QED BY <1>1, <1>2, <1>4 DEF Types

----------------------------------------------------------------------------
(* A step of one thread. *)

\* No other thread moves.
OnlyMoves(t) == \A u \in Threads \ {t} : pc'[u] = pc[u] /\ loc'[u] = loc[u]

Away(t, n) == t \notin Holders(n) /\ t \notin Adders(n)

LEMMA SetsAt ==
  ASSUME NEW t \in Threads, OnlyMoves(t), NEW n \in Nodes
  PROVE  /\ Takers(n)' \ {t} = Takers(n) \ {t} /\ Takers(n)' \subseteq Threads
         /\ Adders(n)' \ {t} = Adders(n) \ {t} /\ Adders(n)' \subseteq Threads
         /\ Holders(n)' \ {t} = Holders(n) \ {t} /\ Holders(n)' \subseteq Threads
         /\ Takers(n) \subseteq Holders(n) /\ Takers(n)' \subseteq Holders(n)'
  BY DEF OnlyMoves, Takers, Adders, Holders

LEMMA SetsStay ==
  ASSUME NEW t \in Threads, OnlyMoves(t), NEW n \in Nodes,
         t \in Takers(n)' <=> t \in Takers(n), t \in Adders(n)' <=> t \in Adders(n),
         t \in Holders(n)' <=> t \in Holders(n)
  PROVE  Takers(n)' = Takers(n) /\ Adders(n)' = Adders(n) /\ Holders(n)' = Holders(n)
  BY SetsAt

\* A node for which everyone stays where they are, but for t between steps
\* that are much the same, keeps its state.
LEMMA SameSets ==
  ASSUME NEW t \in Threads, OnlyMoves(t), NEW n \in Nodes,
         freeListRefs'[n] = freeListRefs[n], users'[n] = users[n],
         Takers(n)' = Takers(n), Adders(n)' = Adders(n), Holders(n)' = Holders(n),
         t \in Adders(n) => /\ pc[t] \in EarlySteps => pc'[t] \in EarlySteps
                            /\ pc[t] \in LateSteps => pc'[t] \in LateSteps
  PROVE  (NodeOK(n) => NodeOK(n)') /\ (Listed(n)' <=> Listed(n))
  <1>1. Held(n)' = Held(n)
    BY DEF Held
  <1>2. \A u \in Adders(n) : u \in Threads /\ (u # t => pc'[u] = pc[u])
    BY DEF Adders, OnlyMoves
  <1>3. Early(n) => Early(n)'
    BY <1>1, <1>2 DEF Early
  <1>4. Late(n) => Late(n)'
    BY <1>1, <1>2 DEF Late
  <1> QED BY <1>1, <1>3, <1>4 DEF NodeOK, InUse, Taken, Deferred, Listed

\* A node that the thread has nothing to do with stays in its state.
LEMMA Elsewhere ==
  ASSUME NEW t \in Threads, OnlyMoves(t), NEW n \in Nodes, Away(t, n), Away(t, n)',
         freeListRefs'[n] = freeListRefs[n], users'[n] = users[n]
  PROVE  (NodeOK(n) => NodeOK(n)') /\ (Listed(n)' <=> Listed(n))
  <1>1. /\ t \notin Takers(n) /\ t \notin Adders(n) /\ t \notin Holders(n)
        /\ t \notin Takers(n)' /\ t \notin Adders(n)' /\ t \notin Holders(n)'
    BY DEF Away, Takers, Holders
  <1>2. /\ Takers(n)' \ {t} = Takers(n) \ {t} /\ Adders(n)' \ {t} = Adders(n) \ {t}
        /\ Holders(n)' \ {t} = Holders(n) \ {t}
    BY SetsAt
  <1>3. /\ Takers(n)' = Takers(n) /\ Adders(n)' = Adders(n) /\ Holders(n)' = Holders(n)
    BY <1>1, <1>2
  <1> QED BY <1>1, <1>3, SameSets

\* The nodes on the list follow from the head and from each other.
LEMMA ListedFollow ==
  ASSUME FreeInv
  PROVE  /\ freeListHead \in {m \in Nodes : Listed(m)} \cup {nullptr}
         /\ \A k \in Nodes : Listed(k) =>
              freeListNext[k] \in {m \in Nodes : Listed(m)} \cup {nullptr}
  BY DEF FreeInv, LinksOK, Types, Ref

\* A node on the list is in every set a walk cannot leave.
LEMMA WalkMeets ==
  ASSUME WalkOK, NEW n \in Nodes, Listed(n), NEW S \in SUBSET Nodes,
         freeListHead \in S \cup {nullptr},
         \A k \in S : freeListNext[k] \in S \cup {nullptr}
  PROVE  n \in S
  BY DEF WalkOK, Reachable

\* The links of the nodes that are on the list stay, and no node joins it.
LEMMA WalkStays ==
  ASSUME FreeInv, freeListHead' = freeListHead,
         \A n \in Nodes : Listed(n)' => Listed(n),
         \A n \in Nodes : Listed(n) => freeListNext'[n] = freeListNext[n]
  PROVE  WalkOK'
  <1> SUFFICES ASSUME NEW n \in Nodes, Listed(n), NEW S \in SUBSET Nodes,
                      freeListHead \in S \cup {nullptr},
                      \A k \in S : freeListNext'[k] \in S \cup {nullptr}
               PROVE  n \in S
    BY DEF WalkOK, Reachable
  <1> DEFINE R == {k \in S : Listed(k)}
  <1>1. R \in SUBSET Nodes /\ freeListHead \in R \cup {nullptr}
    BY ListedFollow
  <1>2. \A k \in R : freeListNext[k] \in R \cup {nullptr}
    <2> SUFFICES ASSUME NEW k \in R, freeListNext[k] # nullptr PROVE freeListNext[k] \in R
      OBVIOUS
    <2>1. freeListNext[k] \in Nodes /\ Listed(freeListNext[k])
      BY ListedFollow
    <2>2. freeListNext[k] \in S
      OBVIOUS
    <2> QED BY <2>1, <2>2
  <1>3. n \in R
    <2> HIDE DEF R
    <2> QED BY <1>1, <1>2, WalkMeets DEF FreeInv
  <1> QED BY <1>3

\* A step that leaves the list alone.
LEMMA StepOffTheList ==
  ASSUME FreeInv, NEW t \in Threads, OnlyMoves(t), Types', LocalOK(t)',
         UNCHANGED <<freeListHead, freeListNext>>,
         \A n \in Nodes :
           \/ /\ Away(t, n) /\ Away(t, n)'
              /\ freeListRefs'[n] = freeListRefs[n] /\ users'[n] = users[n]
           \/ NodeOK(n)' /\ (Listed(n)' <=> Listed(n))
  PROVE  FreeInv'
  <1>1. \A n \in Nodes : NodeOK(n)' /\ (Listed(n)' <=> Listed(n))
    BY Elsewhere DEF FreeInv
  <1>2. LinksOK'
    BY <1>1 DEF FreeInv, LinksOK, Types, Ref
  <1>3. \A u \in Threads : LocalOK(u)'
    <2> SUFFICES ASSUME NEW u \in Threads \ {t} PROVE LocalOK(u)'
      OBVIOUS
    <2>1. LocalOK(u) /\ pc'[u] = pc[u] /\ loc'[u] = loc[u] /\ freeListNext' = freeListNext
      BY DEF FreeInv, OnlyMoves
    <2> QED BY <2>1 DEF LocalOK
  <1>4. WalkOK'
    BY <1>1 DEF FreeInv, WalkOK, Reachable
  <1> QED BY <1>1, <1>2, <1>3, <1>4 DEF FreeInv

----------------------------------------------------------------------------
(* What a step does to its thread. *)

ThreadTypes ==
  pc \in [Threads -> {"idle"} \cup GetSteps \cup AddSteps] /\ loc \in [Threads -> Locals]

\* The thread goes to a step, with new local variables.
LEMMA ThreadGoes ==
  ASSUME ThreadTypes, NEW t \in Threads, NEW w \in {"idle"} \cup GetSteps \cup AddSteps,
         NEW l \in Locals, pc' = [pc EXCEPT ![t] = w], loc' = [loc EXCEPT ![t] = l]
  PROVE  OnlyMoves(t) /\ ThreadTypes' /\ pc'[t] = w /\ loc'[t] = l
  BY DEF ThreadTypes, OnlyMoves

\* try_get goes on or returns.
LEMMA TryHeadDoes ==
  ASSUME FreeListAssumption, ThreadTypes, NEW t \in Threads, NEW h \in Ref, TryHead(t, h)
  PROVE  /\ OnlyMoves(t) /\ ThreadTypes' /\ LocalOK(t)'
         /\ \A n \in Nodes : Away(t, n)'
  <1>0. NoLocals \in Locals /\ [NoLocals EXCEPT !.head = h] \in Locals
    <2>1. 0 \in Word
      BY Words DEF Word
    <2>2. nullptr \in Ref
      BY DEF Ref
    <2> QED BY <2>1, <2>2 DEF NoLocals, Locals
  <1>1. CASE h = nullptr
    <2>1. OnlyMoves(t) /\ ThreadTypes' /\ pc'[t] = "idle"
      BY <1>0, <1>1, ThreadGoes DEF TryHead, Return, Go
    <2> QED BY <2>1 DEF LocalOK, Away, Holders, Adders, AddSteps
  <1>2. CASE h # nullptr
    <2>1. OnlyMoves(t) /\ ThreadTypes' /\ pc'[t] = "load_refs" /\ loc'[t] = [NoLocals EXCEPT !.head = h]
      BY <1>0, <1>2, ThreadGoes DEF TryHead, Go, GetSteps
    <2>2. loc'[t].head \in Nodes
      BY <1>2, <2>1 DEF NoLocals, Ref
    <2> QED BY <2>1, <2>2 DEF LocalOK, Away, Holders, Adders, AddSteps
  <1> QED BY <1>1, <1>2

LEMMA AddDoneDoes ==
  ASSUME FreeListAssumption, ThreadTypes, NEW t \in Threads, AddDone(t)
  PROVE  /\ OnlyMoves(t) /\ ThreadTypes' /\ LocalOK(t)'
         /\ \A n \in Nodes : Away(t, n)'
  <1>1. loc[t].head \in Ref /\ nullptr \in Ref
    BY DEF ThreadTypes, Locals, Ref
  <1>2. PICK h \in Ref : TryHead(t, h)
    BY <1>1 DEF AddDone, TryHead
  <1> QED BY <1>2, TryHeadDoes

LEMMA ReaddDoes ==
  ASSUME ThreadTypes, NEW t \in Threads, NEW n \in Nodes, NEW nested \in BOOLEAN,
         Readd(t, n, nested)
  PROVE  /\ OnlyMoves(t) /\ ThreadTypes' /\ LocalOK(t)'
         /\ pc'[t] = "load_head" /\ loc'[t].node = n
  <1>1. loc' = [loc EXCEPT ![t] = [loc[t] EXCEPT !.node = n, !.nested = nested]]
    BY DEF Readd, ThreadTypes
  <1>2. loc[t] \in Locals /\ n \in Ref
    BY DEF ThreadTypes, Ref
  <1>3. [loc[t] EXCEPT !.node = n, !.nested = nested] \in Locals
    BY <1>2 DEF Locals
  <1>4. /\ OnlyMoves(t) /\ ThreadTypes' /\ pc'[t] = "load_head"
        /\ loc'[t] = [loc[t] EXCEPT !.node = n, !.nested = nested]
    BY <1>1, <1>3, ThreadGoes DEF Readd, Go, AddSteps
  <1>5. loc'[t].node = n
    BY <1>2, <1>4 DEF Locals
  <1> QED BY <1>4, <1>5 DEF LocalOK

\* At the steps of an operation, where its thread is.
LEMMA Where ==
  ASSUME NEW t \in Threads, NEW n \in Nodes
  PROVE  /\ pc[t] \in {"idle", "load_refs", "take_ref", "reload"} => Away(t, n)
         /\ pc[t] \in {"load_next", "pop"} =>
              /\ t \notin Adders(n) /\ t \notin Takers(n)
              /\ t \in Holders(n) <=> loc[t].head = n
         /\ pc[t] = "release" =>
              /\ t \notin Adders(n)
              /\ (t \in Holders(n) <=> loc[t].head = n) /\ (t \in Takers(n) <=> loc[t].head = n)
         /\ pc[t] = "drop_ref" =>
              /\ t \notin Adders(n) /\ t \notin Takers(n)
              /\ t \in Holders(n) <=> loc[t].node = n
         /\ pc[t] \in AddSteps =>
              /\ t \notin Holders(n) /\ t \notin Takers(n)
              /\ t \in Adders(n) <=> loc[t].node = n
  BY DEF Away, Holders, Adders, Takers, AddSteps

----------------------------------------------------------------------------
(* The steps of try_get. *)

\* TryGet and Reload: the head is looked at.
LEMMA LookStep ==
  ASSUME FreeListAssumption, FreeInv, NEW t \in Threads, TryGet(t) \/ Reload(t)
  PROVE  FreeInv'
  <1>1. /\ pc[t] \in {"idle", "reload"} /\ TryHead(t, freeListHead) /\ freeListHead \in Ref
        /\ UNCHANGED <<freeListHead, freeListRefs, freeListNext, users>> /\ ThreadTypes
    BY DEF TryGet, Reload, At, FreeInv, Types, ThreadTypes
  <1>2. /\ OnlyMoves(t) /\ ThreadTypes' /\ LocalOK(t)'
        /\ \A n \in Nodes : Away(t, n) /\ Away(t, n)'
    BY <1>1, TryHeadDoes, Where
  <1>3. Types'
    BY <1>1, <1>2 DEF FreeInv, Types, ThreadTypes
  <1> QED BY <1>1, <1>2, <1>3, StepOffTheList

LEMMA LoadRefsStep ==
  ASSUME FreeListAssumption, FreeInv, NEW t \in Threads, LoadRefs(t)
  PROVE  FreeInv'
  <1> DEFINE refs == freeListRefs[loc[t].head]
             l == [loc[t] EXCEPT !.refs = refs]
             w == IF refs % RefsRange = 0 THEN "reload" ELSE "take_ref"
  <1>1. /\ pc[t] = "load_refs" /\ loc[t].head \in Nodes /\ loc[t] \in Locals /\ ThreadTypes
        /\ UNCHANGED <<freeListHead, freeListRefs, freeListNext, users>>
    BY DEF LoadRefs, At, FreeInv, LocalOK, Types, ThreadTypes
  <1>2. refs \in Word
    BY <1>1, WordBounds, HeldType, Words DEF FreeInv, Word
  <1>3. l \in Locals /\ l.head = loc[t].head /\ l.refs = refs
    BY <1>1, <1>2 DEF Locals
  <1>4. pc' = [pc EXCEPT ![t] = w] /\ loc' = [loc EXCEPT ![t] = l]
    BY <1>1 DEF LoadRefs, Go, ThreadTypes
  <1>5. w \in {"reload", "take_ref"} /\ w \in GetSteps
    BY DEF GetSteps
  <1>6. OnlyMoves(t) /\ ThreadTypes' /\ pc'[t] = w /\ loc'[t] = l
    <2> HIDE DEF w, l
    <2> QED BY <1>1, <1>3, <1>4, <1>5, ThreadGoes
  <1>7. LocalOK(t)'
    BY <1>1, <1>3, <1>6 DEF LocalOK, AddSteps
  <1>8. \A n \in Nodes : Away(t, n) /\ Away(t, n)'
    BY <1>1, <1>5, <1>6, Where DEF Away, Holders, Adders, AddSteps
  <1>9. Types'
    BY <1>1, <1>6 DEF FreeInv, Types, ThreadTypes
  <1> QED BY <1>1, <1>6, <1>7, <1>8, <1>9, StepOffTheList

LEMMA LoadNextStep ==
  ASSUME FreeInv, NEW t \in Threads, LoadNext(t)
  PROVE  FreeInv'
  <1> DEFINE l == [loc[t] EXCEPT !.next = freeListNext[loc[t].head]]
  <1>1. /\ pc[t] = "load_next" /\ loc[t].head \in Nodes /\ loc[t] \in Locals /\ ThreadTypes
        /\ UNCHANGED <<freeListHead, freeListRefs, freeListNext, users>>
        /\ freeListNext[loc[t].head] \in Ref
    BY DEF LoadNext, At, FreeInv, LocalOK, Types, ThreadTypes
  <1>2. l \in Locals /\ l.head = loc[t].head /\ l.next = freeListNext[loc[t].head]
    BY <1>1 DEF Locals
  <1>3. pc' = [pc EXCEPT ![t] = "pop"] /\ loc' = [loc EXCEPT ![t] = l]
    BY <1>1 DEF LoadNext, Go, ThreadTypes
  <1>4. OnlyMoves(t) /\ ThreadTypes' /\ pc'[t] = "pop" /\ loc'[t] = l
    <2> HIDE DEF l
    <2> QED BY <1>1, <1>2, <1>3, ThreadGoes DEF GetSteps
  <1>5. LocalOK(t)'
    BY <1>1, <1>2, <1>4 DEF LocalOK, AddSteps
  <1>6. ASSUME NEW n \in Nodes PROVE NodeOK(n)' /\ (Listed(n)' <=> Listed(n))
    <2>1. /\ t \notin Takers(n) /\ t \notin Takers(n)'
          /\ t \notin Adders(n) /\ t \notin Adders(n)'
          /\ t \in Holders(n)' <=> t \in Holders(n)
      BY <1>1, <1>2, <1>4 DEF Takers, Adders, Holders, AddSteps
    <2>2. /\ Takers(n)' = Takers(n) /\ Adders(n)' = Adders(n) /\ Holders(n)' = Holders(n)
      BY <1>4, <2>1, SetsStay
    <2>3. freeListRefs'[n] = freeListRefs[n] /\ users'[n] = users[n] /\ NodeOK(n)
      BY <1>1 DEF FreeInv
    <2> QED BY <1>4, <2>1, <2>2, <2>3, SameSets
  <1>7. Types'
    BY <1>1, <1>4 DEF FreeInv, Types, ThreadTypes
  <1> QED BY <1>1, <1>4, <1>5, <1>6, <1>7, StepOffTheList

\* A reference to n comes or goes, and nothing else happens to n.
LEMMA HoldersMove ==
  ASSUME FreeListAssumption, FreeInv, NEW t \in Threads, OnlyMoves(t), NEW n \in Nodes,
         t \notin Adders(n), Takers(n)' = Takers(n), Adders(n)' = Adders(n),
         Held(n)' \in Nat, freeListRefs'[n] = freeListRefs[n] + Held(n)' - Held(n),
         users'[n] = users[n], ~ Early(n), Deferred(n) => Holders(n)' # {}
  PROVE  NodeOK(n)' /\ (Listed(n)' <=> Listed(n))
  <1>1. \A u \in Adders(n) : u \in Threads /\ pc'[u] = pc[u]
    BY DEF Adders, OnlyMoves
  <1>2. Held(n) \in Nat /\ freeListRefs[n] \in Nat /\ RefsRange \in Nat
    BY HeldType, Words DEF FreeInv, Types
  <1>3. CASE InUse(n)
    BY <1>2, <1>3 DEF NodeOK, InUse, Listed
  <1>4. CASE Taken(n)
    BY <1>2, <1>4 DEF NodeOK, Taken, Listed
  <1>5. CASE Deferred(n)
    <2>1. Deferred(n)'
      BY <1>2, <1>5 DEF Deferred, SHOULD_BE_ON_FREELIST
    <2> QED BY <1>2, <1>5, <2>1 DEF NodeOK, Deferred, Listed, SHOULD_BE_ON_FREELIST
  <1>6. CASE Late(n)
    <2>1. Late(n)'
      BY <1>1, <1>2, <1>6 DEF Late
    <2> QED BY <1>6, <2>1 DEF NodeOK, Late, Listed
  <1>7. CASE Listed(n)
    BY <1>2, <1>7 DEF NodeOK, Listed
  <1> QED BY <1>3, <1>4, <1>5, <1>6, <1>7 DEF FreeInv, NodeOK

LEMMA TakeRefStep ==
  ASSUME FreeListAssumption, FreeInv, NEW t \in Threads, TakeRef(t)
  PROVE  FreeInv'
  <1> DEFINE h == loc[t].head
  <1>1. /\ pc[t] = "take_ref" /\ h \in Nodes /\ loc[t] \in Locals /\ ThreadTypes
        /\ UNCHANGED <<freeListHead, freeListNext, users, loc>> /\ loc[t].refs % RefsRange # 0
        /\ loc' = [loc EXCEPT ![t] = loc[t]]
    BY DEF TakeRef, At, FreeInv, LocalOK, Types, ThreadTypes
  <1>2. \A n \in Nodes : Away(t, n)
    BY <1>1, Where
  <1>3. CASE Go(t, "reload") /\ UNCHANGED freeListRefs
    <2>1. OnlyMoves(t) /\ ThreadTypes' /\ pc'[t] = "reload"
      BY <1>1, <1>3, ThreadGoes DEF Go, GetSteps
    <2>2. LocalOK(t)' /\ \A n \in Nodes : Away(t, n)'
      BY <2>1 DEF LocalOK, Away, Holders, Adders, AddSteps
    <2>3. Types'
      BY <1>1, <1>3, <2>1 DEF FreeInv, Types, ThreadTypes
    <2> QED BY <1>1, <1>2, <1>3, <2>1, <2>2, <2>3, StepOffTheList
  <1>4. CASE freeListRefs[h] = loc[t].refs /\ FetchAdd(h, 1) /\ Go(t, "load_next")
    <2>1. OnlyMoves(t) /\ ThreadTypes' /\ pc'[t] = "load_next" /\ loc'[t] = loc[t]
      BY <1>1, <1>4, ThreadGoes DEF Go, GetSteps
    <2>2. LocalOK(t)'
      BY <1>1, <2>1 DEF LocalOK, AddSteps
    <2>3. NodeOK(h) /\ Held(h) \in Nat /\ Held(h) + 1 < RefsRange /\ RefsRange \in Nat
      BY <1>1, HeldType, Words DEF FreeInv
    <2>4. freeListRefs[h] + 1 \in 0 .. 2 * RefsRange - 1
      BY <1>1, <2>3, WordBounds
    <2>5. /\ freeListRefs'[h] = freeListRefs[h] + 1 /\ freeListRefs' \in [Nodes -> Nat]
          /\ \A m \in Nodes \ {h} : freeListRefs'[m] = freeListRefs[m]
      BY <1>1, <1>4, <2>4, FetchAddIs DEF FreeInv
    <2>6. ~ Early(h)
      <3>1. (RefsRange + 0) % RefsRange = 0
        BY <2>3, BitMod
      <3>2. RefsRange % RefsRange = 0
        BY <2>3, <3>1
      <3>3. freeListRefs[h] # RefsRange
        BY <1>1, <1>4, <3>2
      <3> QED BY <3>3 DEF Early, SHOULD_BE_ON_FREELIST
    <2>7. /\ t \notin Takers(h) /\ t \notin Takers(h)' /\ t \notin Adders(h) /\ t \notin Adders(h)'
          /\ t \notin Holders(h) /\ t \in Holders(h)'
      BY <1>1, <2>1 DEF Takers, Adders, Holders, AddSteps
    <2>8. /\ Takers(h)' = Takers(h) /\ Adders(h)' = Adders(h)
          /\ Holders(h)' = Holders(h) \cup {t} /\ Holders(h) \in SUBSET Threads
      <3>1. /\ Takers(h)' \ {t} = Takers(h) \ {t} /\ Adders(h)' \ {t} = Adders(h) \ {t}
            /\ Holders(h)' \ {t} = Holders(h) \ {t}
        BY <1>1, <2>1, SetsAt
      <3>2. Holders(h) \in SUBSET Threads
        BY DEF Holders
      <3>3. Takers(h)' = Takers(h) /\ Adders(h)' = Adders(h)
        BY <2>7, <3>1
      <3>4. Holders(h)' = Holders(h) \cup {t}
        BY <2>7, <3>1
      <3> QED BY <3>2, <3>3, <3>4
    <2>9. Held(h)' = Held(h) + 1
      BY <2>7, <2>8, Sizes DEF Held
    <2>10. NodeOK(h)' /\ (Listed(h)' <=> Listed(h))
      <3>1. Held(h)' \in Nat /\ freeListRefs'[h] = freeListRefs[h] + Held(h)' - Held(h)
        BY <1>1, <2>3, <2>5, <2>9 DEF FreeInv, Types
      <3>2. users'[h] = users[h] /\ Holders(h)' # {}
        BY <1>1, <2>7
      <3> QED BY <1>1, <2>1, <2>6, <2>7, <2>8, <3>1, <3>2, HoldersMove
    <2>11. \A n \in Nodes \ {h} : Away(t, n)'
      BY <1>1, <2>1 DEF Away, Holders, Adders, AddSteps
    <2>12. Types'
      BY <1>1, <2>1, <2>5 DEF FreeInv, Types, ThreadTypes
    <2>13. \A n \in Nodes :
             \/ /\ Away(t, n) /\ Away(t, n)'
                /\ freeListRefs'[n] = freeListRefs[n] /\ users'[n] = users[n]
             \/ NodeOK(n)' /\ (Listed(n)' <=> Listed(n))
      BY <1>1, <1>2, <2>5, <2>10, <2>11
    <2> QED BY <1>1, <2>1, <2>2, <2>12, <2>13, StepOffTheList
  <1> QED BY <1>3, <1>4 DEF TakeRef

\* t takes its place among those at n, or leaves it.
LEMMA SetsMove ==
  ASSUME NEW t \in Threads, OnlyMoves(t), NEW n \in Nodes
  PROVE  /\ t \notin Takers(n) /\ t \notin Takers(n)' => Takers(n)' = Takers(n)
         /\ t \in Takers(n)' => Takers(n)' = Takers(n) \cup {t}
         /\ t \notin Takers(n)' => Takers(n)' = Takers(n) \ {t}
         /\ t \notin Adders(n) /\ t \notin Adders(n)' => Adders(n)' = Adders(n)
         /\ t \in Adders(n)' => Adders(n)' = Adders(n) \cup {t}
         /\ t \notin Adders(n)' => Adders(n)' = Adders(n) \ {t}
         /\ t \notin Holders(n) /\ t \notin Holders(n)' => Holders(n)' = Holders(n)
         /\ t \in Holders(n) /\ t \in Holders(n)' => Holders(n)' = Holders(n)
         /\ t \notin Holders(n)' => Holders(n)' = Holders(n) \ {t}
  <1>1. /\ Takers(n)' \ {t} = Takers(n) \ {t} /\ Adders(n)' \ {t} = Adders(n) \ {t}
        /\ Holders(n)' \ {t} = Holders(n) \ {t}
    BY SetsAt
  <1>2. /\ t \notin Takers(n) /\ t \notin Takers(n)' => Takers(n)' = Takers(n)
        /\ t \in Takers(n)' => Takers(n)' = Takers(n) \cup {t}
        /\ t \notin Takers(n)' => Takers(n)' = Takers(n) \ {t}
    BY <1>1
  <1>3. /\ t \notin Adders(n) /\ t \notin Adders(n)' => Adders(n)' = Adders(n)
        /\ t \in Adders(n)' => Adders(n)' = Adders(n) \cup {t}
        /\ t \notin Adders(n)' => Adders(n)' = Adders(n) \ {t}
    BY <1>1
  <1>4. /\ t \notin Holders(n) /\ t \notin Holders(n)' => Holders(n)' = Holders(n)
        /\ t \in Holders(n) /\ t \in Holders(n)' => Holders(n)' = Holders(n)
        /\ t \notin Holders(n)' => Holders(n)' = Holders(n) \ {t}
    BY <1>1
  <1> QED BY <1>2, <1>3, <1>4

\* The head has changed: t still refers to the node it has looked at.
LEMMA PopFails ==
  ASSUME FreeListAssumption, FreeInv, NEW t \in Threads, Pop(t), freeListHead # loc[t].head
  PROVE  FreeInv'
  <1> DEFINE h == loc[t].head
             l == [loc[t] EXCEPT !.node = h, !.head = freeListHead]
  <1>1. /\ pc[t] = "pop" /\ h \in Nodes /\ loc[t] \in Locals /\ ThreadTypes
        /\ freeListHead \in Ref /\ h \in Ref
        /\ UNCHANGED <<freeListHead, freeListRefs, freeListNext, users>>
    BY DEF Pop, At, FreeInv, LocalOK, Types, ThreadTypes, Ref
  <1>2. l \in Locals /\ l.node = h
    BY <1>1 DEF Locals
  <1>3. pc' = [pc EXCEPT ![t] = "drop_ref"] /\ loc' = [loc EXCEPT ![t] = l]
    BY <1>1 DEF Pop, Go, ThreadTypes
  <1>4. OnlyMoves(t) /\ ThreadTypes' /\ pc'[t] = "drop_ref" /\ loc'[t] = l
    <2> HIDE DEF l
    <2> QED BY <1>1, <1>2, <1>3, ThreadGoes DEF GetSteps
  <1>5. LocalOK(t)'
    BY <1>1, <1>2, <1>4 DEF LocalOK, AddSteps
  <1>6. ASSUME NEW n \in Nodes PROVE NodeOK(n)' /\ (Listed(n)' <=> Listed(n))
    <2>1. /\ t \notin Takers(n) /\ t \notin Takers(n)'
          /\ t \notin Adders(n) /\ t \notin Adders(n)'
          /\ t \in Holders(n)' <=> t \in Holders(n)
      BY <1>1, <1>2, <1>4 DEF Takers, Adders, Holders, AddSteps
    <2>2. /\ Takers(n)' = Takers(n) /\ Adders(n)' = Adders(n) /\ Holders(n)' = Holders(n)
      BY <1>4, <2>1, SetsStay
    <2>3. freeListRefs'[n] = freeListRefs[n] /\ users'[n] = users[n] /\ NodeOK(n)
      BY <1>1 DEF FreeInv
    <2> QED BY <1>4, <2>1, <2>2, <2>3, SameSets
  <1>7. Types'
    BY <1>1, <1>4 DEF FreeInv, Types, ThreadTypes
  <1> QED BY <1>1, <1>4, <1>5, <1>6, <1>7, StepOffTheList

\* The head is taken off the list, and what t has read of its link is still
\* its link.
LEMMA PopSucceeds ==
  ASSUME FreeListAssumption, FreeInv, NEW t \in Threads, Pop(t), freeListHead = loc[t].head
  PROVE  FreeInv'
  <1> PICK h \in Nodes : h = freeListHead
    BY DEF Pop, At, FreeInv, LocalOK
  <1>1. /\ pc[t] = "pop" /\ h = freeListHead /\ h = loc[t].head /\ loc[t].next = freeListNext[h]
        /\ loc[t] \in Locals /\ ThreadTypes /\ h # nullptr
        /\ freeListHead' = freeListNext[h] /\ pc' = [pc EXCEPT ![t] = "release"]
        /\ UNCHANGED <<freeListRefs, freeListNext, users, loc>> /\ loc' = [loc EXCEPT ![t] = loc[t]]
    BY DEF Pop, At, Go, FreeInv, LocalOK, Types, ThreadTypes, FreeListAssumption
  <1>2. OnlyMoves(t) /\ ThreadTypes' /\ pc'[t] = "release" /\ loc'[t] = loc[t]
    BY <1>1, ThreadGoes DEF GetSteps
  <1>3. LocalOK(t)'
    BY <1>1, <1>2 DEF LocalOK, AddSteps
  <1>4. Types'
    BY <1>1, <1>2 DEF FreeInv, Types, ThreadTypes
  <1>5. Listed(h)
    BY <1>1 DEF FreeInv, LinksOK
  <1>6. Taken(h)' /\ ~ Listed(h)'
    <2>1. /\ t \notin Takers(h) /\ t \in Takers(h)' /\ t \notin Adders(h) /\ t \notin Adders(h)'
          /\ t \in Holders(h) /\ t \in Holders(h)'
      BY <1>1, <1>2 DEF Takers, Adders, Holders, AddSteps
    <2>2. /\ Takers(h)' = Takers(h) \cup {t} /\ Adders(h)' = Adders(h) /\ Holders(h)' = Holders(h)
      BY <1>1, <1>2, <2>1, SetsMove
    <2>3. Held(h)' = Held(h)
      BY <2>2 DEF Held
    <2> QED BY <1>1, <1>5, <2>2, <2>3 DEF Listed, Taken
  <1>7. ASSUME NEW n \in Nodes \ {h}
        PROVE  NodeOK(n)' /\ (Listed(n)' <=> Listed(n))
    <2>1. Away(t, n) /\ Away(t, n)'
      BY <1>1, <1>2 DEF Away, Holders, Adders, AddSteps
    <2>2. freeListRefs'[n] = freeListRefs[n] /\ users'[n] = users[n] /\ NodeOK(n)
      BY <1>1 DEF FreeInv
    <2> QED BY <1>2, <2>1, <2>2, Elsewhere
  <1>8. LinksOK'
    <2>1. ASSUME NEW k \in Nodes, freeListHead' = k PROVE Listed(k)'
      <3>1. Listed(k) /\ k # h
        BY <1>1, <1>5, <2>1 DEF FreeInv, LinksOK
      <3> QED BY <1>7, <3>1
    <2>2. ASSUME NEW k \in Nodes, NEW m \in Nodes, Listed(m)', freeListNext'[m] = k
          PROVE  /\ Listed(k)' /\ freeListHead' # k
                 /\ \A n \in Nodes : Listed(n)' /\ freeListNext'[n] = k => n = m
      <3>1. m # h /\ Listed(m)
        BY <1>6, <1>7, <2>2
      <3>2. /\ Listed(k) /\ k # h
            /\ \A n \in Nodes : Listed(n) /\ freeListNext[n] = k => n = m
        BY <1>1, <2>2, <3>1 DEF FreeInv, LinksOK
      <3>3. freeListHead' # k
        BY <1>1, <1>5, <3>1, <3>2
      <3> QED BY <1>1, <1>6, <1>7, <3>2, <3>3
    <2> QED BY <2>1, <2>2 DEF LinksOK
  <1>9. \A n \in Nodes : NodeOK(n)'
    BY <1>6, <1>7 DEF NodeOK
  <1>10. \A u \in Threads : LocalOK(u)'
    <2> SUFFICES ASSUME NEW u \in Threads \ {t} PROVE LocalOK(u)'
      BY <1>3
    <2>1. LocalOK(u) /\ pc'[u] = pc[u] /\ loc'[u] = loc[u] /\ freeListNext' = freeListNext
      BY <1>1, <1>2 DEF FreeInv, OnlyMoves
    <2> QED BY <2>1 DEF LocalOK
  <1>11. WalkOK'
    <2> SUFFICES ASSUME NEW n \in Nodes, Listed(n)', NEW S \in SUBSET Nodes,
                        freeListNext[h] \in S \cup {nullptr},
                        \A k \in S : freeListNext[k] \in S \cup {nullptr}
                 PROVE  n \in S
      BY <1>1 DEF WalkOK, Reachable
    <2>1. n # h /\ Listed(n)
      BY <1>6, <1>7
    <2> DEFINE R == S \cup {h}
    <2>2. /\ R \in SUBSET Nodes /\ freeListHead \in R \cup {nullptr}
          /\ \A k \in R : freeListNext[k] \in R \cup {nullptr}
      BY <1>1
    <2>3. n \in R
      <3> HIDE DEF R
      <3> QED BY <2>1, <2>2, WalkMeets DEF FreeInv
    <2> QED BY <2>1, <2>3
  <1> QED BY <1>4, <1>8, <1>9, <1>10, <1>11 DEF FreeInv

\* Neither the taker nor the list refers to the node any more.
LEMMA ReleaseStep ==
  ASSUME FreeListAssumption, FreeInv, NEW t \in Threads, Release(t)
  PROVE  FreeInv'
  <1> PICK h \in Nodes : h = loc[t].head
    BY DEF Release, At, FreeInv, LocalOK
  <1>1. /\ pc[t] = "release" /\ ThreadTypes /\ nullptr \in Ref /\ TryHead(t, nullptr)
        /\ users' = [users EXCEPT ![h] = @ + 1] /\ FetchAdd(h, -2)
        /\ UNCHANGED <<freeListHead, freeListNext>>
    BY DEF Release, At, FreeInv, Types, ThreadTypes, Ref, TryHead
  <1>2. OnlyMoves(t) /\ ThreadTypes' /\ LocalOK(t)' /\ \A n \in Nodes : Away(t, n)'
    BY <1>1, TryHeadDoes
  <1>3. t \in Takers(h) /\ t \in Holders(h) /\ t \notin Adders(h)
    BY <1>1 DEF Takers, Holders, Adders, AddSteps
  <1>4. Taken(h) /\ ~ Listed(h)
    BY <1>3 DEF FreeInv, NodeOK, InUse, Deferred, Early, Late, Listed
  <1>5. /\ Held(h) \in Nat /\ Held(h) + 1 < RefsRange /\ RefsRange \in Nat /\ Held(h) >= 1
        /\ freeListRefs[h] = 1 + Held(h) /\ users[h] = 0
    BY <1>3, <1>4, HeldType, Words DEF Taken
  <1>6. freeListRefs[h] + (-2) \in 0 .. 2 * RefsRange - 1 /\ -2 \in Int
    BY <1>5
  <1>7. /\ freeListRefs'[h] = Held(h) - 1 /\ freeListRefs' \in [Nodes -> Nat]
        /\ \A m \in Nodes \ {h} : freeListRefs'[m] = freeListRefs[m]
    BY <1>1, <1>5, <1>6, FetchAddIs DEF FreeInv
  <1>8. /\ users'[h] = 1 /\ users' \in [Nodes -> Nat]
        /\ \A m \in Nodes \ {h} : users'[m] = users[m]
    BY <1>1, <1>5 DEF FreeInv, Types
  <1>9. t \notin Takers(h)' /\ t \notin Holders(h)' /\ t \notin Adders(h)'
    BY <1>2 DEF Away, Takers, Holders
  <1>10. /\ Takers(h)' = Takers(h) \ {t} /\ Adders(h)' = Adders(h)
         /\ Holders(h)' = Holders(h) \ {t} /\ Holders(h) \in SUBSET Threads
    BY <1>2, <1>3, <1>9, SetsMove, HeldType
  <1>11. Held(h)' = Held(h) - 1
    BY <1>3, <1>10, Sizes DEF Held
  <1>12. Takers(h)' = {} /\ Adders(h)' = {}
    BY <1>3, <1>4, <1>10 DEF Taken
  <1>13. NodeOK(h)' /\ (Listed(h)' <=> Listed(h))
    BY <1>4, <1>7, <1>8, <1>11, <1>12 DEF NodeOK, InUse, Listed
  <1>14. \A n \in Nodes \ {h} : Away(t, n)
    BY <1>1 DEF Away, Holders, Adders, AddSteps
  <1>15. Types'
    BY <1>1, <1>2, <1>7, <1>8 DEF FreeInv, Types, ThreadTypes
  <1>16. \A n \in Nodes :
           \/ /\ Away(t, n) /\ Away(t, n)'
              /\ freeListRefs'[n] = freeListRefs[n] /\ users'[n] = users[n]
           \/ NodeOK(n)' /\ (Listed(n)' <=> Listed(n))
    BY <1>2, <1>7, <1>8, <1>13, <1>14
  <1> QED BY <1>1, <1>2, <1>15, <1>16, StepOffTheList

\* t no longer refers to h; if it was the last to do so, and h is to be on
\* the list, it adds h.
LEMMA DropRefStep ==
  ASSUME FreeListAssumption, FreeInv, NEW t \in Threads, DropRef(t)
  PROVE  FreeInv'
  <1> PICK h \in Nodes : h = loc[t].node
    BY DEF DropRef, At, FreeInv, LocalOK
  <1>1. /\ pc[t] = "drop_ref" /\ ThreadTypes /\ loc[t].head \in Ref /\ FetchAdd(h, -1)
        /\ UNCHANGED <<freeListHead, freeListNext, users>> /\ NodeOK(h)
    BY DEF DropRef, At, FreeInv, Types, ThreadTypes, Locals
  <1>2. t \in Holders(h) /\ t \notin Takers(h) /\ t \notin Adders(h) /\ ~ Early(h)
    BY <1>1 DEF Takers, Holders, Adders, AddSteps, Early
  <1>3. /\ Held(h) \in Nat /\ Held(h) + 1 < RefsRange /\ RefsRange \in Nat /\ Held(h) >= 1
        /\ freeListRefs[h] \in Held(h) .. RefsRange + Held(h)
    BY <1>1, <1>2, HeldType, Words, WordBounds
  <1>4. freeListRefs[h] + (-1) \in 0 .. 2 * RefsRange - 1 /\ -1 \in Int
    BY <1>3
  <1>5. /\ freeListRefs'[h] = freeListRefs[h] - 1 /\ freeListRefs' \in [Nodes -> Nat]
        /\ \A m \in Nodes \ {h} : freeListRefs'[m] = freeListRefs[m]
    BY <1>1, <1>3, <1>4, FetchAddIs DEF FreeInv
  <1>6. \A n \in Nodes \ {h} : Away(t, n)
    BY <1>1 DEF Away, Holders, Adders, AddSteps
  <1>7. Holders(h) \in SUBSET Threads /\ Cardinality(Holders(h) \ {t}) = Held(h) - 1
    BY <1>2, HeldType, Sizes DEF Held
  <1>8. CASE freeListRefs[h] = SHOULD_BE_ON_FREELIST + 1
    <2>1. Readd(t, h, TRUE)
      BY <1>8 DEF DropRef
    <2>2. /\ OnlyMoves(t) /\ ThreadTypes' /\ LocalOK(t)'
          /\ pc'[t] = "load_head" /\ loc'[t].node = h
      BY <1>1, <2>1, ReaddDoes
    <2>3. Deferred(h) /\ Held(h) = 1
      BY <1>1, <1>2, <1>3, <1>8 DEF NodeOK, InUse, Taken, Deferred, Late, Listed,
                                    SHOULD_BE_ON_FREELIST
    <2>4. t \notin Takers(h)' /\ t \notin Holders(h)' /\ t \in Adders(h)'
      BY <2>2 DEF Takers, Holders, Adders, AddSteps
    <2>5. /\ Takers(h)' = Takers(h) /\ Adders(h)' = Adders(h) \cup {t}
          /\ Holders(h)' = Holders(h) \ {t}
      BY <1>2, <2>2, <2>4, SetsMove
    <2>6. Holders(h)' = {} /\ Adders(h)' = {t} /\ Takers(h)' = {}
      <3>1. Holders(h) \ {t} = {}
        <4>1. Cardinality(Holders(h) \ {t}) = 0
          BY <1>7, <2>3
        <4>2. Holders(h) \ {t} \in SUBSET Threads
          BY <1>7
        <4> QED BY <4>1, <4>2, Sizes
      <3> QED BY <2>3, <2>5, <3>1 DEF Deferred
    <2>7. Early(h)'
      BY <1>1, <1>3, <1>5, <1>8, <2>2, <2>3, <2>6
         DEF Early, EarlySteps, SHOULD_BE_ON_FREELIST, Deferred
    <2>8. ~ Listed(h)' /\ ~ Listed(h)
      BY <2>3, <2>6, <1>3 DEF Listed, Deferred, SHOULD_BE_ON_FREELIST
    <2>9. \A n \in Nodes \ {h} : Away(t, n)'
      BY <2>2 DEF Away, Holders, Adders, AddSteps
    <2>10. Types'
      BY <1>1, <1>5, <2>2 DEF FreeInv, Types, ThreadTypes
    <2>11. \A n \in Nodes :
             \/ /\ Away(t, n) /\ Away(t, n)'
                /\ freeListRefs'[n] = freeListRefs[n] /\ users'[n] = users[n]
             \/ NodeOK(n)' /\ (Listed(n)' <=> Listed(n))
      BY <1>1, <1>5, <1>6, <2>7, <2>8, <2>9 DEF NodeOK
    <2> QED BY <1>1, <2>2, <2>10, <2>11, StepOffTheList
  <1>9. CASE freeListRefs[h] # SHOULD_BE_ON_FREELIST + 1
    <2>1. TryHead(t, loc[t].head)
      BY <1>9 DEF DropRef
    <2>2. OnlyMoves(t) /\ ThreadTypes' /\ LocalOK(t)' /\ \A n \in Nodes : Away(t, n)'
      BY <1>1, <2>1, TryHeadDoes
    <2>3. t \notin Takers(h)' /\ t \notin Holders(h)' /\ t \notin Adders(h)'
      BY <2>2 DEF Away, Takers, Holders
    <2>4. /\ Takers(h)' = Takers(h) /\ Adders(h)' = Adders(h) /\ Holders(h)' = Holders(h) \ {t}
      BY <1>2, <2>2, <2>3, SetsMove
    <2>5. Held(h)' = Held(h) - 1
      BY <1>7, <2>4 DEF Held
    <2>6. Deferred(h) => Holders(h)' # {}
      <3> SUFFICES ASSUME Deferred(h) PROVE Holders(h)' # {}
        OBVIOUS
      <3>1. Held(h) # 1
        BY <1>3, <1>9 DEF Deferred, SHOULD_BE_ON_FREELIST
      <3>2. Cardinality(Holders(h) \ {t}) # 0
        BY <1>3, <1>7, <3>1
      <3> QED BY <1>7, <2>4, <3>2, Sizes
    <2>7. NodeOK(h)' /\ (Listed(h)' <=> Listed(h))
      <3>1. /\ Held(h)' \in Nat /\ freeListRefs'[h] = freeListRefs[h] + Held(h)' - Held(h)
            /\ users'[h] = users[h]
        BY <1>1, <1>3, <1>5, <2>5
      <3> QED BY <1>2, <2>2, <2>4, <2>6, <3>1, HoldersMove
    <2>8. Types'
      BY <1>1, <1>5, <2>2 DEF FreeInv, Types, ThreadTypes
    <2>9. \A n \in Nodes :
             \/ /\ Away(t, n) /\ Away(t, n)'
                /\ freeListRefs'[n] = freeListRefs[n] /\ users'[n] = users[n]
             \/ NodeOK(n)' /\ (Listed(n)' <=> Listed(n))
      BY <1>1, <1>5, <1>6, <2>2, <2>7
    <2> QED BY <1>1, <2>2, <2>8, <2>9, StepOffTheList
  <1> QED BY <1>8, <1>9

----------------------------------------------------------------------------
(* The steps of add. *)

\* The user gives the node back; whoever finds no reference adds it.
LEMMA AddStep ==
  ASSUME FreeListAssumption, FreeInv, NEW t \in Threads, NEW n \in Nodes, Add(t, n)
  PROVE  FreeInv'
  <1>1. /\ pc[t] = "idle" /\ ThreadTypes /\ users[n] > 0 /\ users[n] \in Nat /\ NodeOK(n)
        /\ users' = [users EXCEPT ![n] = @ - 1] /\ FetchAdd(n, SHOULD_BE_ON_FREELIST)
        /\ UNCHANGED <<freeListHead, freeListNext>>
    BY DEF Add, At, FreeInv, Types, ThreadTypes
  <1>2. InUse(n) /\ ~ Listed(n)
    BY <1>1 DEF NodeOK, InUse, Taken, Deferred, Early, Late, Listed
  <1>3. /\ Held(n) \in Nat /\ Held(n) + 1 < RefsRange /\ RefsRange \in Nat
        /\ freeListRefs[n] = Held(n) /\ SHOULD_BE_ON_FREELIST = RefsRange
    BY <1>2, HeldType, Words DEF InUse
  <1>4. freeListRefs[n] + SHOULD_BE_ON_FREELIST \in 0 .. 2 * RefsRange - 1
    BY <1>3
  <1>5. /\ freeListRefs'[n] = Held(n) + RefsRange /\ freeListRefs' \in [Nodes -> Nat]
        /\ \A m \in Nodes \ {n} : freeListRefs'[m] = freeListRefs[m]
    BY <1>1, <1>3, <1>4, FetchAddIs DEF FreeInv
  <1>6. /\ users'[n] = 0 /\ users' \in [Nodes -> Nat]
        /\ \A m \in Nodes \ {n} : users'[m] = users[m]
    BY <1>1, <1>2 DEF FreeInv, Types, InUse
  <1>7. \A m \in Nodes : Away(t, m)
    BY <1>1, Where
  <1>8. CASE freeListRefs[n] = 0
    <2>1. Readd(t, n, FALSE)
      BY <1>8 DEF Add
    <2>2. /\ OnlyMoves(t) /\ ThreadTypes' /\ LocalOK(t)'
          /\ pc'[t] = "load_head" /\ loc'[t].node = n
      BY <1>1, <2>1, ReaddDoes
    <2>3. /\ t \notin Takers(n) /\ t \notin Holders(n)
          /\ t \notin Takers(n)' /\ t \notin Holders(n)' /\ t \in Adders(n)'
      BY <1>1, <2>2 DEF Takers, Holders, Adders, AddSteps
    <2>4. Takers(n)' = Takers(n) /\ Adders(n)' = Adders(n) \cup {t} /\ Holders(n)' = Holders(n)
      BY <2>2, <2>3, SetsMove
    <2>5. Early(n)'
      <3>1. Holders(n)' = {} /\ freeListRefs'[n] = SHOULD_BE_ON_FREELIST
        <4>1. Held(n) = 0
          BY <1>3, <1>8
        <4>2. Holders(n) = {}
          BY <4>1, HeldType
        <4> QED BY <1>3, <1>5, <2>4, <4>1, <4>2
      <3>2. Takers(n)' = {} /\ Adders(n)' = {t}
        BY <1>2, <2>4 DEF InUse
      <3> QED BY <1>6, <2>2, <3>1, <3>2 DEF Early, EarlySteps, SHOULD_BE_ON_FREELIST
    <2>6. ~ Listed(n)'
      BY <2>3 DEF Listed
    <2>7. \A m \in Nodes \ {n} : Away(t, m)'
      BY <2>2 DEF Away, Holders, Adders, AddSteps
    <2>8. Types'
      BY <1>1, <1>5, <1>6, <2>2 DEF FreeInv, Types, ThreadTypes
    <2>9. \A m \in Nodes :
             \/ /\ Away(t, m) /\ Away(t, m)'
                /\ freeListRefs'[m] = freeListRefs[m] /\ users'[m] = users[m]
             \/ NodeOK(m)' /\ (Listed(m)' <=> Listed(m))
      BY <1>2, <1>5, <1>6, <1>7, <2>5, <2>6, <2>7 DEF NodeOK
    <2> QED BY <1>1, <2>2, <2>8, <2>9, StepOffTheList
  <1>9. CASE freeListRefs[n] # 0
    <2>1. UNCHANGED <<pc, loc>>
      BY <1>9 DEF Add
    <2>2. OnlyMoves(t) /\ ThreadTypes' /\ LocalOK(t)' /\ \A m \in Nodes : Away(t, m)'
      BY <1>1, <1>7, <2>1 DEF OnlyMoves, ThreadTypes, FreeInv, LocalOK, Away, Holders, Adders
    <2>3. Takers(n)' = Takers(n) /\ Adders(n)' = Adders(n) /\ Holders(n)' = Holders(n)
      BY <2>1 DEF Takers, Adders, Holders
    <2>4. Held(n)' = Held(n) /\ Holders(n) # {}
      BY <1>3, <1>9, <2>3, HeldType DEF Held
    <2>5. Deferred(n)' /\ ~ Listed(n)'
      BY <1>2, <1>3, <1>5, <1>6, <2>3, <2>4 DEF InUse, Deferred, Listed, SHOULD_BE_ON_FREELIST
    <2>6. Types'
      BY <1>1, <1>5, <1>6, <2>2 DEF FreeInv, Types, ThreadTypes
    <2>7. \A m \in Nodes :
             \/ /\ Away(t, m) /\ Away(t, m)'
                /\ freeListRefs'[m] = freeListRefs[m] /\ users'[m] = users[m]
             \/ NodeOK(m)' /\ (Listed(m)' <=> Listed(m))
      BY <1>2, <1>5, <1>6, <1>7, <2>2, <2>5 DEF NodeOK
    <2> QED BY <1>1, <2>2, <2>6, <2>7, StepOffTheList
  <1> QED BY <1>8, <1>9

LEMMA LoadHeadStep ==
  ASSUME FreeListAssumption, FreeInv, NEW t \in Threads, LoadHead(t)
  PROVE  FreeInv'
  <1> DEFINE l == [loc[t] EXCEPT !.expected = freeListHead]
  <1>1. /\ pc[t] = "load_head" /\ loc[t].node \in Nodes /\ loc[t] \in Locals /\ ThreadTypes
        /\ UNCHANGED <<freeListHead, freeListRefs, freeListNext, users>> /\ freeListHead \in Ref
    BY DEF LoadHead, At, FreeInv, LocalOK, Types, ThreadTypes, AddSteps
  <1>2. l \in Locals /\ l.node = loc[t].node
    BY <1>1 DEF Locals
  <1>3. pc' = [pc EXCEPT ![t] = "store_next"] /\ loc' = [loc EXCEPT ![t] = l]
    BY <1>1 DEF LoadHead, Go, ThreadTypes
  <1>4. OnlyMoves(t) /\ ThreadTypes' /\ pc'[t] = "store_next" /\ loc'[t] = l
    <2> HIDE DEF l
    <2> QED BY <1>1, <1>2, <1>3, ThreadGoes DEF AddSteps
  <1>5. LocalOK(t)'
    BY <1>1, <1>2, <1>4 DEF LocalOK
  <1>6. ASSUME NEW n \in Nodes PROVE NodeOK(n)' /\ (Listed(n)' <=> Listed(n))
    <2>1. /\ t \notin Takers(n) /\ t \notin Takers(n)'
          /\ t \notin Holders(n) /\ t \notin Holders(n)'
          /\ t \in Adders(n)' <=> t \in Adders(n)
      BY <1>1, <1>2, <1>4 DEF Takers, Adders, Holders, AddSteps
    <2>2. /\ Takers(n)' = Takers(n) /\ Adders(n)' = Adders(n) /\ Holders(n)' = Holders(n)
      BY <1>4, <2>1, SetsStay
    <2>3. freeListRefs'[n] = freeListRefs[n] /\ users'[n] = users[n] /\ NodeOK(n)
      BY <1>1 DEF FreeInv
    <2> QED BY <1>1, <1>4, <2>1, <2>2, <2>3, SameSets DEF EarlySteps, LateSteps
  <1>7. Types'
    BY <1>1, <1>4 DEF FreeInv, Types, ThreadTypes
  <1> QED BY <1>1, <1>4, <1>5, <1>6, <1>7, StepOffTheList

\* A node that a thread is adding.
LEMMA AdderIs ==
  ASSUME NEW t \in Threads, NEW n \in Nodes, NodeOK(n), t \in Adders(n)
  PROVE  /\ Adders(n) = {t} /\ ~ Listed(n)
         /\ pc[t] \in EarlySteps => Early(n)
         /\ pc[t] \in LateSteps => Late(n)
  BY DEF NodeOK, InUse, Taken, Deferred, Early, Late, Listed, EarlySteps, LateSteps

\* Nobody refers to the node whose link is written.
LEMMA StoreNextStep ==
  ASSUME FreeListAssumption, FreeInv, NEW t \in Threads, StoreNext(t)
  PROVE  FreeInv'
  <1> PICK n \in Nodes : n = loc[t].node
    BY DEF StoreNext, At, FreeInv, LocalOK, AddSteps
  <1>1. /\ pc[t] = "store_next" /\ ThreadTypes /\ NodeOK(n) /\ loc[t].expected \in Ref /\ loc[t] \in Locals
        /\ freeListNext' = [freeListNext EXCEPT ![n] = loc[t].expected]
        /\ UNCHANGED <<freeListHead, freeListRefs, users, loc>>
        /\ loc' = [loc EXCEPT ![t] = loc[t]] /\ pc' = [pc EXCEPT ![t] = "store_refs"]
    BY DEF StoreNext, At, Go, FreeInv, Types, ThreadTypes, Locals
  <1>2. OnlyMoves(t) /\ ThreadTypes' /\ pc'[t] = "store_refs" /\ loc'[t] = loc[t]
    BY <1>1, ThreadGoes DEF AddSteps
  <1>3. Types' /\ freeListNext'[n] = loc[t].expected
        /\ \A m \in Nodes \ {n} : freeListNext'[m] = freeListNext[m]
    BY <1>1, <1>2 DEF FreeInv, Types, ThreadTypes
  <1>4. Adders(n) = {t} /\ Early(n) /\ ~ Listed(n)
    <2>1. t \in Adders(n)
      BY <1>1 DEF Adders, AddSteps
    <2> QED BY <1>1, <2>1, AdderIs DEF EarlySteps
  <1>5. ASSUME NEW m \in Nodes PROVE NodeOK(m)' /\ (Listed(m)' <=> Listed(m))
    <2>1. /\ t \notin Takers(m) /\ t \notin Takers(m)'
          /\ t \notin Holders(m) /\ t \notin Holders(m)'
          /\ t \in Adders(m)' <=> t \in Adders(m)
      BY <1>1, <1>2 DEF Takers, Adders, Holders, AddSteps
    <2>2. /\ Takers(m)' = Takers(m) /\ Adders(m)' = Adders(m) /\ Holders(m)' = Holders(m)
      BY <1>2, <2>1, SetsStay
    <2>3. freeListRefs'[m] = freeListRefs[m] /\ users'[m] = users[m] /\ NodeOK(m)
      BY <1>1 DEF FreeInv
    <2> QED BY <1>1, <1>2, <2>1, <2>2, <2>3, SameSets DEF EarlySteps, LateSteps
  <1>6. LinksOK'
    <2>1. \A m \in Nodes : Listed(m) => freeListNext'[m] = freeListNext[m]
      BY <1>3, <1>4
    <2> QED BY <1>1, <1>5, <2>1 DEF FreeInv, LinksOK
  <1>7. LocalOK(t)'
    BY <1>1, <1>2, <1>3 DEF LocalOK
  <1>8. ASSUME NEW u \in Threads \ {t} PROVE LocalOK(u)'
    <2>1. LocalOK(u) /\ pc'[u] = pc[u] /\ loc'[u] = loc[u]
      BY <1>2 DEF FreeInv, OnlyMoves
    <2>2. pc[u] = "pop" => loc[u].head # n
      BY <1>4 DEF Early, Holders
    <2>3. pc[u] \in {"store_refs", "push"} => loc[u].node # n
      BY <1>4 DEF Adders, AddSteps
    <2>4. pc[u] = "pop" => loc[u].head \in Nodes
      BY <2>1 DEF LocalOK
    <2>5. pc[u] \in {"store_refs", "push"} => loc[u].node \in Nodes
      BY <2>1 DEF LocalOK, AddSteps
    <2> QED BY <1>3, <2>1, <2>2, <2>3, <2>4, <2>5 DEF LocalOK
  <1>9. WalkOK'
    <2>1. \A m \in Nodes : Listed(m) => freeListNext'[m] = freeListNext[m]
      BY <1>3, <1>4
    <2> QED BY <1>1, <1>5, <2>1, WalkStays
  <1> QED BY <1>3, <1>5, <1>6, <1>7, <1>8, <1>9 DEF FreeInv

LEMMA StoreRefsStep ==
  ASSUME FreeListAssumption, FreeInv, NEW t \in Threads, StoreRefs(t)
  PROVE  FreeInv'
  <1> PICK n \in Nodes : n = loc[t].node
    BY DEF StoreRefs, At, FreeInv, LocalOK, AddSteps
  <1>1. /\ pc[t] = "store_refs" /\ ThreadTypes /\ NodeOK(n) /\ loc[t].expected = freeListNext[n] /\ loc[t] \in Locals
        /\ freeListRefs' = [freeListRefs EXCEPT ![n] = 1]
        /\ UNCHANGED <<freeListHead, freeListNext, users, loc>>
        /\ loc' = [loc EXCEPT ![t] = loc[t]] /\ pc' = [pc EXCEPT ![t] = "push"]
    BY DEF StoreRefs, At, Go, FreeInv, Types, ThreadTypes, LocalOK
  <1>2. OnlyMoves(t) /\ ThreadTypes' /\ pc'[t] = "push" /\ loc'[t] = loc[t]
    BY <1>1, ThreadGoes DEF AddSteps
  <1>3. Types' /\ freeListRefs'[n] = 1
        /\ \A m \in Nodes \ {n} : freeListRefs'[m] = freeListRefs[m]
    BY <1>1, <1>2 DEF FreeInv, Types, ThreadTypes
  <1>4. Adders(n) = {t} /\ Early(n) /\ ~ Listed(n) /\ t \in Adders(n)
    <2>1. t \in Adders(n)
      BY <1>1 DEF Adders, AddSteps
    <2> QED BY <1>1, <2>1, AdderIs DEF EarlySteps
  <1>5. Late(n)' /\ ~ Listed(n)'
    <2>1. /\ t \notin Takers(n) /\ t \notin Takers(n)' /\ t \in Adders(n)'
          /\ t \notin Holders(n) /\ t \notin Holders(n)'
      BY <1>1, <1>2 DEF Takers, Adders, Holders, AddSteps
    <2>2. /\ Takers(n)' = Takers(n) /\ Adders(n)' = Adders(n) /\ Holders(n)' = Holders(n)
      BY <1>2, <1>4, <2>1, SetsStay
    <2>3. Held(n)' = 0
      BY <1>4, <2>2, HeldType DEF Early, Held
    <2> QED BY <1>1, <1>2, <1>3, <1>4, <2>2, <2>3 DEF Early, Late, LateSteps, Listed
  <1>6. \A m \in Nodes \ {n} : Away(t, m) /\ Away(t, m)'
    BY <1>1, <1>2 DEF Away, Holders, Adders, AddSteps
  <1>7. LocalOK(t)'
    BY <1>1, <1>2 DEF LocalOK
  <1>8. \A m \in Nodes :
          \/ /\ Away(t, m) /\ Away(t, m)'
             /\ freeListRefs'[m] = freeListRefs[m] /\ users'[m] = users[m]
          \/ NodeOK(m)' /\ (Listed(m)' <=> Listed(m))
    BY <1>1, <1>3, <1>4, <1>5, <1>6 DEF NodeOK
  <1> QED BY <1>1, <1>2, <1>3, <1>7, <1>8, StepOffTheList

\* The node becomes the head; it was not on the list, and its link leads to
\* the old head.
LEMMA PushSucceeds ==
  ASSUME FreeListAssumption, FreeInv, NEW t \in Threads, Push(t), freeListHead = loc[t].expected
  PROVE  FreeInv'
  <1> PICK n \in Nodes : n = loc[t].node
    BY DEF Push, At, FreeInv, LocalOK, AddSteps
  <1>1. /\ pc[t] = "push" /\ ThreadTypes /\ NodeOK(n) /\ freeListNext[n] = freeListHead
        /\ freeListHead' = n /\ AddDone(t) /\ UNCHANGED <<freeListRefs, freeListNext, users>>
    BY DEF Push, At, FreeInv, Types, ThreadTypes, LocalOK
  <1>2. OnlyMoves(t) /\ ThreadTypes' /\ LocalOK(t)' /\ \A m \in Nodes : Away(t, m)'
    BY <1>1, AddDoneDoes
  <1>3. Types'
    BY <1>1, <1>2 DEF FreeInv, Types, ThreadTypes, Ref
  <1>4. /\ t \in Adders(n) /\ t \notin Holders(n) /\ t \notin Takers(n)
        /\ Adders(n) = {t} /\ Late(n) /\ ~ Listed(n)
    <2>1. t \in Adders(n) /\ t \notin Holders(n) /\ t \notin Takers(n)
      BY <1>1 DEF Adders, Holders, Takers, AddSteps
    <2> QED BY <1>1, <2>1, AdderIs DEF LateSteps
  <1>5. Listed(n)'
    <2>1. t \notin Adders(n)' /\ t \notin Holders(n)' /\ t \notin Takers(n)'
      BY <1>2 DEF Away, Holders, Takers
    <2>2. /\ Takers(n)' = Takers(n) /\ Adders(n)' = Adders(n) \ {t} /\ Holders(n)' = Holders(n)
      BY <1>2, <1>4, <2>1, SetsMove
    <2>3. Held(n)' = Held(n) /\ Adders(n)' = {}
      BY <1>4, <2>2 DEF Held
    <2> QED BY <1>1, <1>4, <2>2, <2>3 DEF Late, Listed
  <1>6. ASSUME NEW m \in Nodes \ {n}
        PROVE  NodeOK(m)' /\ (Listed(m)' <=> Listed(m))
    <2>1. Away(t, m) /\ Away(t, m)'
      BY <1>1, <1>2 DEF Away, Holders, Adders, AddSteps
    <2>2. freeListRefs'[m] = freeListRefs[m] /\ users'[m] = users[m] /\ NodeOK(m)
      BY <1>1 DEF FreeInv
    <2> QED BY <1>2, <2>1, <2>2, Elsewhere
  <1>7. LinksOK'
    <2>1. ASSUME NEW k \in Nodes, NEW m \in Nodes, Listed(m)', freeListNext'[m] = k
          PROVE  /\ Listed(k)' /\ freeListHead' # k
                 /\ \A j \in Nodes : Listed(j)' /\ freeListNext'[j] = k => j = m
      <3>1. CASE m = n
        <4>1. Listed(k) /\ k = freeListHead /\ k # n
          BY <1>1, <1>4, <2>1, <3>1 DEF FreeInv, LinksOK
        <4>2. \A j \in Nodes : Listed(j) => freeListNext[j] # k
          BY <4>1 DEF FreeInv, LinksOK
        <4> QED BY <1>1, <1>6, <3>1, <4>1, <4>2
      <3>2. CASE m # n
        <4>1. /\ Listed(k) /\ k # freeListHead /\ k # n
              /\ \A j \in Nodes : Listed(j) /\ freeListNext[j] = k => j = m
          BY <1>1, <1>4, <1>6, <2>1, <3>2 DEF FreeInv, LinksOK
        <4> QED BY <1>1, <1>6, <4>1
      <3> QED BY <3>1, <3>2
    <2> QED BY <1>1, <1>5, <2>1 DEF LinksOK
  <1>8. \A m \in Nodes : NodeOK(m)'
    BY <1>5, <1>6 DEF NodeOK
  <1>9. \A u \in Threads : LocalOK(u)'
    <2> SUFFICES ASSUME NEW u \in Threads \ {t} PROVE LocalOK(u)'
      BY <1>2
    <2>1. LocalOK(u) /\ pc'[u] = pc[u] /\ loc'[u] = loc[u] /\ freeListNext' = freeListNext
      BY <1>1, <1>2 DEF FreeInv, OnlyMoves
    <2> QED BY <2>1 DEF LocalOK
  <1>10. WalkOK'
    <2> SUFFICES ASSUME NEW m \in Nodes, Listed(m)', NEW S \in SUBSET Nodes,
                        n \in S \cup {nullptr},
                        \A k \in S : freeListNext[k] \in S \cup {nullptr}
                 PROVE  m \in S
      BY <1>1 DEF WalkOK, Reachable
    <2>1. n \in S /\ freeListHead \in S \cup {nullptr}
      BY <1>1 DEF FreeListAssumption
    <2>2. m # n => Listed(m)
      BY <1>6
    <2> QED BY <2>1, <2>2, WalkMeets DEF FreeInv
  <1> QED BY <1>3, <1>7, <1>8, <1>9, <1>10 DEF FreeInv

LEMMA PushFails ==
  ASSUME FreeListAssumption, FreeInv, NEW t \in Threads, Push(t), freeListHead # loc[t].expected
  PROVE  FreeInv'
  <1> DEFINE l == [loc[t] EXCEPT !.expected = freeListHead]
  <1>1. /\ pc[t] = "push" /\ loc[t].node \in Nodes /\ loc[t] \in Locals /\ ThreadTypes
        /\ UNCHANGED <<freeListHead, freeListRefs, freeListNext, users>> /\ freeListHead \in Ref
    BY DEF Push, At, FreeInv, LocalOK, Types, ThreadTypes, AddSteps
  <1>2. l \in Locals /\ l.node = loc[t].node
    BY <1>1 DEF Locals
  <1>3. pc' = [pc EXCEPT ![t] = "defer"] /\ loc' = [loc EXCEPT ![t] = l]
    BY <1>1 DEF Push, Go, ThreadTypes
  <1>4. OnlyMoves(t) /\ ThreadTypes' /\ pc'[t] = "defer" /\ loc'[t] = l
    <2> HIDE DEF l
    <2> QED BY <1>1, <1>2, <1>3, ThreadGoes DEF AddSteps
  <1>5. LocalOK(t)'
    BY <1>1, <1>2, <1>4 DEF LocalOK
  <1>6. ASSUME NEW n \in Nodes PROVE NodeOK(n)' /\ (Listed(n)' <=> Listed(n))
    <2>1. /\ t \notin Takers(n) /\ t \notin Takers(n)'
          /\ t \notin Holders(n) /\ t \notin Holders(n)'
          /\ t \in Adders(n)' <=> t \in Adders(n)
      BY <1>1, <1>2, <1>4 DEF Takers, Adders, Holders, AddSteps
    <2>2. /\ Takers(n)' = Takers(n) /\ Adders(n)' = Adders(n) /\ Holders(n)' = Holders(n)
      BY <1>4, <2>1, SetsStay
    <2>3. freeListRefs'[n] = freeListRefs[n] /\ users'[n] = users[n] /\ NodeOK(n)
      BY <1>1 DEF FreeInv
    <2> QED BY <1>1, <1>4, <2>1, <2>2, <2>3, SameSets DEF EarlySteps, LateSteps
  <1>7. Types'
    BY <1>1, <1>4 DEF FreeInv, Types, ThreadTypes
  <1> QED BY <1>1, <1>4, <1>5, <1>6, <1>7, StepOffTheList

\* The list's reference is taken back: t adds the node again if nobody else
\* refers to it, and leaves it to them if they do.
LEMMA DeferStep ==
  ASSUME FreeListAssumption, FreeInv, NEW t \in Threads, Defer(t)
  PROVE  FreeInv'
  <1> PICK n \in Nodes : n = loc[t].node
    BY DEF Defer, At, FreeInv, LocalOK, AddSteps
  <1>1. /\ pc[t] = "defer" /\ ThreadTypes /\ NodeOK(n) /\ loc[t] \in Locals
        /\ FetchAdd(n, SHOULD_BE_ON_FREELIST - 1) /\ UNCHANGED <<freeListHead, freeListNext, users>>
    BY DEF Defer, At, FreeInv, Types, ThreadTypes
  <1>2. /\ t \in Adders(n) /\ t \notin Holders(n) /\ t \notin Takers(n)
        /\ Adders(n) = {t} /\ Late(n) /\ ~ Listed(n)
    <2>1. t \in Adders(n) /\ t \notin Holders(n) /\ t \notin Takers(n)
      BY <1>1 DEF Adders, Holders, Takers, AddSteps
    <2> QED BY <1>1, <2>1, AdderIs DEF LateSteps
  <1>3. /\ Held(n) \in Nat /\ Held(n) + 1 < RefsRange /\ RefsRange \in Nat
        /\ freeListRefs[n] = 1 + Held(n) /\ SHOULD_BE_ON_FREELIST = RefsRange
    BY <1>2, HeldType, Words DEF Late
  <1>4. /\ freeListRefs[n] + (SHOULD_BE_ON_FREELIST - 1) \in 0 .. 2 * RefsRange - 1
        /\ SHOULD_BE_ON_FREELIST - 1 \in Int
    BY <1>3
  <1>5. /\ freeListRefs'[n] = RefsRange + Held(n) /\ freeListRefs' \in [Nodes -> Nat]
        /\ \A m \in Nodes \ {n} : freeListRefs'[m] = freeListRefs[m]
    BY <1>1, <1>3, <1>4, FetchAddIs DEF FreeInv
  <1>6. \A m \in Nodes \ {n} : Away(t, m)
    BY <1>1 DEF Away, Holders, Adders, AddSteps
  <1>7. CASE freeListRefs[n] = 1
    <2>1. /\ pc' = [pc EXCEPT ![t] = "store_next"] /\ loc' = loc
          /\ loc' = [loc EXCEPT ![t] = loc[t]]
      BY <1>1, <1>7 DEF Defer, Go, ThreadTypes
    <2>2. OnlyMoves(t) /\ ThreadTypes' /\ pc'[t] = "store_next" /\ loc'[t] = loc[t]
      BY <1>1, <2>1, ThreadGoes DEF AddSteps
    <2>3. LocalOK(t)'
      BY <2>2 DEF LocalOK
    <2>4. /\ t \in Adders(n)' /\ t \notin Holders(n)' /\ t \notin Takers(n)'
      BY <2>2 DEF Adders, Holders, Takers, AddSteps
    <2>5. /\ Takers(n)' = Takers(n) /\ Adders(n)' = Adders(n) \cup {t} /\ Holders(n)' = Holders(n)
      BY <1>2, <2>2, <2>4, SetsMove
    <2>6. Held(n) = 0 /\ Holders(n)' = {} /\ Adders(n)' = {t} /\ Takers(n)' = {}
      <3>1. Held(n) = 0
        BY <1>3, <1>7
      <3>2. Holders(n) = {}
        BY <3>1, HeldType
      <3> QED BY <1>2, <2>5, <3>1, <3>2 DEF Late
    <2>7. Early(n)' /\ ~ Listed(n)'
      <3>1. users'[n] = 0 /\ freeListRefs'[n] = SHOULD_BE_ON_FREELIST
        BY <1>1, <1>2, <1>3, <1>5, <2>6 DEF Late
      <3> QED BY <2>2, <2>6, <3>1 DEF Early, EarlySteps, Listed, SHOULD_BE_ON_FREELIST
    <2>8. \A m \in Nodes \ {n} : Away(t, m)'
      BY <2>2 DEF Away, Holders, Adders, AddSteps
    <2>9. Types'
      BY <1>1, <1>5, <2>2 DEF FreeInv, Types, ThreadTypes
    <2>10. \A m \in Nodes :
             \/ /\ Away(t, m) /\ Away(t, m)'
                /\ freeListRefs'[m] = freeListRefs[m] /\ users'[m] = users[m]
             \/ NodeOK(m)' /\ (Listed(m)' <=> Listed(m))
      BY <1>1, <1>2, <1>5, <1>6, <2>7, <2>8 DEF NodeOK
    <2> QED BY <1>1, <2>2, <2>3, <2>9, <2>10, StepOffTheList
  <1>8. CASE freeListRefs[n] # 1
    <2>1. AddDone(t)
      BY <1>8 DEF Defer
    <2>2. OnlyMoves(t) /\ ThreadTypes' /\ LocalOK(t)' /\ \A m \in Nodes : Away(t, m)'
      BY <1>1, <2>1, AddDoneDoes
    <2>3. t \notin Adders(n)' /\ t \notin Holders(n)' /\ t \notin Takers(n)'
      BY <2>2 DEF Away, Holders, Takers
    <2>4. /\ Takers(n)' = Takers(n) /\ Adders(n)' = Adders(n) \ {t} /\ Holders(n)' = Holders(n)
      BY <1>2, <2>2, <2>3, SetsMove
    <2>5. Held(n)' = Held(n) /\ Holders(n)' # {} /\ Adders(n)' = {} /\ Takers(n)' = {}
      <3>1. Held(n) # 0
        BY <1>3, <1>8
      <3>2. Holders(n) # {}
        BY <3>1, HeldType
      <3> QED BY <1>2, <2>4, <3>2 DEF Late, Held
    <2>6. Deferred(n)' /\ ~ Listed(n)'
      <3>1. users'[n] = 0 /\ freeListRefs'[n] = RefsRange + Held(n)'
        BY <1>1, <1>2, <1>5, <2>5 DEF Late
      <3>2. Deferred(n)'
        BY <2>5, <3>1 DEF Deferred, SHOULD_BE_ON_FREELIST
      <3>3. freeListRefs'[n] # 1 + Held(n)'
        BY <1>3, <1>5, <2>5
      <3> QED BY <3>2, <3>3 DEF Listed
    <2>7. Types'
      BY <1>1, <1>5, <2>2 DEF FreeInv, Types, ThreadTypes
    <2>8. \A m \in Nodes :
             \/ /\ Away(t, m) /\ Away(t, m)'
                /\ freeListRefs'[m] = freeListRefs[m] /\ users'[m] = users[m]
             \/ NodeOK(m)' /\ (Listed(m)' <=> Listed(m))
      <3>1. NodeOK(n)' /\ (Listed(n)' <=> Listed(n))
        BY <1>2, <2>6 DEF NodeOK
      <3> QED BY <1>1, <1>5, <1>6, <2>2, <3>1
    <2> QED BY <1>1, <2>2, <2>7, <2>8, StepOffTheList
  <1> QED BY <1>7, <1>8

----------------------------------------------------------------------------
(* The free list keeps its nodes in order. *)

LEMMA InitFreeInv ==
  ASSUME FreeListAssumption, Init
  PROVE  FreeInv
  <1>1. Types
    <2>1. 0 \in Word
      BY Words DEF Word
    <2> QED BY <2>1 DEF Init, Types, Ref, NoLocals, Locals
  <1>2. \A n \in Nodes : InUse(n) /\ ~ Listed(n)
    <2> SUFFICES ASSUME NEW n \in Nodes PROVE InUse(n) /\ ~ Listed(n)
      OBVIOUS
    <2>1. Takers(n) = {} /\ Adders(n) = {} /\ Holders(n) = {}
      BY DEF Init, Takers, Adders, Holders, AddSteps
    <2>2. Held(n) = 0
      BY <2>1, HeldType
    <2> QED BY <2>1, <2>2 DEF Init, InUse, Listed
  <1>3. LinksOK
    BY <1>2 DEF LinksOK, Init, FreeListAssumption
  <1>4. \A t \in Threads : LocalOK(t)
    BY DEF Init, LocalOK, AddSteps
  <1>5. WalkOK
    BY <1>2 DEF WalkOK
  <1> QED BY <1>1, <1>2, <1>3, <1>4, <1>5 DEF FreeInv, NodeOK

LEMMA NextFreeInv ==
  ASSUME FreeListAssumption, FreeInv, [Next]_vars
  PROVE  FreeInv'
  <1>1. CASE UNCHANGED vars
    <2>1. /\ UNCHANGED <<freeListHead, freeListRefs, freeListNext, users, pc, loc>>
          /\ Types' /\ \A u \in Threads : LocalOK(u)'
      BY <1>1 DEF vars, FreeInv, Types, LocalOK
    <2>2. ASSUME NEW n \in Nodes PROVE NodeOK(n)' /\ (Listed(n)' <=> Listed(n))
      <3>1. Takers(n)' = Takers(n) /\ Adders(n)' = Adders(n) /\ Holders(n)' = Holders(n)
        BY <2>1 DEF Takers, Adders, Holders
      <3>2. NodeOK(n) /\ Held(n)' = Held(n)
        BY <3>1 DEF FreeInv, Held
      <3> QED BY <2>1, <3>1, <3>2 DEF NodeOK, InUse, Taken, Deferred, Early, Late, Listed
    <2>3. LinksOK'
      BY <2>1, <2>2 DEF FreeInv, LinksOK
    <2>4. WalkOK'
      BY <2>1, <2>2, WalkStays
    <2> QED BY <2>1, <2>2, <2>3, <2>4 DEF FreeInv
  <1>2. CASE Next
    <2> PICK t \in Threads : Start(t) \/ Continue(t)
      BY <1>2 DEF Next
    <2>1. CASE TryGet(t) \/ Reload(t)
      BY <2>1, LookStep
    <2>2. CASE \E n \in Nodes : Add(t, n)
      BY <2>2, AddStep
    <2>3. CASE LoadHead(t)
      BY <2>3, LoadHeadStep
    <2>4. CASE StoreNext(t)
      BY <2>4, StoreNextStep
    <2>5. CASE StoreRefs(t)
      BY <2>5, StoreRefsStep
    <2>6. CASE Push(t)
      BY <2>6, PushSucceeds, PushFails
    <2>7. CASE Defer(t)
      BY <2>7, DeferStep
    <2>8. CASE LoadRefs(t)
      BY <2>8, LoadRefsStep
    <2>9. CASE TakeRef(t)
      BY <2>9, TakeRefStep
    <2>10. CASE LoadNext(t)
      BY <2>10, LoadNextStep
    <2>11. CASE Pop(t)
      BY <2>11, PopSucceeds, PopFails
    <2>12. CASE Release(t)
      BY <2>12, ReleaseStep
    <2>13. CASE DropRef(t)
      BY <2>13, DropRefStep
    <2> QED BY <2>1, <2>2, <2>3, <2>4, <2>5, <2>6, <2>7, <2>8, <2>9, <2>10, <2>11, <2>12, <2>13
            DEF Start, Continue
  <1> QED BY <1>1, <1>2

LEMMA FreeInvOneUser ==
  ASSUME FreeListAssumption, FreeInv
  PROVE  OneUser
  <1> SUFFICES ASSUME NEW n \in Nodes PROVE users[n] + Cardinality(Takers(n)) <= 1
    BY DEF OneUser
  <1>1. Cardinality({}) = 0 /\ \A t \in Threads : Cardinality({t}) = 1
    BY FS_EmptySet, FS_Singleton
  <1> QED BY <1>1 DEF FreeInv, NodeOK, InUse, Taken, Deferred, Early, Late, Listed

LEMMA FreeInvOneAdder ==
  ASSUME FreeListAssumption, FreeInv
  PROVE  OneAdder
  <1> SUFFICES ASSUME NEW n \in Nodes PROVE Cardinality(Adders(n)) <= 1
    BY DEF OneAdder
  <1>1. Cardinality({}) = 0 /\ \A t \in Threads : Cardinality({t}) = 1
    BY FS_EmptySet, FS_Singleton
  <1> QED BY <1>1 DEF FreeInv, NodeOK, InUse, Taken, Deferred, Early, Late, Listed

\* A walk from the head meets the nodes on the list and no other.
LEMMA WalkMeetsListed ==
  ASSUME FreeInv, NEW n \in Nodes
  PROVE  n \in Reachable(freeListHead) <=> Listed(n)
  <1>1. ASSUME n \in Reachable(freeListHead) PROVE Listed(n)
    <2> DEFINE R == {m \in Nodes : Listed(m)}
    <2>1. /\ R \in SUBSET Nodes /\ freeListHead \in R \cup {nullptr}
          /\ \A k \in R : freeListNext[k] \in R \cup {nullptr}
      BY ListedFollow
    <2>2. n \in R
      <3> HIDE DEF R
      <3> QED BY <1>1, <2>1 DEF Reachable
    <2> QED BY <2>2
  <1> QED BY <1>1 DEF FreeInv, WalkOK

LEMMA FreeInvNothingLost ==
  ASSUME FreeListAssumption, FreeInv
  PROVE  NothingLost
  <1> SUFFICES ASSUME NEW n \in Nodes
               PROVE  IF users[n] > 0 \/ Takers(n) # {} THEN ~ Listed(n)
                      ELSE \/ Listed(n) \/ Adders(n) # {}
                           \/ freeListRefs[n] > SHOULD_BE_ON_FREELIST
    BY WalkMeetsListed DEF NothingLost
  <1>1. NodeOK(n)
    BY DEF FreeInv
  <1>2. CASE InUse(n)
    BY <1>2 DEF InUse, Listed
  <1>3. CASE Taken(n)
    BY <1>3 DEF Taken, Listed
  <1>4. CASE Deferred(n)
    <2>1. freeListRefs[n] > SHOULD_BE_ON_FREELIST
      BY <1>4, HeldType, Words DEF Deferred
    <2> QED BY <1>4, <2>1 DEF Deferred
  <1>5. CASE Early(n) \/ Late(n)
    BY <1>5 DEF Early, Late
  <1>6. CASE Listed(n)
    BY <1>6 DEF Listed
  <1> QED BY <1>1, <1>2, <1>3, <1>4, <1>5, <1>6 DEF NodeOK

LEMMA FreeInvTypeOK ==
  ASSUME FreeListAssumption, FreeInv
  PROVE  TypeOK
  <1>1. ASSUME NEW n \in Nodes PROVE freeListRefs[n] \in Counts
    <2>1. /\ Held(n) \in Nat /\ Held(n) <= Cardinality(Threads) /\ Cardinality(Threads) \in Nat
          /\ RefsRange \in Nat
      BY HeldType, Sizes, Words DEF Held
    <2>2. \E bit \in {0, RefsRange}, k \in {Held(n), Held(n) + 1} : freeListRefs[n] = bit + k
      <3>1. CASE InUse(n)
        BY <2>1, <3>1 DEF InUse
      <3>2. CASE Deferred(n)
        BY <2>1, <3>2 DEF Deferred, SHOULD_BE_ON_FREELIST
      <3>3. CASE Early(n)
        <4>1. Held(n) = 0
          BY <3>3, HeldType DEF Early
        <4> QED BY <2>1, <3>3, <4>1 DEF Early, SHOULD_BE_ON_FREELIST
      <3>4. CASE Taken(n) \/ Late(n) \/ Listed(n)
        <4>1. freeListRefs[n] = 0 + (Held(n) + 1)
          BY <2>1, <3>4 DEF Taken, Late, Listed
        <4> QED BY <4>1
      <3> QED BY <3>1, <3>2, <3>3, <3>4 DEF FreeInv, NodeOK
    <2>3. {Held(n), Held(n) + 1} \subseteq 0 .. Cardinality(Threads) + 1
      BY <2>1
    <2> QED BY <2>2, <2>3 DEF Counts, SHOULD_BE_ON_FREELIST
  <1>2. freeListRefs \in [Nodes -> Counts]
    BY <1>1 DEF FreeInv, Types
  <1> QED BY <1>2 DEF FreeInv, Types, TypeOK

(* A block is in use by one enqueuer at most, however many threads take    *)
(* blocks from the free list and give them back at once: neither a late    *)
(* compare-and-swap of the head (ABA) nor a deferred add hands a block out *)
(* twice (FreeList::try_get and add).                                      *)
THEOREM BlocksHaveOneUser ==
  ASSUME FreeListAssumption
  PROVE  Spec => []OneUser
  <1> USE FreeListAssumption
  <1> QED BY InitFreeInv, NextFreeInv, FreeInvOneUser, PTL DEF Spec

(* No block is lost to the free list, however pops and pushes of the head *)
(* meet: one that nobody uses is on the list, is being added, or waits for *)
(* a thread that still refers to it and that will add it; and none in use  *)
(* is on the list (FreeList::try_get, add, add_knowing_refcount_is_zero).  *)
THEOREM NoBlockIsLost ==
  ASSUME FreeListAssumption
  PROVE  Spec => []NothingLost
  <1> USE FreeListAssumption
  <1> QED BY InitFreeInv, NextFreeInv, FreeInvNothingLost, PTL DEF Spec

(* "We run only one copy of this method per node at a time": the promise   *)
(* the comment in add_knowing_refcount_is_zero relies on is kept.          *)
THEOREM AddersAreAlone ==
  ASSUME FreeListAssumption
  PROVE  Spec => []OneAdder
  <1> USE FreeListAssumption
  <1> QED BY InitFreeInv, NextFreeInv, FreeInvOneAdder, PTL DEF Spec

(* The count of references of a node is one for the list and one for each  *)
(* thread at most, so it never reaches SHOULD_BE_ON_FREELIST and is never  *)
(* mistaken for it.                                                        *)
THEOREM CountsStayInTheirBits ==
  ASSUME FreeListAssumption
  PROVE  Spec => []TypeOK
  <1> USE FreeListAssumption
  <1> QED BY InitFreeInv, NextFreeInv, FreeInvTypeOK, PTL DEF Spec
=============================================================================
