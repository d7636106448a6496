-------------------------- MODULE ImplicitProducer --------------------------
(***************************************************************************)
(* One producer's sub-queue of moodycamel::ConcurrentQueue: the thread that *)
(* owns it enqueues, any thread dequeues.  Elements lie in blocks, found    *)
(* through a circular block index that grows and shares its entries with   *)
(* the smaller ones before it.  One step is one access to shared memory;   *)
(* memory is sequentially consistent.  An element is the index at which it *)
(* is enqueued: the code never looks into it.                              *)
(***************************************************************************)
EXTENDS Integers, Sequences, FiniteSets

CONSTANTS
  Consumers,                     \* the threads that dequeue
  Blocks,                        \* all the blocks there is memory for
  BLOCK_SIZE,
  IMPLICIT_INITIAL_INDEX_SIZE,
  MaxTail,                       \* bound: elements enqueued
  MaxAttempts,                   \* bound: dequeueOptimisticCount
  MaxHeaders,                    \* bound: block indices there is memory for
  nullptr,
  garbage                        \* an uninitialized pointer: no block, not null

ASSUME ImplicitProducerAssumption ==
  /\ IsFiniteSet(Consumers)
  /\ BLOCK_SIZE \in Nat /\ BLOCK_SIZE > 1
  /\ IMPLICIT_INITIAL_INDEX_SIZE \in Nat /\ IMPLICIT_INITIAL_INDEX_SIZE > 1
  /\ {MaxTail, MaxAttempts, MaxHeaders} \subseteq Nat
  /\ nullptr \notin Blocks \cup Nat /\ garbage \notin Blocks \cup {nullptr}

VARIABLES
  tailIndex, headIndex, dequeueOptimisticCount, dequeueOvercommit,
  tailBlock,
  blockIndex,   \* every BlockIndexHeader allocated; the last is current
  entries,      \* every BlockIndexEntry allocated
  blocks,       \* per block: its slots and elementsCompletelyDequeued
  pool,         \* the blocks that requisition_block may return
  ppc, ploc,    \* the producer: its next access and its local variables
  pc, loc,      \* the same per consumer
  spare         \* auxiliary: as in Fifo

counters == <<tailIndex, headIndex, dequeueOptimisticCount, dequeueOvercommit>>
memory == <<tailBlock, blockIndex, entries, blocks, pool>>
vars == <<counters, memory, ppc, ploc, pc, loc, spare>>

INVALID_BLOCK_BASE == 1

Slot == 0 .. BLOCK_SIZE - 1

Base(index) == index - (index % BLOCK_SIZE)

NoEntries(count) == [i \in 1 .. count |-> [key |-> INVALID_BLOCK_BASE, value |-> garbage]]

\* The first header, and the one that new_block_index makes of prev: prev's
\* entries from the oldest to the newest, then as many new ones.
FirstHeader ==
  LET size == IMPLICIT_INITIAL_INDEX_SIZE IN
  [capacity |-> size, tail |-> size - 1, index |-> [i \in 0 .. size - 1 |-> i + 1]]

CopiedHeader(prev) == \* Faulty variant: prev's entries where they were.
  LET n == prev.capacity IN
  [capacity |-> 2 * n, tail |-> n - 1,
   index |-> [i \in 0 .. 2 * n - 1 |-> IF i < n THEN prev.index[i] ELSE Len(entries) + i - n + 1]]

GrownHeader(prev) ==
  LET n == prev.capacity IN
  [capacity |-> 2 * n, tail |-> n - 1,
   index |-> [i \in 0 .. 2 * n - 1 |->
                IF i < n THEN prev.index[(prev.tail + 1 + i) % n] ELSE Len(entries) + i - n + 1]]

NoLocals == [tail |-> 0, overcommit |-> 0, myDequeueCount |-> 0, index |-> 0,
             header |-> 0, indexTail |-> 0, entry |-> 0, block |-> nullptr, element |-> nullptr]

\* The constructor goes on if there is no memory for the first header.
Init ==
  /\ tailIndex = 0 /\ headIndex = 0
  /\ dequeueOptimisticCount = 0 /\ dequeueOvercommit = 0
  /\ tailBlock = nullptr
  /\ \/ blockIndex = <<FirstHeader>> /\ entries = NoEntries(IMPLICIT_INITIAL_INDEX_SIZE)
     \/ blockIndex = <<>> /\ entries = <<>>
  /\ blocks = [b \in Blocks |-> [slots |-> [s \in Slot |-> nullptr], dequeued |-> 0]]
  /\ pool = Blocks
  /\ ppc = "idle" /\ ploc = [idxEntry |-> 0, newBlock |-> nullptr]
  /\ pc = [c \in Consumers |-> "idle"]
  /\ loc = [c \in Consumers |-> NoLocals]
  /\ spare = [c \in Consumers |-> 0]

----------------------------------------------------------------------------
(* enqueue: the steps of the producer. *)

Header == blockIndex[Len(blockIndex)]

NextSlot(h) == (h.tail + 1) % h.capacity

PGo(where) == ppc' = where

\* insert_block_index_entry looks at the entry after the newest one.
StartBlock ==
  LET e == Header.index[NextSlot(Header)] IN
  /\ ppc = "idle" /\ tailIndex < MaxTail /\ tailIndex % BLOCK_SIZE = 0
  /\ blockIndex # <<>>
  /\ IF entries[e].key = INVALID_BLOCK_BASE \/ entries[e].value = nullptr
     THEN PGo("store_key") /\ ploc' = [ploc EXCEPT !.idxEntry = e]
     ELSE PGo("new_index") /\ UNCHANGED ploc
  /\ UNCHANGED <<counters, memory>>

\* A null blockIndex is used like any other, which ends the process.
UseNullIndex ==
  /\ ppc = "idle" /\ tailIndex < MaxTail /\ blockIndex = <<>>
  /\ PGo("crashed")
  /\ UNCHANGED <<counters, memory, ploc>>

\* The allocation may fail.
NewBlockIndex ==
  /\ ppc = "new_index"
  /\ \/ /\ Len(blockIndex) < MaxHeaders
        /\ blockIndex' = Append(blockIndex, GrownHeader(Header))
        /\ entries' = entries \o NoEntries(Header.capacity)
        /\ ploc' = [ploc EXCEPT !.idxEntry = GrownHeader(Header).index[Header.capacity]]
        /\ PGo("store_key")
     \/ PGo("idle") /\ UNCHANGED <<blockIndex, entries, ploc>>
  /\ UNCHANGED <<counters, tailBlock, blocks, pool>>

StoreKey ==
  /\ ppc = "store_key"
  /\ entries' = [entries EXCEPT ![ploc.idxEntry].key = tailIndex]
  /\ PGo("store_tail")
  /\ UNCHANGED <<counters, tailBlock, blockIndex, blocks, pool, ploc>>

StoreIndexTail ==
  /\ ppc = "store_tail"
  /\ blockIndex' = [blockIndex EXCEPT ![Len(blockIndex)].tail = NextSlot(Header)]
  /\ PGo("requisition")
  /\ UNCHANGED <<counters, tailBlock, entries, blocks, pool, ploc>>

\* Faulty variant: the block is not reset.
RequisitionOnly ==
  /\ ppc = "requisition"
  /\ \/ \E b \in pool : pool' = pool \ {b} /\ ploc' = [ploc EXCEPT !.newBlock = b] /\ PGo("insert")
     \/ pool = {} /\ PGo("rewind") /\ UNCHANGED <<pool, ploc>>
  /\ UNCHANGED <<counters, tailBlock, blockIndex, entries, blocks>>

\* requisition_block, and reset_empty on what it returns.
Requisition ==
  /\ ppc = "requisition"
  /\ \/ \E b \in pool :
          /\ pool' = pool \ {b}
          /\ blocks' = [blocks EXCEPT ![b].dequeued = 0]
          /\ ploc' = [ploc EXCEPT !.newBlock = b]
          /\ PGo("insert")
     \/ pool = {} /\ PGo("rewind") /\ UNCHANGED <<pool, blocks, ploc>>
  /\ UNCHANGED <<counters, tailBlock, blockIndex, entries>>

RewindBlockIndexTail ==
  /\ ppc = "rewind"
  /\ blockIndex' = [blockIndex EXCEPT ![Len(blockIndex)].tail = (@ - 1) % Header.capacity]
  /\ PGo("unset")
  /\ UNCHANGED <<counters, tailBlock, entries, blocks, pool, ploc>>

\* Then enqueue returns false.
UnsetEntry ==
  /\ ppc = "unset"
  /\ entries' = [entries EXCEPT ![ploc.idxEntry].value = nullptr]
  /\ PGo("idle") /\ ploc' = [ploc EXCEPT !.idxEntry = 0]
  /\ UNCHANGED <<counters, tailBlock, blockIndex, blocks, pool>>

InsertBlock ==
  /\ ppc = "insert"
  /\ entries' = [entries EXCEPT ![ploc.idxEntry].value = ploc.newBlock]
  /\ tailBlock' = ploc.newBlock
  /\ PGo("construct") /\ ploc' = [idxEntry |-> 0, newBlock |-> nullptr]
  /\ UNCHANGED <<counters, blockIndex, blocks, pool>>

Construct ==
  /\ \/ ppc = "construct"
     \/ ppc = "idle" /\ tailIndex < MaxTail /\ tailIndex % BLOCK_SIZE # 0
  /\ blocks' = [blocks EXCEPT ![tailBlock].slots[tailIndex % BLOCK_SIZE] = tailIndex]
  /\ PGo("publish")
  /\ UNCHANGED <<counters, tailBlock, blockIndex, entries, pool, ploc>>

Publish ==
  /\ ppc = "publish"
  /\ tailIndex' = tailIndex + 1
  /\ PGo("idle")
  /\ UNCHANGED <<headIndex, dequeueOptimisticCount, dequeueOvercommit, memory, ploc>>

Produce ==
  /\ \/ StartBlock \/ UseNullIndex \/ NewBlockIndex \/ StoreKey \/ StoreIndexTail \/ Requisition
     \/ RewindBlockIndexTail \/ UnsetEntry \/ InsertBlock \/ Construct \/ Publish
  /\ UNCHANGED <<pc, loc>>

----------------------------------------------------------------------------
(* dequeue: the steps of consumer c. *)

Go(c, where) == pc' = [pc EXCEPT ![c] = where]

Return(c) == Go(c, "idle") /\ loc' = [loc EXCEPT ![c] = NoLocals]

LoadTail(c) ==
  /\ pc[c] = "idle"
  /\ loc' = [loc EXCEPT ![c].tail = tailIndex]
  /\ Go(c, "load_overcommit")
  /\ UNCHANGED <<counters, memory>>

LoadOvercommit(c) ==
  /\ pc[c] = "load_overcommit"
  /\ loc' = [loc EXCEPT ![c].overcommit = dequeueOvercommit]
  /\ Go(c, "load_count")
  /\ UNCHANGED <<counters, memory>>

\* Nothing to dequeue, or perhaps something.
LoadCount(c) ==
  /\ pc[c] = "load_count"
  /\ IF dequeueOptimisticCount - loc[c].overcommit < loc[c].tail
     THEN Go(c, "count") /\ loc' = [loc EXCEPT ![c].tail = 0]
     ELSE Return(c)
  /\ UNCHANGED <<counters, memory>>

Count(c) ==
  /\ pc[c] = "count" /\ dequeueOptimisticCount < MaxAttempts
  /\ dequeueOptimisticCount' = dequeueOptimisticCount + 1
  /\ loc' = [loc EXCEPT ![c].myDequeueCount = dequeueOptimisticCount]
  /\ Go(c, "reload_tail")
  /\ UNCHANGED <<tailIndex, headIndex, dequeueOvercommit, memory>>

\* Faulty variant: the count is not checked again.
ReloadNothing(c) ==
  /\ pc[c] = "reload_tail"
  /\ Go(c, "claim")
  /\ loc' = [loc EXCEPT ![c] = NoLocals]
  /\ UNCHANGED <<counters, memory>>

ReloadTail(c) ==
  /\ pc[c] = "reload_tail"
  /\ IF loc[c].myDequeueCount - loc[c].overcommit < tailIndex
     THEN Go(c, "claim") ELSE Go(c, "overcommit")
  /\ loc' = [loc EXCEPT ![c] = NoLocals]
  /\ UNCHANGED <<counters, memory>>

\* Faulty variant: the count is not taken back.
OvercommitForgotten(c) ==
  /\ pc[c] = "overcommit"
  /\ Return(c)
  /\ UNCHANGED <<counters, memory>>

Overcommit(c) ==
  /\ pc[c] = "overcommit"
  /\ dequeueOvercommit' = dequeueOvercommit + 1
  /\ Return(c)
  /\ UNCHANGED <<tailIndex, headIndex, dequeueOptimisticCount, memory>>

\* The element at the old headIndex is c's.
Claim(c) ==
  /\ pc[c] = "claim"
  /\ headIndex' = headIndex + 1
  /\ loc' = [loc EXCEPT ![c].index = headIndex]
  /\ Go(c, "load_header")
  /\ UNCHANGED <<tailIndex, dequeueOptimisticCount, dequeueOvercommit, memory>>

LoadHeader(c) ==
  /\ pc[c] = "load_header"
  /\ loc' = [loc EXCEPT ![c].header = Len(blockIndex)]
  /\ Go(c, "load_index_tail")
  /\ UNCHANGED <<counters, memory>>

LoadIndexTail(c) ==
  /\ pc[c] = "load_index_tail"
  /\ loc' = [loc EXCEPT ![c].indexTail = blockIndex[loc[c].header].tail]
  /\ Go(c, "load_key")
  /\ UNCHANGED <<counters, memory>>

\* The entry as many blocks before the newest as the key of that one says.
LoadKey(c) ==
  LET h == blockIndex[loc[c].header]
      tailBase == entries[h.index[loc[c].indexTail]].key
      offset == (Base(loc[c].index) - tailBase) \div BLOCK_SIZE
  IN
  /\ pc[c] = "load_key"
  /\ loc' = [loc EXCEPT ![c].entry = h.index[(loc[c].indexTail + offset) % h.capacity],
                        ![c].header = 0, ![c].indexTail = 0]
  /\ Go(c, "load_value")
  /\ UNCHANGED <<counters, memory>>

LoadValue(c) ==
  /\ pc[c] = "load_value"
  /\ loc' = [loc EXCEPT ![c].block = entries[loc[c].entry].value]
  /\ Go(c, "move")
  /\ UNCHANGED <<counters, memory>>

\* element = std::move(el), and el is destroyed.
Move(c) ==
  LET b == loc[c].block s == loc[c].index % BLOCK_SIZE IN
  /\ pc[c] = "move"
  /\ loc' = [loc EXCEPT ![c].element = blocks[b].slots[s], ![c].index = 0]
  /\ blocks' = [blocks EXCEPT ![b].slots[s] = nullptr]
  /\ Go(c, "set_empty")
  /\ UNCHANGED <<counters, tailBlock, blockIndex, entries, pool>>

\* Block::set_empty: whoever empties the last slot gives the block back.
SetEmpty(c) ==
  LET b == loc[c].block IN
  /\ pc[c] = "set_empty"
  /\ blocks' = [blocks EXCEPT ![b].dequeued = @ + 1]
  /\ IF blocks[b].dequeued = BLOCK_SIZE - 1
     THEN Go(c, "remove_entry") /\ UNCHANGED loc ELSE Return(c)
  /\ UNCHANGED <<counters, tailBlock, blockIndex, entries, pool>>

\* Faulty variant: the index keeps the block.
RemoveNothing(c) ==
  /\ pc[c] = "remove_entry"
  /\ Go(c, "free_block")
  /\ UNCHANGED <<counters, memory, loc>>

RemoveEntry(c) ==
  /\ pc[c] = "remove_entry"
  /\ entries' = [entries EXCEPT ![loc[c].entry].value = nullptr]
  /\ Go(c, "free_block")
  /\ UNCHANGED <<counters, tailBlock, blockIndex, blocks, pool, loc>>

FreeBlock(c) ==
  /\ pc[c] = "free_block"
  /\ pool' = pool \cup {loc[c].block}
  /\ Return(c)
  /\ UNCHANGED <<counters, tailBlock, blockIndex, entries, blocks>>

Consume(c) ==
  /\ \/ LoadTail(c) \/ LoadOvercommit(c) \/ LoadCount(c) \/ Count(c) \/ ReloadTail(c)
     \/ Overcommit(c) \/ Claim(c) \/ LoadHeader(c) \/ LoadIndexTail(c) \/ LoadKey(c)
     \/ LoadValue(c) \/ Move(c) \/ SetEmpty(c) \/ RemoveEntry(c) \/ FreeBlock(c)
  /\ UNCHANGED <<ppc, ploc>>

----------------------------------------------------------------------------
(* What the sub-queue implements. *)

Before == {"load_overcommit", "load_count", "count", "reload_tail", "overcommit", "claim"}

\* The element at an index, through the entry of its block.
ElementAt(index) ==
  LET inBlock == {e \in 1 .. Len(entries) :
                    entries[e].key = Base(index) /\ entries[e].value \in Blocks}
  IN IF inBlock = {} THEN nullptr
     ELSE blocks[entries[CHOOSE e \in inBlock : TRUE].value].slots[index % BLOCK_SIZE]

AbstractQueue == [i \in 1 .. (tailIndex - headIndex) |-> ElementAt(headIndex + i - 1)]

AbstractState ==
  [c \in Consumers |->
     IF pc[c] = "idle" THEN "idle" ELSE IF pc[c] \in Before THEN "called" ELSE "taken"]

\* What a consumer has taken, from the moment it has claimed an index.
AbstractItem ==
  [c \in Consumers |->
     CASE AbstractState[c] # "taken" -> nullptr
       [] pc[c] \in {"set_empty", "remove_entry", "free_block"} -> loc[c].element
       [] OTHER -> loc[c].index]

Sub == INSTANCE Fifo WITH
  Elements <- 0 .. MaxTail - 1, nothing <- nullptr,
  queue <- AbstractQueue, state <- AbstractState, item <- AbstractItem

\* The auxiliary variable follows the begin and the success of a call.
Spare(c) ==
  spare' = CASE pc[c] = "idle" -> Sub!SpareAfterCall(c)
             [] pc[c] = "claim" -> [spare EXCEPT ![c] = 0]
             [] OTHER -> spare

Next ==
  \/ Produce /\ UNCHANGED spare
  \/ \E c \in Consumers : Consume(c) /\ Spare(c)

Spec == Init /\ [][Next]_vars

----------------------------------------------------------------------------
(* Properties. *)

Word == 0 .. MaxTail + MaxAttempts

(* Type correctness.                                                       *)
TypeOK ==
  /\ tailIndex \in 0 .. MaxTail /\ headIndex \in Word
  /\ dequeueOptimisticCount \in 0 .. MaxAttempts /\ dequeueOvercommit \in Word
  /\ tailBlock \in Blocks \cup {nullptr}
  /\ \A h \in 1 .. Len(blockIndex) :
       /\ blockIndex[h].tail \in 0 .. blockIndex[h].capacity - 1
       /\ blockIndex[h].index \in [0 .. blockIndex[h].capacity - 1 -> 1 .. Len(entries)]
  /\ entries \in Seq([key : Word \cup {INVALID_BLOCK_BASE}, value : Blocks \cup {nullptr, garbage}])
  /\ blocks \in [Blocks -> [slots : [Slot -> Word \cup {nullptr}], dequeued : 0 .. BLOCK_SIZE]]
  /\ pool \subseteq Blocks
  /\ pc \in [Consumers -> {"idle"} \cup Before \cup
                {"load_header", "load_index_tail", "load_key", "load_value", "move",
                 "set_empty", "remove_entry", "free_block"}]
  /\ spare \in [Consumers -> Nat]

(* The sub-queue is a FIFO queue: see Fifo.                                *)
IsFifo == Sub!Spec

(* The assertion of enqueue, and what every use of a claimed index rests   *)
(* on: consumers that count themselves before they look never claim an     *)
(* index at which nothing has been enqueued.                               *)
HeadBehindTail == headIndex <= tailIndex

(* The assertions of get_block_index_index_for_index: the newest entry of  *)
(* the header that was read, however old, still has a key, and the entry   *)
(* counted back from it is that of the block of the claimed index, and     *)
(* stays so until the block is empty.                                      *)
EntryFound ==
  \A c \in Consumers :
    /\ pc[c] = "load_key" =>
         entries[blockIndex[loc[c].header].index[loc[c].indexTail]].key # INVALID_BLOCK_BASE
    /\ pc[c] \in {"load_value", "move"} =>
         /\ entries[loc[c].entry].key = Base(loc[c].index)
         /\ entries[loc[c].entry].value \in Blocks

\* Consumers that are to free b, and have removed it from the index.
Freeing(b) == {c \in Consumers : pc[c] = "free_block" /\ loc[c].block = b}

\* The entries that have b.
EntriesOf(b) == {e \in 1 .. Len(entries) : entries[e].value = b}

(* No block is lost or in two places: it is in the pool, in one entry, or  *)
(* in the hands of one thread; and a block in the index holds an element,  *)
(* or room for one, or is about to be removed by whoever emptied it.       *)
BlocksAccounted ==
  \A b \in Blocks :
    /\ Cardinality(EntriesOf(b)) + Cardinality(Freeing(b))
         + (IF b \in pool THEN 1 ELSE 0) + (IF ploc.newBlock = b THEN 1 ELSE 0) = 1
    /\ EntriesOf(b) # {} =>
         blocks[b].dequeued < BLOCK_SIZE \/ \E c \in Consumers : pc[c] = "remove_entry" /\ loc[c].block = b
=============================================================================
