# The nfa runtime's control plane in TLA+

nfa is a network-function runtime. What the repository has of it so far is its
control plane: a gRPC server in which a controller registers views of other
runtimes, negotiates migrations and replicas and asks for status, and a worker
thread to which the server passes every change. The data plane (actors, BESS
modules, timers, tables) is present as comments only.

This directory specifies that control plane, model-checks it with TLC on small
instances and proves its main safety properties with TLAPS for every instance.

## 1. Inventory

| Part | Code | State it keeps | Operations |
|---|---|---|---|
| Messages | `runtime/protobuf/nfa_msg.proto`, `runtime/rpc/nfa_rpc_server.h` | none | conversions `view_rpc2local`, `view_local2rpc`, `parse_mac_addr`, `encode_mac_addr` |
| RPC server | `nfa_rpc_server.cc`, `ServerImpl` | `viewlist_input`, `viewlist_output`, `replicalist`, the completion queue | `HandleRpcs` |
| Handlers | `nfa_rpc_server.cc`, eleven classes | `status_`, `request_`, `reply_` per call | `Proceed` in the states CREATE, PROCESS, FINISH |
| Rings | `runtime/rpc/concurrentqueue.h` | two `ConcurrentQueue`s | `enqueue`, `try_dequeue` |
| - producers | the same | the hash from thread ids to producers, the list of producers | `get_or_add_implicit_producer`, the scan of `try_dequeue` |
| - sub-queue of a producer | the same | four counters, the block index, the blocks | `ImplicitProducer::enqueue`, `dequeue` |
| - free list of blocks | the same | the list, a reference count per block | `add`, `try_get` |
| Worker thread | `nfa_rpc_server.cc`, `child` | the message in hand, one `RuntimeInfo`, one `RuntimeStat` | poll, switch, reply |
| gRPC | external | calls, acceptors, completion queue | `RequestX`, `Next`, `Finish`, the client's stub |
| Test client | `runtime/rpc/main.cc` | none | wrappers of the RPCs and a script of fourteen calls |
| Everything else | `runtime/actor`, `runtime/module`, `runtime/timer`, `utils`, `controller`, `runtime/main.cc` | - | files of one comment or an empty line |

How the parts interact. A call meets an *acceptor* of its method (a handler
object waiting in gRPC) and becomes an event of the completion queue. The RPC
thread takes the event, and `Proceed` first creates the next acceptor. Then the
handler goes through the items of the request. For each it checks the tables,
enqueues a message on the request ring, and polls the reply ring until *some*
reply is there; if the reply says so it changes its table. Finally it answers;
the completion of the answer comes back as another event, on which the handler
object deletes itself. The worker thread polls the request ring, handles one
message and enqueues one reply. Nothing in a reply is compared with the message
it is supposed to answer, and messages carry pointers into the handler's stack.

A ring is a lock-free queue. The thread that enqueues finds its own *implicit
producer* in a hash table, or makes one and links it into a list; each producer
has a FIFO sub-queue made of blocks, found through a circular index. A thread
that dequeues walks the list, and claims an element of a sub-queue in two
steps: it counts itself, and takes the count back if there was nothing for it.
Whoever empties a block gives it to the free list, from which producers take
their next one.

What is hard here:

- the tables are checked before the wait and changed after it;
- the reply ring has no addressee, and a comment offers to run `HandleRpcs` on
  several threads;
- an id is a `uint64` in requests, an `int` as a key, and compared both ways;
- handlers renew and delete themselves through the completion queue;
- a handler blocks the only RPC thread until the worker replies;
- lists are compared by size and membership, item by item;
- `Recover` writes one member of a union and reads another; a `Local_view` is
  filled into uninitialised memory, its `rpc_ip` by a `strcpy` without a bound;
  MAC addresses are printed from the wrong argument;
- a client may go away while a handler works for it;
- inside the rings, everything is a race: consumers that count themselves and
  take it back, a block index read while it grows or is rewound, a hash table
  replaced without its entries, a list node popped and pushed again under a
  thread that looks at it, allocations that fail half way, counters that wrap.

What makes each part correct:

- *Rings and worker*: a waiting handler's message is in exactly one place, and
  the reply it takes is the reply to that message (`RingProtocol`); the tables
  and what the worker has accepted agree (`ListsAgreeWithWorker`).
- *Handlers*: the checks still hold when the reply is applied
  (`CheckStillHolds`); a call changes only what it is about
  (`CallChangesOnlyItsItems`); migrations and replicas are negotiated on the
  runtime's own lists (`NegotiatedOnOwnLists`); a runtime is not its own replica
  (`NoSelfReplica`); answers tell what happened (`SuccessMeansChange`,
  `SilentFailureIsEmpty`).
- *Event loop*: a call has one handler at a time (`OneHandlerPerCall`), no
  handler object is lost or deleted twice (`HandlersAccounted`), no method
  becomes unreachable (`AcceptorsReplenished`), every call is answered
  (`EveryCallAnswered`).
- *The whole*: it is a control plane that carries out one call at a time
  (`IsControlPlane`).
- *Free list*: no block is used twice or lost (`OneUser`, `NothingLost`), none
  is added by two threads at once (`OneAdder`), its loops end (`OperationsEnd`).
- *Sub-queue*: it is a FIFO queue (`IsFifo`); its blocks are accounted for
  (`BlocksAccounted`), and a claimed element exists and is found
  (`HeadBehindTail`, `EntryFound`, `ElementsForClaims`); its counters stay in step as they wrap
  (`CountsBalance`), and the one consumer of a ring is told the truth and gets
  everything (`FalseMeansEmpty`, `ElementsTaken`).
- *Producers*: each thread has one of its own (`OneProducerEach`), which
  consumers find (`ProducersListed`, `NothingOverlooked`, `EverythingTaken`); a
  search of the hash ends (`OneSlotFree`, `CountReserves`, `CallsReturn`).
- *Clients that go away*: the calls of the others end (`CallsEnd`), and a call
  that a handler has begun is carried out to its end (`BegunCallsFinish`).
- *Conversions*: entries are stored as requested, as far as the text of the
  request goes and fits (`StoredAsRequested`).
- *Test client*: it sees the results its comments expect (`ExpectedResults`) and
  returns (`MainReturns`).

`PROJECT.json` lists every hazard with its line and the properties aimed at it.

## 2. Modules

| Module | Models | Extends |
|---|---|---|
| `NfaMessages` | the data: integers and keys, views, tables, requests, answers, ring messages | |
| `Rings` | the two rings | `NfaMessages` |
| `Worker` | `child` | `Rings` |
| `Grpc` | the external gRPC server and its clients | `NfaMessages` |
| `RpcServer` | `HandleRpcs`, the states of a handler, the steps all handlers share | `Worker`, `Grpc` |
| `RpcHandlers` | the eleven `Proceed` methods | `RpcServer` |
| `NfaRuntime` | the composition of `main`, the specification, all properties | `RpcHandlers` |
| `MainScript` | the test client against a runtime | `NfaRuntime` |
| `ControlPlane` | abstract: what a runtime promises to those who call it | `NfaMessages` |
| `NfaRefinement` | the mapping under which `NfaRuntime` implements `ControlPlane` | `NfaRuntime` |
| `ClientLoss` | the runtime with clients that go away | `NfaRuntime` |
| `FreeList` | the free list of blocks | |
| `Fifo` | abstract: what a sub-queue promises to those who dequeue | |
| `ImplicitProducer` | a sub-queue with its blocks and block index; implements `Fifo` | |
| `CircularCounters` | the counters of a sub-queue as words that wrap around | |
| `ProducerHash` | `get_or_add_implicit_producer`, `add_producer` | |
| `TryDequeue` | the scan of `try_dequeue` over sub-queues that are as `Fifo` says | |
| `MCNfaRuntime`, `MCNfaRefinement`, `MCMainScript`, `MCClientLoss`, `MCImplicitProducer` | values of the constants for TLC | the module each is named after |
| `MCQueue` | the free list, the hash, the scan and the counters for TLC, one of them at a time | `CircularCounters` |

Theorems and their proofs are in modules of their own:

| Module | About | Extends |
|---|---|---|
| `NfaRuntimeProofs` | types, calls in one hand, the rings, the tables | `NfaRuntime` |
| `NfaCallProofs` | single calls, answers, handler objects; the refinement of `ControlPlane` | `NfaRefinement`, `NfaRuntimeProofs` |
| `ClientProofs` | the end of the process; the test client | `ClientLoss`, `MainScript`, `NfaCallProofs` |
| `FreeListProofs` | the free list | `FreeList` |
| `ImplicitProducerProofs` | a sub-queue: its counters, its block index, its blocks, its elements; the refinement of `Fifo` | `ImplicitProducer` |
| `ProducerHashProofs` | the hash of producers | `ProducerHash` |
| `TryDequeueProofs` | the scan | `TryDequeue` |
| `QueueProofs` | the wrapped counters, and all parts of the queue as `MCQueue` composes them | `MCQueue` |

State and code. `viewlist["input"]`, `viewlist["output"]` and `replicalist` are
the three `std::map`s, as functions from the keys present to `Local_view`s.
`rte_ring_request[t]` is the sub-queue of producing thread `t` and
`rte_ring_reply` the one sub-queue of the worker. `child_request` is the
message the worker has copied out of the ring. `pc[t]`, `cur[t]`, `item[t]` and
`reply_[t]` are where RPC thread `t` is, whose call it handles, its loop index
and its `reply_` and `ok_flag`. `armed` and `allocated` count, per method, the
acceptors and the handler objects; `cq` is the completion queue; `call` holds
each client's call. Two variables are history and guard nothing: `snapshot`
(the keys of the tables when the call began) and `acknowledged` (the keys the
worker has accepted). The field `from` of a message names the thread whose
stack its pointers point into.

Steps. The RPC thread and the worker share only the rings, so one step is what
happens between two ring or queue operations: the entry of `Proceed`
(`BeginCall`, `DeleteCallData`), one pass of a handler's loop up to `enqueue`
(`Throw`) or `continue` (`Skip`), the `try_dequeue` that finds a reply together
with the changes made on it (`GotReply` and the conjuncts next to it), and the
answer (`Finish`). Each handler is a disjunction of these four. Polls that find
nothing change nothing and are left out. With several RPC threads the maps are
really accessed without synchronisation; the model then interleaves whole
passes, so what it refutes with two threads is wrong in the code as well, and
what it shows with two threads (`threads`) is about calls and handler objects
and not about the maps.

Inside the queue (`FreeList`, `ImplicitProducer`, `ProducerHash`, `TryDequeue`,
`CircularCounters`) a step is one access to shared memory: one atomic load,
store, `fetch_add` or compare-and-swap, with the computation on local variables
up to the next. `pc[t]` names the next access and `loc[t]` holds the local
variables under their names. The variables keep the names of the members;
blocks, nodes and producers are model values, and what is allocated in sequence
(tables, block index headers, entries) are sequences whose positions stand for
pointers. Each part is composed with the next through what it promises, and not
with its code: `Rings` and `TryDequeue` use the sub-queue that `Fifo`
describes, `ImplicitProducer` shows that the code is one; `ImplicitProducer`
takes blocks from a pool from which a request may fail, which is what
`FreeList` makes of it. With one consumer, as each ring has, `Fifo` lets a
`dequeue` fail on an empty queue only, and its elements leave in order: that is
the ring of `Rings`. With more than one, a `dequeue` may fail if the calls that
overlap it are as many as the elements; `spare` counts them.

Memory is sequentially consistent in all of them. The code asks for less
(relaxed loads, acquire and release fences), so what is shown is the algorithm
and not the choice of its memory orders.

Clients that go away. `ClientLoss` adds what `Next` gives for `ok`: false may
come with the completion of an answer whose client is gone, since nothing could
be sent. It is the only way in which the server learns of it; no handler asks.

The control plane. `ControlPlane` has no threads, rings or handlers: the keys
in the tables, one call that is being carried out, and per item one step that
objects to it or decides it. `NfaRefinement` maps the runtime to it. `held` is
what the worker has accepted, so that an item takes effect when the worker
replies, before the handler looks at the reply; for that moment the mapped
`item` and `succeeded` are one ahead of the handler's. What is answered is then
required to be what holds at the end of the call, in the tables of the *worker*.

Abstractions. The three MAC addresses of a view are one. An `rpc_ip` is one of a
set of texts, of which `LongIps` have 22 to 29 characters. `parse_ip_addr` copies
them into the 20 bytes of `rpc_ip`, across two bytes of padding, and with their
end into `rpc_port`, which is written next. So the port of an entry is right
whatever the address is, and an address of up to 21 characters is too; a long
one is read back as its first 22 characters and then the bytes of the port, and
this pair is what the model stores and answers (`StoredIp`). Of the views that come with a migration or a
replica only the ids are kept, because only they are used. A MAC text is the
bytes `sscanf` can read from it, and the bytes it cannot read keep what
uninitialised memory held: any value. `encode_mac_addr` prints the low bytes of
the addresses it is given: any value, counting up. The upper half of the union
in `Recover` is any value of `{0, 1}`. A MAC text copied into the six bytes of
`change_view_msg_` runs over into its neighbours, which nobody reads, and not
into the id; the model keeps the id. Statistics in `RuntimeInfo` and
`RuntimeStat` are never filled in; `succeed` is kept.

Definitions commented as *faulty variant* are used by no specification. They
are the mutations listed in `PROJECT.json`: in place of the definition they
vary, each makes a property of a run fail.

## 3. Runs

| Run | Instance | Distinct states | Properties |
|---|---|---|---|
| `handlers` | 1 client, all methods, incomplete MAC texts, addresses that fit and that do not, a worker that may refuse | 713 000 | `TypeOK`, `NoSelfReplica`, `NegotiatedOnOwnLists`, `CallChangesOnlyItsItems`, `ListsAgreeWithWorker`, `SuccessMeansChange`, `StoredAsRequested` |
| `clients` | 2 clients, requests that get into each other's way, an empty list | 389 000 | `RingProtocol`, `CheckStillHolds`, `SilentFailureIsEmpty`, `IsControlPlane` |
| `threads` | 2 clients, 2 RPC threads, messages that may be lost | 436 000 | `OneHandlerPerCall`, `HandlersAccounted`, `AcceptorsReplenished` |
| `script` | test client and another client, fairness | 38 000 | `ExpectedResults`, `MainReturns`, `EveryCallAnswered` |
| `loss` | 2 clients that may go away, fairness | 28 000 | `CallsEnd`, `BegunCallsFinish` |
| `sub_queue` | 2 consumers, 7 elements, 3 blocks, an index that grows and is used again | 499 000 | `TypeOK`, `BlocksAccounted`, `HeadBehindTail`, `EntryFound`, `IsFifo` |
| `queue` | free list: 3 threads, 2 blocks; hash: 3 threads, a table of 2 that grows twice; scan: 2 consumers, 3 producers; counters: 2 consumers, words of 16 values | 711 000 | `TypeOK`, `OneUser`, `NothingLost`, `OneAdder`, `OneProducerEach`, `OneSlotFree`, `CountReserves`, `ProducersListed`, `NothingOverlooked`, `ElementsForClaims`, `CountsBalance` |
| `queue_live` | free list: 2 threads; hash: 2 threads; scan: 1 consumer, 4 producers; counters: 1 consumer; fairness | 129 000 | `OperationsEnd`, `CallsReturn`, `EverythingTaken`, `FalseMeansEmpty`, `ElementsTaken` |
| `two_threads` | 2 RPC threads | | `RepliesReachTheirSender` is violated |
| `wide_ids` | an id congruent to `MyId` | | `NoSelfReplica` is violated |
| `duplicates` | a list that names a view twice | | `NegotiatedOnOwnLists` is violated |
| `echoed_macs` | MACs of 2 bytes | | `AnswerShowsTheEntries` is violated |

What each shows. `handlers` exercises every path of every handler, one call at
a time. `clients` adds the contention for the one RPC thread that `main`
starts, and that neither client can tell it from a control plane that carries
out one call at a time. `threads` asks what survives of the event loop if
`HandleRpcs` runs twice, and if an `enqueue` on a ring may fail for want of
memory (`EnqueueResults`): the code ignores the result, and the handler then
waits for ever. In the other runs `enqueue` succeeds. `script` runs the repository's own test client against
the runtime, again and again and with a stranger's calls in between. `loss`
lets clients go away in the middle of a call. `sub_queue` shows that a
producer's sub-queue, with everything it does about blocks and indices, is a
FIFO queue. `queue` and `queue_live` check the other parts of the queue. These
share no variable, so `MCQueue` puts them side by side and the first state says
which of them runs; their states add up and do not multiply.

`SilentFailureIsEmpty` has one exception in it: `AddReplicas` and
`DeleteReplicas` answer an empty list with `succeed` false and no `fail_reason`
(lines 644 and 755), which no doc speaks of. The run sends such a list, and the
property says that no other call fails in silence.

`clients` has a worker that accepts everything. Under one that refuses,
`IsControlPlane` would have to leave out migrations: `SetMigrationTarget`
answers before it hears the verdict (line 488), which no doc says otherwise.
Refusals are in `handlers`, where `SuccessMeansChange` and
`ListsAgreeWithWorker` say what they do to the tables and answers.

Bounds. `IntRange` is 8 with ids up to 10: the id 10 collides with key 2, so
truncation happens, while in `handlers` no id collides with `MyId`. That is the
hypothesis under which `NoSelfReplica` holds (`NarrowIds` below), and
`wide_ids` drops it. Keys 2 and 3 in each table give the
empty, partial and full lists that the comparisons distinguish; lists of one to
three items exercise every mixture of skipped and thrown items, with an item
met twice in one request (`<<3, 10>>`, `<<10, 2>>`). MACs of two bytes of two
values are the least that a text can fill in part. Two clients suffice for
contention because a client beyond the second only waits in the same queues.
Two RPC threads are the least with which replies can change hands. No counter
of the runtime needs a bound: the rings, `cq`, `item` and the acceptors are
bounded by the number of clients and threads.

Of the queue, `BLOCK_SIZE` is 2 and the index and the hash table start with 2
entries, so that blocks, index and table run out, wrap and are replaced within
a few elements. `MaxTail` (elements enqueued) is 7: the fourth block makes the
index use one of its entries again after it has grown; `MaxAttempts` bounds
how often consumers count themselves, with an element to take or in vain;
`MaxHeaders` is how many block indices there is memory for. `MaxEnqueued` bounds the elements of
one producer in `TryDequeue`; the four producers of `queue_live` are one more
than a scan takes into its choice. In `CircularCounters` nothing bounds the
elements. `MaxLag` is how far a counter may run ahead of a value of it that a
consumer still holds. Near half of `IndexRange` a comparison would be wrong:
`CircularCountersAssumption` keeps `MaxLag` and the number of consumers together
within half of it. In the build that is 2^63 operations while one thread sleeps,
and `queue_live` goes up to the limit (7 of 16, and one consumer). `RefsRange` only has to exceed the number of
threads.

Deadlock is checked except where the system may really stop: in `sub_queue`,
`queue` and `queue_live` at a bound on the elements, in `loss` when the process
has ended and every client has gone, in `threads` when each handler waits for a
message that is lost.

Fairness (`ScriptSpec`, `FairLossSpec`, `QueueFairSpec`). Weak fairness of
`HandleRpcs` and of the worker: both are endless loops on operating-system threads of their own that
block on nothing but each other. Strong fairness of the transport, per client:
gRPC gives waiting calls to new acceptors in order of arrival, so a call is not
passed over for ever although its acceptor is taken again and again. Clients
are not fair: they need not call. Only the script's client is, since `main`
runs on. In `ClientLoss` a client that has not gone takes its answer, on which
its wrapper blocks, and the transport owes nothing to clients that have gone.
In the modules of the queue, each thread runs: weak fairness of the steps of an
operation that it has begun, and of calling again where a run says that
consumers poll, as both loops on the rings do. Nothing is assumed of
producers, and allocations may fail at any time.

Divergences found (`findings` in `PROJECT.json`):

1. `HandleRpcs` "can be run in multiple threads if needed" (line 1046): not
   with one reply ring whose replies are not matched. Two handlers that wait
   take each other's replies.
2. "can not replica itself" (line 565): the test compares all 64 bits of the
   id and the table keeps 32.
3. "compare received view with local view" (line 457): size and membership do
   not compare lists in which a view occurs twice.
4. Answers are to show the current views; `encode_mac_addr` prints addresses
   in memory in place of the bytes of a MAC.

Two ends of the program that the models contain, and against which the code
does nothing. `GPR_ASSERT(ok)` (line 1072): gRPC gives `ok` false for the
completion of an answer that could not be sent, so a client that goes away
during its call can end the process for all (`aborted` in `ClientLoss`;
`BegunCallsFinish` says that it does not do so in the middle of another call). And if the *first* block
index of a producer cannot be allocated, its constructor does not say so, and
`enqueue` goes through a null pointer (concurrentqueue.h, line 2341;
`UseNullIndex` in `ImplicitProducer`).

Two limits of the queue that are no divergence, since nothing promises
otherwise, and that the rings do not meet with their one consumer: two
consumers that poll can count each other for ever and both find nothing with an
element before them, for which reason `FalseMeansEmpty` and `ElementsTaken` are
about one consumer; and producers that never stop can keep those behind them in
the list waiting, for which reason `EverythingTaken` needs the bound
`MaxEnqueued`.

## 4. Proofs

TLC checks the instances of section 3. The theorems, listed in `PROJECT.json`,
hold for every value of the constants that meets the assumptions the modules
state: any number of clients, threads, consumers, producers and blocks, any set
of requests and ids, any width of integers, counters, indices and tables, and a
worker that may refuse, unless a hypothesis says otherwise. Every theorem rests
on an inductive invariant: one that holds at first, that every step keeps, and
from which the property follows. The sections below say what each one adds to
the properties it proves, and why they would not be inductive without it.

### The runtime (`NfaRuntimeProofs`, `NfaCallProofs`)

For any number of RPC threads:

| Theorem | Property |
|---|---|
| `TypeCorrect` | `TypeOK` |
| `CallsInOneHand` | `OneHandlerPerCall` |
| `EntriesAreRequested` | `StoredAsRequested` |
| `HandlerObjects`, `AcceptorsAreThere` | `HandlersAccounted`, `AcceptorsReplenished`, for finitely many threads |

With one RPC thread, as `main` runs it (`OneThread`), and no `enqueue` that fails
(`EnqueuesSucceed`, which `CallKeepsToItsItems` does without):

| Theorem | Property | Further hypotheses |
|---|---|---|
| `RingsInLockStep` | `RingProtocol` | |
| `ChecksHold` | `CheckStillHolds` | |
| `TablesAgree` | `ListsAgreeWithWorker` | |
| `NeverOwnReplica` | `NoSelfReplica` | all ids fit into an `int` |
| `ComparedWithOwnLists` | `NegotiatedOnOwnLists` | no list of a request names a key twice |
| `CallKeepsToItsItems` | `CallChangesOnlyItsItems` | |
| `SuccessIsChange` | `SuccessMeansChange` | |
| `SilentFailuresAreEmpty` | `SilentFailureIsEmpty` | the worker accepts everything (`WorkerSaysYes`) |
| `RuntimeIsControlPlane` | `IsControlPlane` | the same; ids that do not collide with `MyId` (`NoAlias`), lists without repetition, one target a migration (`OneTarget`) |

- `TypeInv` is `TypeOK`, `OneHandlerPerCall` and `WaitingHasItem`. They have to
  be proved together: that an answer is written into a call of the right type
  needs the call to be in that handler's hands, and a waiting handler reads its
  current item, which must exist. The proof first shows that a step of any
  handler is one of four shapes (`ProceedSteps`: skip, throw, take, finish), so
  that each conjunct is proved for four shapes and not for forty disjuncts. `LoopEffects` and `WaitEffects` of
  `NfaCallProofs` say in the same four shapes what a step does to tables and
  answers.
- `SafeInv` is `TypeInv`, `RingProtocol`, `CheckStillHolds` and `WorkerAhead`.
  `ListsAgreeWithWorker` alone is not inductive, because it says nothing while a
  reply is under way; `WorkerAhead` adds that the worker is then ahead by
  exactly the message of the waiting handler. `RingProtocol` makes that message
  known, and `CheckStillHolds` carries the handler's decision across the wait.
  `ComparedWithOwnLists` follows from `SafeInv` by the pigeonhole principle
  (`SameSize`): as many distinct keys as the table has, all of them in it, are
  all of it.
- `ReportInv` adds that a replica handler changes the list in one direction
  only (`OneWay`), so that no later item takes back what an earlier one did:
  without it "reported success" and "the list differs" could part.
- `ExplainInv` adds why the call will fail if it fails now (`Explained`): it has
  a reason as soon as it has gone through an item, and not before. It adds also
  that a query's reply comes after the worker has filled in what it points to.
- `HandlerObjects` and `AcceptorsAreThere` count: each step moves one handler
  object between the four places where one can be, and the counts follow from
  the cardinalities of the sets of threads and clients in each place.
- `PlaneInv` adds to `SafeInv` what the answer will say (`Promised`) and that
  the *whole* check of a thrown item still passes (`Unobjected`), where
  `CheckStillHolds` keeps only what the code dereferences. From it, the initial
  state is one of `ControlPlane`, and every step is a step of `ControlPlane` or
  leaves its variables alone (`NextShows`): the worker's reply is the decision
  of an item, a skip is an objection, and the step that takes the reply shows
  nothing.

The hypotheses are not for convenience. `OneThread` is what `two_threads`
drops, `EnqueuesSucceed` what the mutant `ThrowLost` breaks, ids that fit what
`wide_ids` drops, lists without repetition what
`duplicates` drops, and in each case the run finds the violation. Why
`IsControlPlane` excludes refusals is in section 3.

### The clients (`ClientProofs`)

Clients that go away. `ProcessEndsBetweenCalls`: with one RPC thread, `LossSpec =>
NotCutOff`, the part of `BegunCallsFinish` that is not about fairness: a call
that has been begun stays with its handler until it is answered, and neither
fails nor is begun anew. `LossInv` carries `TypeInv` and `RunningHandled` (a
running call is in the hands of a handler) up to the moment at which the
assertion on `ok` fails. The one thread is then in no handler, so no call is
running; from there on only clients take steps, and none of these begins one.

The test client. `ScriptSeesExpected`: with the hypotheses of
`RuntimeIsControlPlane`, and if the other clients (any number of them) send
only what leaves the tables alone (`QuietOthers`, said of `OtherRequests`: no
view is added or deleted, and no replica but this runtime is named, which every
handler refuses), `ScriptSpec => []ExpectedResults`. The argument is made about
`ControlPlane` and not about the handlers: the steps of the runtime are its
steps (`RuntimeShows`, the part of `NextShows` that is not about clients), and
what a call is told depends on what is held and on nothing else. `ScriptInv`
says what is held as a function of the first call of the script that has not
been carried out (`Position`; a call of two views counts once both are in), and
that the answer under way says so far what is expected. The view lists are
known exactly only from the third and the fourth call on: at the start they may
hold what an earlier run of the script has left, which is why the wrappers for
the view lists, which return true whatever they are answered, matter to the
result. The replica list is empty again when the script ends, so that the next
run is told the same; this is where an edit of the script would break it.

### The queue

| Module | Theorem | Property |
|---|---|---|
| `FreeListProofs` | `BlocksHaveOneUser`, `AddersAreAlone`, `NoBlockIsLost`, `CountsStayInTheirBits` | `OneUser`, `OneAdder`, `NothingLost`, `TypeOK` |
| `ProducerHashProofs` | `OneSubQueueEach`, `ProducersAreListed`, `TheCountReserves`, `OneSlotStaysFree`, `CountStaysInBounds` | `OneProducerEach`, `ProducersListed`, `CountReserves`, `OneSlotFree`, `TypeOK` |
| `TryDequeueProofs` | `NoneIsOverlooked`, `PositionsStayInList` | `NothingOverlooked`, `TypeOK` |
| `ImplicitProducerProofs` | `ConsumersStayBehind`, `EntriesAreFound`, `BlocksAreAccounted`, `SubQueueIsFifo`, `TypesAreKept` | `HeadBehindTail`, `EntryFound`, `BlocksAccounted`, `IsFifo`, `TypeOK` |
| `QueueProofs` | `ElementsAreThere`, `CountsAreBalanced`; with one consumer, `SoleConsumerIsToldRight` | `ElementsForClaims`, `CountsBalance`; `FalseMeansEmpty`, all of `CircularCounters` |

- `FreeInv`: a node is in one of six states, and in each its reference word is
  determined by how many threads refer to it. A node on the list is linked to
  from one place only (`LinksOK`), and a thread that is about to swap the head
  has read the link of a node that nobody else may write (`LocalOK`): this is
  why a head that has been popped and pushed again in between (ABA) does no
  harm. `WalkOK` is why no block is lost: a walk from the head meets every
  node on the list. What a walk meets (`Reachable`) is defined as the least set
  that has its start and follows the links of its members, so that a step is
  shown to keep it by a set that is closed under the new links
  (`WalkMeetsListed`). `FreeListAssumption` asks for more reference counts
  than threads.
- `SearchInv`: on the way from where the search of a thread starts to the slot
  that holds its id, no slot is ever free, in any table (`ComesTo`). So a
  search that meets a free slot has shown that the thread is in no table, and
  it stays so, because only the thread itself inserts its id. `OwnInv` adds
  that the producers a thread has been given, carries and would find are one.
  `RoomInv` adds that at most three quarters of a table are taken or promised;
  it counts the threads by what each has read of
  `implicitProducerHashCount`, since a thread that was let in may come late.
  `WalkInv` says that what a consumer meets from `producerListTail` (`Listed`,
  a least set again) is what threads have been given, and what a thread at
  `"insert"` has linked and not yet put in a table; so the producer that
  is linked next is not in the list, and linking it loses none (`ListGrows`).
  The last conjunct of `ProducerHashAssumption`, that the powers of two by which
  a table grows are natural numbers above 1, is a fact of arithmetic and no
  restriction: the provers cannot derive it, and TLC evaluates it.
- `ScanInv`: per consumer and producer, how many elements were there when the
  call began and have not been accounted for by a call of another consumer.
- `CountInv` of `ImplicitProducerProofs`: everybody who has counted itself has
  claimed, will claim, is undecided, is too late or was; and if an undecided
  consumer finds an element, then there is one for it and for all undecided who
  counted themselves before it (`RoomUpTo`). The comparison the code makes is
  between values read at four different moments, and this is what it implies.
- `BlockInv` is `CountInv` and `IndexInv`, which says of the blocks what
  `EntryFound` and `BlocksAccounted` are true because of. What a block has
  counted in `dequeued`, and the consumers that have claimed an element of it
  and are not counted yet (`HoldersOf`), are together the indices claimed in it;
  so a block with an unclaimed or unfinished element is not full (`BlockOK`) and
  keeps its entry (`LiveOK`). Back from the newest entry, the keys of the
  entries go down in steps of one block, except for those that were never used
  and the one that the producer is changing or that a failed insertion has left
  (`KeysOK`, `ProducerOK`); every entry is in the current circle once
  (`HeadersOK`). The producer takes only the oldest entry again, and only if its
  block is gone: while a block has an element, all later entries keep their
  keys. So what a consumer between its loads relies on (`Leads` in
  `ConsumersOK`) stays true in the header that it has read, though the index may
  have been replaced by a larger one. `Places` says where each block is; that
  only one consumer counts the last element of a block, and no two free it,
  follows from the same count. `TypeOK` is proved from these as well: that
  `dequeued` stays within `BLOCK_SIZE` is not a matter of types.
- `FifoInv` is `BlockInv` and two more parts, from which `SubQueueIsFifo`
  follows. `ContentInv`: the element at an index that somebody has claimed or
  will claim is in its slot of the block that has an entry for it (`SlotsOK`);
  the block at the tail is the one the producer writes to (`TailOK`); no two
  consumers have claimed one index (`OneTaker`). So what is between `headIndex`
  and `tailIndex` can be read off the blocks and is, at every moment, the
  abstract queue. `Publish` is then `Enqueue`, and `Claim` is `Take`: the
  element is in the caller's hand from the moment its index is claimed, though
  the code finds and moves it several loads later. `SpareInv` is for the calls
  that fail. A consumer reads `tailIndex`, `dequeueOvercommit` and
  `dequeueOptimisticCount` one after the other, and again after it has counted
  itself; as long as it has spare elements, `headIndex`, those who look at the
  same time (`Others`) and the spare elements are together no more than what it
  has read allows for (`SpareAt`). So a call whose comparison fails had none to
  spare, which is the guard of `ReturnFalse`.
- `WrapInv`: the same where the counters are words that wrap around, with ages
  in place of orders. It needs that no thread is lapped:
  `CircularCountersAssumption` keeps the number of consumers and `MaxLag` within
  half of `IndexRange`, and makes `IndexRange` a multiple of two blocks, as
  `enqueue` does when it compares block by block.
- `SoleInv` is for the one consumer that a ring has (`OneConsumer`): what it has
  loaded is as it is, but for the tail, which can only have moved on, and while
  it is not counted itself, the two counts tell where the head is. Nothing less
  than `RoomToTell` would do: with half of all indices in the queue the
  comparison takes a full queue for an empty one. `WrapInv` allows that many and
  no more; that the code's comparison is strict, and the last element of a block
  therefore keeps one index free, is used here only.

`QueueProofs` carries all of these over to `MCQueue`, which the runs check
(`BlocksHaveOneUser`, `NoBlockIsLost`, `AddersAreAlone`,
`ThreadsHaveOneProducer`, `ProducersAreListed`,
`CountIsOfReservations`, `SearchesEnd`, `PartsKeepTheirTypes`,
`NoneIsOverlooked`, `ElementsStayThere`, `CountsStayBalanced`,
`SoleConsumerStaysTold`): a step of the
composition is a step of the part that runs, the others keep their variables,
so the behaviours of the composition are behaviours of each part. The lemmas
`Same...` say that the instance of a part in `MCQueue` and the one under which
its proofs are instantiated mean the same.

### Only model-checked

Liveness: `EveryCallAnswered`, `MainReturns`, `CallsEnd`, `BegunCallsFinish`,
`OperationsEnd`, `CallsReturn`, `EverythingTaken`, `ElementsTaken`. It rests on fairness, hence on
`ENABLED`, which is beyond the prover. Every invariant, every property of single
steps and both refinements are proved.

## 5. Not modelled

- Of `concurrentqueue.h`, what the program does not use: explicit producers and
  tokens, bulk operations, `swap` and moves, `size_approx`. And what this build
  compiles out: `MCDBGQ_*`, the block index behind a lock, and the recycling of
  producers of threads that have exited. Destructors: both queues live as long
  as `main`, which does not return.
- The initial pool of blocks as an array with an index: it is part of the pool
  from which `ImplicitProducer` takes blocks.
- Memory orders weaker than sequential consistency.
- gRPC's shutdown, which the code says it does not handle; lost connections
  other than as a client that has gone.
- What a migration or replica message carries besides the keys (lines 490 to
  502 and 601 to 613): the worker reads nothing of it, and nothing says what it
  should be. The truncated quota is in the model; no property speaks of it.
- An `rpc_ip` of 30 characters or more, whose end goes into the memory behind the
  `Local_view`, and a long one with a port of 2^56 or more, whose bytes do not
  end the text. An address of 20 characters or more is also copied into the 20
  bytes of `str_tmp` when it is answered; where that ends the program, the
  behaviour in the model just stops.
- That an `enqueue` runs out of memory: where in the queue it does is in
  `ImplicitProducer` and `ProducerHash`; `Rings` only says that it may.
- The `sleep`s, the console output, and the contents of statistics.
- The parts without code (section 1), the build scripts, and the copied gtest
  sample, which tests nothing of the runtime.
