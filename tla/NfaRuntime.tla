----------------------------- MODULE NfaRuntime -----------------------------
(***************************************************************************)
(* One runtime as nfa_rpc_server's main builds it: clients that call it,   *)
(* gRPC between, the RPC thread(s), the two rings and the worker thread.   *)
(***************************************************************************)
EXTENDS RpcHandlers

vars == <<ringVars, workerVars, grpcVars, serverVars>>

Init == RingsInit /\ WorkerInit /\ GrpcInit /\ ServerInit

\* HandleRpcs: the acceptors once, then one event of the queue after another.
HandleRpcs(t) ==
  /\ BootAcceptors(t) \/ BeginCall(t) \/ DeleteCallData(t) \/ Proceed(t)
  /\ UNCHANGED workerVars

WorkerThread == child /\ UNCHANGED <<grpcVars, serverVars>>

Controller(c) ==
  /\ ReturnRpc(c) \/ \E r \in Requests : CallRpc(c, r)
  /\ UNCHANGED <<ringVars, workerVars, serverVars>>

Transport(c) == GrpcMatch(c) /\ UNCHANGED <<ringVars, workerVars, serverVars>>

Next ==
  \/ \E t \in RpcThreads : HandleRpcs(t)
  \/ WorkerThread
  \/ \E c \in Clients : Controller(c) \/ Transport(c)

Spec == Init /\ [][Next]_vars

\* The two loops of the program run for ever on threads of their own.  gRPC
\* serves the calls that wait for an acceptor in order of arrival, so a call
\* cannot be passed over for ever by others of its method.
Fairness ==
  /\ \A t \in RpcThreads : WF_vars(HandleRpcs(t))
  /\ WF_vars(WorkerThread)
  /\ \A c \in Clients : SF_vars(Transport(c))

FairSpec == Spec /\ Fairness

----------------------------------------------------------------------------
(* Type correctness of all four parts. *)
TypeOK == RingsTypeOK /\ WorkerTypeOK /\ GrpcTypeOK /\ ServerTypeOK

----------------------------------------------------------------------------
(* The calls. *)

InCall(t) == pc[t] \in {"loop", "wait"}

ProcessEvents == {i \in DOMAIN cq : cq[i].kind = "PROCESS"}

HandlersRun == \A t \in RpcThreads : InCall(t) => call[cur[t]].st = "running"

HandlersDistinct ==
  \A t, u \in RpcThreads : InCall(t) /\ InCall(u) /\ cur[t] = cur[u] => t = u

EventsQueued ==
  \A i \in ProcessEvents : /\ call[cq[i].client].st = "queued"
                           /\ call[cq[i].client].req.method = cq[i].method

EventsDistinct ==
  \A i, j \in ProcessEvents : cq[i].client = cq[j].client => i = j

(* A call under way belongs to one event or to one handler: no two events  *)
(* and no two handlers share a call, and none works on a call that is not  *)
(* in its hands, whose request and answer others may overwrite.            *)
OneHandlerPerCall == HandlersRun /\ HandlersDistinct /\ EventsQueued /\ EventsDistinct

----------------------------------------------------------------------------
(* The rings. *)

\* The message a handler that waits has thrown for its current item.
Thrown(t) ==
  LET m == Req(t).method IN
  CASE m = "SetMigrationTarget"               -> ListsMsg(t, Req(t).quota)
    [] m \in {"AddReplicas", "DeleteReplicas"} -> ListsMsg(t, 0)
    [] m \in QueryMethods                      -> IdMsg(m, TheItem(t).view.worker_id, t)
    [] OTHER                                   -> IdMsg(m, ItemKey(t), t)

\* Where the message of a waiting handler can be: in its sub-queue, with the
\* worker, or answered and in the reply ring.
AtRequestRing(t) ==
  /\ rte_ring_request[t] = <<Thrown(t)>> /\ child_request = None /\ rte_ring_reply = <<>>

AtWorker(t) ==
  /\ rte_ring_request[t] = <<>> /\ child_request = Thrown(t) /\ rte_ring_reply = <<>>

AtReplyRing(t) ==
  /\ rte_ring_request[t] = <<>> /\ child_request = None
  /\ \E verdict \in Verdicts : rte_ring_reply = <<ReplyTo(Thrown(t), verdict)>>

AtRest(t) ==
  /\ rte_ring_request[t] = <<>> /\ child_request = None /\ rte_ring_reply = <<>>

(* The rings run in lock step with the handlers: nothing is in flight      *)
(* unless a handler waits, and then exactly its own message, for the item  *)
(* it is at, is in exactly one place.  So the first reply a handler's      *)
(* polling loop finds is the reply to what it has just thrown, although    *)
(* nothing in reply_msg is compared; and the pointers in a message never   *)
(* outlive the stack frame they point into.                                *)
RingProtocol ==
  \A t \in RpcThreads :
    IF pc[t] = "wait" THEN AtRequestRing(t) \/ AtWorker(t) \/ AtReplyRing(t)
                      ELSE AtRest(t)

(* The reply a waiting handler would take is the reply to its own message. *)
(* This is the part of RingProtocol that a comment of the code extends to  *)
(* several threads ("This can be run in multiple threads if needed.").     *)
RepliesReachTheirSender ==
  \A t \in RpcThreads :
    pc[t] = "wait" /\ rte_ring_reply # <<>> => Head(rte_ring_reply).from = t

----------------------------------------------------------------------------
(* Checks made before the wait. *)

\* What applying the reply for the current item of t relies on.
CheckHolds(t) ==
  LET m == Req(t).method IN
  /\ MoreItems(t)
  /\ \A d \in Dirs : /\ m = AddMethod[d] => ItemKey(t) \notin DOMAIN viewlist[d]
                     /\ m = DeleteMethod[d] => ItemKey(t) \in DOMAIN viewlist[d]
  /\ m = "AddReplicas" => ItemKey(t) \notin DOMAIN replicalist /\ TheItem(t).view.worker_id # MyId
  /\ m \in {"DeleteReplicas", "Recover"} => ItemKey(t) \in DOMAIN replicalist
  /\ m \in {"SetMigrationTarget", "AddReplicas"} => ListsObjection(TheItem(t)) = ""

(* What a handler checked before it threw a message is still so when it    *)
(* applies the reply: the iterator DeleteView erases is valid, the find    *)
(* that DeleteReplicas and Recover erase is not end(), an insert meets no  *)
(* entry and does not make the runtime its own replica, and the view lists *)
(* are those that a target or a replica was compared with.                 *)
CheckStillHolds == \A t \in RpcThreads : pc[t] = "wait" => CheckHolds(t)

(* The tables of the RPC thread are what the worker has accepted, except   *)
(* while a reply is under way.                                             *)
ListsAgreeWithWorker == rte_ring_reply = <<>> => acknowledged = TableKeys

(* A runtime is never its own replica ("can not replica itself").          *)
NoSelfReplica == MyId \notin DOMAIN replicalist

\* The messages on their way to the worker.
Sent(t) == {rte_ring_request[t][i] : i \in DOMAIN rte_ring_request[t]}

InFlight == (UNION {Sent(t) : t \in RpcThreads}) \cup ({child_request} \ {None})

(* A migration or a replica is negotiated on the runtime's own view lists: *)
(* the maps the worker is given hold exactly the keys of viewlist_input    *)
(* and viewlist_output ("compare received view with local view").          *)
NegotiatedOnOwnLists ==
  \A m \in InFlight :
    m.action \in {"SetMigrationTarget", "AddReplicas"} =>
      /\ m.inputs = DOMAIN viewlist["input"]
      /\ m.outputs = DOMAIN viewlist["output"]

----------------------------------------------------------------------------
(* What a call may do. *)

\* The one table a method works on.
TableOf(m) ==
  {d \in Dirs : m \in {AddMethod[d], DeleteMethod[d]}}
    \cup {b \in {"replica"} : m \in ReplicaMethods}

SymDiff(A, B) == (A \ B) \cup (B \ A)

(* During a call no table changes but the one its method is about, and     *)
(* that one only at keys of items already gone through.                    *)
CallChangesOnlyItsItems ==
  \A t \in RpcThreads : InCall(t) =>
    \A b \in Tables :
      SymDiff(TableKeys[b], snapshot[t][b]) \subseteq
        IF b \in TableOf(Req(t).method)
        THEN {ToInt(Req(t).items[i].view.worker_id) : i \in 1 .. item[t] - 1}
        ELSE {}

(* AddReplicas, DeleteReplicas and Recover report success exactly when     *)
(* they have changed the replica list: a refused or failed call left it as *)
(* it was, a successful one did not.                                       *)
SuccessMeansChange ==
  \A t \in RpcThreads :
    InCall(t) /\ Req(t).method \in ReplicaMethods =>
      (reply_[t].succeed <=> TableKeys["replica"] # snapshot[t]["replica"])

\* The ids a set of answered views stands for, as keys.
AnsweredKeys(views) == {ToInt(v.worker_id) : v \in views}

(* A table holds only what a client asked for: the id and the port of an   *)
(* entry, its address unless that was too long for rpc_ip, and as many     *)
(* bytes of its MAC as the request's text had, are those of an item some   *)
(* client may send.  Of the end of a long address, and of the MAC bytes    *)
(* that were not read, nothing is claimed.                                 *)
StoredAsRequested ==
  \A b \in Tables :
    LET f == IF b \in Dirs THEN viewlist[b] ELSE replicalist IN
    \A k \in DOMAIN f : \E r \in Requests : \E i \in DOMAIN r.items :
      LET v == r.items[i].view IN
      /\ b \in TableOf(r.method) /\ ToInt(v.worker_id) = k
      /\ f[k].worker_id = v.worker_id /\ f[k].rpc_port = v.rpc_port
      /\ v.rpc_ip \notin LongIps => f[k].rpc_ip = v.rpc_ip
      /\ \A j \in DOMAIN v.mac : f[k].mac[j] = v.mac[j]

(* The views answered are the tables' entries, MAC addresses included      *)
(* ("prepare CurrentView data to send back").                              *)
AnswerShowsTheEntries ==
  \A c \in Clients : call[c].st = "answered" =>
    \A d \in Dirs : \A v \in call[c].answer.views[d] :
      ToInt(v.worker_id) \in DOMAIN viewlist[d]
        => v.mac = viewlist[d][ToInt(v.worker_id)].mac

(* With a worker that accepts everything, a call that fails without saying *)
(* why was one about nothing: AddReplicas and DeleteReplicas answer an     *)
(* empty list with succeed false and no fail_reason.  Any other failure    *)
(* has its reason, and a failed migration grants no quota.                 *)
SilentFailureIsEmpty ==
  \A c \in Clients :
    LET r == call[c].req  a == call[c].answer IN
    call[c].st = "answered" /\ r.method \notin ViewMethods /\ ~ a.succeed
    => (a.fail_reason = "" <=> r.items = <<>>) /\ a.quota = 0

----------------------------------------------------------------------------
(* Handler objects. *)

EventsOf(m, kinds) == {i \in DOMAIN cq : cq[i].method = m /\ cq[i].kind \in kinds}

(* No handler object is lost or deleted twice: those not deleted are the   *)
(* acceptors, those an event points at, and those whose Proceed runs.      *)
HandlersAccounted ==
  \A m \in Methods :
    allocated[m] = armed[m] + Cardinality(EventsOf(m, {"PROCESS", "FINISH"}))
                     + Cardinality({t \in RpcThreads : InCall(t) /\ Req(t).method = m})

(* Every thread that has entered its loop stands for one acceptor of every *)
(* method, waiting or just matched: no method becomes unreachable.         *)
AcceptorsReplenished ==
  \A m \in Methods :
    armed[m] + Cardinality(EventsOf(m, {"PROCESS"})) =
      Cardinality({t \in RpcThreads : pc[t] # "boot"})

----------------------------------------------------------------------------
(* Liveness. *)

(* Every call is answered: the polling loops end, whatever the calls of    *)
(* the other clients are.                                                  *)
EveryCallAnswered ==
  \A c \in Clients : call[c].st = "sent" ~> call[c].st = "answered"

=============================================================================
