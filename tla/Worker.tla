------------------------------- MODULE Worker -------------------------------
(***************************************************************************)
(* The worker thread, child() in nfa_rpc_server.cc: it polls the request   *)
(* ring, handles one message and throws the reply.  The code accepts every *)
(* message (reply.reply=true, Verdicts = {TRUE}); the RPC handlers are     *)
(* written for a worker that may refuse, which is Verdicts = BOOLEAN.      *)
(***************************************************************************)
EXTENDS Rings

CONSTANT Verdicts     \* the values reply.reply can take

ASSUME VerdictsAssumption ==
  Verdicts \subseteq BOOLEAN /\ None \notin RequestMsg(RpcThreads)

VARIABLES
  child_request,   \* the message being handled, None between two polls
  runtimeinfo,     \* runtimeinfo.succeed; replies carry a pointer to it
  runtimestat,     \* runtimestat.succeed; likewise
  acknowledged     \* history: the keys the worker has accepted, per table

workerVars == <<child_request, runtimeinfo, runtimestat, acknowledged>>

Tables == Dirs \cup {"replica"}

WorkerTypeOK ==
  /\ child_request \in RequestMsg(RpcThreads) \cup {None}
  /\ runtimeinfo \in BOOLEAN /\ runtimestat \in BOOLEAN
  /\ acknowledged \in [Tables -> SUBSET Key]

WorkerInit ==
  /\ child_request = None
  /\ runtimeinfo = FALSE /\ runtimestat = FALSE
  /\ acknowledged = [b \in Tables |-> {}]

\* What the tables of keys, held, become when m is accepted.
Accept(m, held) ==
  LET k == ToInt(m.worker_id) IN
  [b \in Tables |->
     CASE b \in Dirs /\ m.action = AddMethod[b]     -> held[b] \cup {k}
       [] b \in Dirs /\ m.action = DeleteMethod[b]  -> held[b] \ {k}
       [] b = "replica" /\ m.action = "AddReplicas" -> held[b] \cup {k}
       [] b = "replica" /\ m.action \in {"DeleteReplicas", "Recover"}
                                                   -> held[b] \ {k}
       [] OTHER                                    -> held[b]]

\* reply is one variable for the whole loop; a query leaves its worker_id as
\* the message before it set it, which nobody reads: None.
ReplyTo(m, verdict) ==
  [tag |-> m.action,
   worker_id |-> IF m.action \in QueryMethods THEN None ELSE ToInt(m.worker_id),
   reply |-> verdict,
   from |-> m.from]

\* The poll that finds a message: it copies it out of the ring.
ChildTake(t) ==
  /\ child_request = None
  /\ TakeRequest(t)
  /\ child_request' = Head(rte_ring_request[t])
  /\ UNCHANGED <<rte_ring_reply, runtimeinfo, runtimestat, acknowledged>>

\* The switch on request.action and the reply.
ChildReply ==
  /\ child_request # None
  /\ runtimeinfo' = (runtimeinfo \/ child_request.action = "QueryRuntimeInfo")
  /\ runtimestat' = (runtimestat \/ child_request.action = "QueryRuntimeStat")
  /\ \E verdict \in Verdicts :
       /\ PutReply(ReplyTo(child_request, verdict))
       /\ acknowledged' = IF verdict THEN Accept(child_request, acknowledged)
                                      ELSE acknowledged
  /\ child_request' = None

child == ChildReply \/ \E t \in RpcThreads : ChildTake(t)
============================================================================
