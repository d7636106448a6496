----------------------------- MODULE RpcServer -----------------------------
(***************************************************************************)
(* The RPC server of a runtime: ServerImpl::HandleRpcs and the Proceed     *)
(* methods of the eleven handler classes.  A handler runs to the end on    *)
(* the thread that took its event from the completion queue; it gives up   *)
(* nothing while it waits for the worker's reply.  One step is the entry   *)
(* of Proceed, or one pass through a handler's loop up to the enqueue, or  *)
(* the taking of the reply, or the end of the call.                        *)
(***************************************************************************)
EXTENDS Worker, Grpc

VARIABLES
  viewlist,     \* viewlist_input and viewlist_output
  replicalist,
  pc,           \* per thread: where it is
  cur,          \* per thread: the client whose call it handles
  item,         \* per thread: the loop index of the handler
  reply_,       \* per thread: reply_ and ok_flag of the handler
  snapshot      \* history: the tables when the call began

serverVars == <<viewlist, replicalist, pc, cur, item, reply_, snapshot>>

Pending == [succeed : BOOLEAN, fail_reason : Reasons, quota : Quotas]

NoPending == [succeed |-> FALSE, fail_reason |-> "", quota |-> 0]

\* The key sets of the three tables.
TableKeys == [b \in Tables |-> IF b \in Dirs THEN DOMAIN viewlist[b] ELSE DOMAIN replicalist]

NoSnapshot == [b \in Tables |-> {}]

ServerTypeOK ==
  /\ DOMAIN viewlist = Dirs /\ \A d \in Dirs : IsViewMap(viewlist[d])
  /\ IsViewMap(replicalist)
  /\ pc \in [RpcThreads -> {"boot", "next", "loop", "wait"}]
  /\ cur \in [RpcThreads -> Clients \cup {None}]
  /\ item \in [RpcThreads -> Nat \ {0}]
  /\ reply_ \in [RpcThreads -> Pending]
  /\ snapshot \in [RpcThreads -> [Tables -> SUBSET Key]]
  /\ \A t \in RpcThreads : pc[t] \in {"loop", "wait"} => cur[t] \in Clients

ServerInit ==
  /\ viewlist = [d \in Dirs |-> EmptyMap]
  /\ replicalist = EmptyMap
  /\ pc = [t \in RpcThreads |-> "boot"]
  /\ cur = [t \in RpcThreads |-> None]
  /\ item = [t \in RpcThreads |-> 1]
  /\ reply_ = [t \in RpcThreads |-> NoPending]
  /\ snapshot = [t \in RpcThreads |-> NoSnapshot]

----------------------------------------------------------------------------
(* The event loop.                                                         *)

\* The eleven `new' at the start of HandleRpcs.
BootAcceptors(t) ==
  /\ pc[t] = "boot"
  /\ pc' = [pc EXCEPT ![t] = "next"]
  /\ armed' = [m \in Methods |-> armed[m] + 1]
  /\ allocated' = [m \in Methods |-> allocated[m] + 1]
  /\ UNCHANGED <<ringVars, call, cq, viewlist, replicalist, cur, item, reply_, snapshot>>

\* Faulty variant: the handler forgets the new acceptor.
NoNewAcceptor(m) == UNCHANGED <<armed, allocated>>

\* new X(...) in a handler: its constructor arms one more acceptor.
NewAcceptor(m) ==
  /\ armed' = [armed EXCEPT ![m] = @ + 1]
  /\ allocated' = [allocated EXCEPT ![m] = @ + 1]

\* Proceed in state PROCESS: first a new acceptor takes this one's place.
BeginCall(t) ==
  /\ pc[t] = "next"
  /\ cq # <<>> /\ Head(cq).kind = "PROCESS"
  /\ LET e == Head(cq) IN
       /\ cq' = Tail(cq)
       /\ NewAcceptor(e.method)
       /\ call' = [call EXCEPT ![e.client].st = "running"]
       /\ cur' = [cur EXCEPT ![t] = e.client]
  /\ pc' = [pc EXCEPT ![t] = "loop"]
  /\ snapshot' = [snapshot EXCEPT ![t] = TableKeys]
  /\ UNCHANGED <<ringVars, viewlist, replicalist, item, reply_>>

\* Faulty variant: the handler object is not deleted.
LeakCallData(t) ==
  /\ pc[t] = "next"
  /\ cq # <<>> /\ Head(cq).kind = "FINISH"
  /\ cq' = Tail(cq)
  /\ UNCHANGED <<ringVars, call, armed, allocated, serverVars>>

\* Proceed in state FINISH: delete this.
DeleteCallData(t) ==
  /\ pc[t] = "next"
  /\ cq # <<>> /\ Head(cq).kind = "FINISH"
  /\ cq' = Tail(cq)
  /\ allocated' = [allocated EXCEPT ![Head(cq).method] = @ - 1]
  /\ UNCHANGED <<ringVars, call, armed, serverVars>>

----------------------------------------------------------------------------
(* The steps the handlers share.                                           *)

Req(t) == call[cur[t]].req

Handling(t, where, method) == pc[t] = where /\ Req(t).method = method

MoreItems(t) == item[t] <= Len(Req(t).items)

TheItem(t) == Req(t).items[item[t]]

ItemKey(t) == ToInt(TheItem(t).view.worker_id)

\* Faulty variant: the objection is not written into the reply.
SkipSilently(t, why) ==
  /\ item' = [item EXCEPT ![t] = @ + 1]
  /\ UNCHANGED <<ringVars, grpcVars, viewlist, replicalist, pc, cur, reply_, snapshot>>

\* An item the handler does not take to the worker; why becomes fail_reason.
Skip(t, why) ==
  /\ reply_' = [reply_ EXCEPT ![t].fail_reason = why]
  /\ item' = [item EXCEPT ![t] = @ + 1]
  /\ UNCHANGED <<ringVars, grpcVars, viewlist, replicalist, pc, cur, snapshot>>

\* Faulty variant: the handler goes on without waiting for the reply.
ThrowWithoutWaiting(t, msg, pending) ==
  /\ ThrowRequest(t, msg)
  /\ item' = [item EXCEPT ![t] = @ + 1]
  /\ reply_' = [reply_ EXCEPT ![t] = pending]
  /\ UNCHANGED <<grpcVars, viewlist, replicalist, pc, cur, snapshot>>

\* Faulty variant: the enqueue fails, and its result is ignored as it is now.
ThrowLost(t, msg, pending) ==
  /\ pc' = [pc EXCEPT ![t] = "wait"]
  /\ reply_' = [reply_ EXCEPT ![t] = pending]
  /\ UNCHANGED <<ringVars, grpcVars, viewlist, replicalist, cur, item, snapshot>>

\* An item thrown to the request ring.
Throw(t, msg, pending) ==
  /\ ThrowRequest(t, msg)
  /\ pc' = [pc EXCEPT ![t] = "wait"]
  /\ reply_' = [reply_ EXCEPT ![t] = pending]
  /\ UNCHANGED <<grpcVars, viewlist, replicalist, cur, item, snapshot>>

\* The first reply the polling loop finds, whoever it is for.
GotReply(t) ==
  /\ TakeReply
  /\ pc' = [pc EXCEPT ![t] = "loop"]
  /\ item' = [item EXCEPT ![t] = @ + 1]
  /\ UNCHANGED <<grpcVars, cur, snapshot>>

\* Faulty variant: the handler does not look at rep_msg.reply.
AcceptedAlways == TRUE

\* rep_msg.reply
Accepted == Head(rte_ring_reply).reply

\* Faulty variant: status_ stays PROCESS, so the completion runs Proceed anew.
FinishUnmarked(t, answer) ==
  /\ call' = [call EXCEPT ![cur[t]].st = "answered", ![cur[t]].answer = answer]
  /\ cq' = Append(cq, [kind |-> "PROCESS", client |-> cur[t], method |-> Req(t).method])
  /\ pc' = [pc EXCEPT ![t] = "next"]
  /\ cur' = [cur EXCEPT ![t] = None]
  /\ item' = [item EXCEPT ![t] = 1]
  /\ reply_' = [reply_ EXCEPT ![t] = NoPending]
  /\ snapshot' = [snapshot EXCEPT ![t] = NoSnapshot]
  /\ UNCHANGED <<ringVars, armed, allocated, viewlist, replicalist>>

\* The handler's last lines: the answer goes out, and its completion comes
\* back through the completion queue.
Finish(t, answer) ==
  /\ call' = [call EXCEPT ![cur[t]].st = "answered", ![cur[t]].answer = answer]
  /\ cq' = Append(cq, [kind |-> "FINISH", client |-> cur[t], method |-> Req(t).method])
  /\ pc' = [pc EXCEPT ![t] = "next"]
  /\ cur' = [cur EXCEPT ![t] = None]
  /\ item' = [item EXCEPT ![t] = 1]
  /\ reply_' = [reply_ EXCEPT ![t] = NoPending]
  /\ snapshot' = [snapshot EXCEPT ![t] = NoSnapshot]
  /\ UNCHANGED <<ringVars, armed, allocated, viewlist, replicalist>>

\* An answer made of reply_ alone.
PlainAnswer(t) ==
  [succeed |-> reply_[t].succeed, fail_reason |-> reply_[t].fail_reason,
   quota |-> reply_[t].quota, views |-> [d \in Dirs |-> {}], replicas |-> {}]
============================================================================
