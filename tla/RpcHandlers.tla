---------------------------- MODULE RpcHandlers ----------------------------
(***************************************************************************)
(* The Proceed methods of the handler classes in state PROCESS, after the  *)
(* new acceptor.  Each handler is a loop over the request's items: an item *)
(* is skipped, or thrown to the worker and applied when the reply says so. *)
(***************************************************************************)
EXTENDS RpcServer

(* The checks. *)

\* Faulty variant: the keys are looked up once, before the loop.
PresentAtStart(t, d) == ItemKey(t) \in snapshot[t][d]

Present(t, d) == ItemKey(t) \in DOMAIN viewlist[d]

\* Faulty variant: the ids received are all there, however many.
ListsContained(it) ==
  IF ~ Keys(it.outputs) \subseteq DOMAIN viewlist["output"] THEN "output contents"
  ELSE IF ~ Keys(it.inputs) \subseteq DOMAIN viewlist["input"] THEN "input contents"
  ELSE ""

\* compare received view with local view: the sizes, then each id received.
\* The outputs are compared last and their reason is the one that stays.
ListsObjection(it) ==
  IF \/ Len(it.inputs) # Cardinality(DOMAIN viewlist["input"])
     \/ Len(it.outputs) # Cardinality(DOMAIN viewlist["output"])
  THEN "size"
  ELSE IF ~ Keys(it.outputs) \subseteq DOMAIN viewlist["output"] THEN "output contents"
  ELSE IF ~ Keys(it.inputs) \subseteq DOMAIN viewlist["input"] THEN "input contents"
  ELSE ""

\* The comparisons with worker_id are between the whole uint64 and an int,
\* the look-ups in replicalist truncate the id first.
MigrationObjection(it) ==
  IF it.view.worker_id # MyId THEN "not the target" ELSE ListsObjection(it)

\* Faulty variants: one of the two tests on the id is missing.
AddReplicaAnyone(it) ==
  IF ToInt(it.view.worker_id) \in DOMAIN replicalist THEN "exists" ELSE ListsObjection(it)

AddReplicaTwice(it) ==
  IF it.view.worker_id = MyId THEN "myself" ELSE ListsObjection(it)

AddReplicaObjection(it) ==
  IF it.view.worker_id = MyId THEN "myself"
  ELSE IF ToInt(it.view.worker_id) \in DOMAIN replicalist THEN "exists"
  ELSE ListsObjection(it)

ReplicaObjection(it) ==
  IF it.view.worker_id = MyId THEN "myself"
  ELSE IF ToInt(it.view.worker_id) \notin DOMAIN replicalist THEN "does not exist"
  ELSE ""

QueryObjection(it) == IF it.view.worker_id # MyId THEN "not the target" ELSE ""

----------------------------------------------------------------------------
(* The view lists. *)

\* CurrentView: both tables, encoded at a stack address nobody chose.
CurrentView(addr) ==
  [NoAnswer EXCEPT !.views = [d \in Dirs |-> Encoded(addr, viewlist[d])]]

FinishWithViews(t) == \E addr \in Byte : Finish(t, CurrentView(addr))

KeepReason(t) == reply_[t].fail_reason

\* An accepted view is converted into an uninitialised Local_view: old is
\* what its MAC bytes held before.
AddView(t, d) ==
  \/ /\ Handling(t, "loop", AddMethod[d]) /\ MoreItems(t)
     /\ Present(t, d)
     /\ Skip(t, KeepReason(t))
  \/ /\ Handling(t, "loop", AddMethod[d]) /\ MoreItems(t)
     /\ ~ Present(t, d)
     /\ Throw(t, IdMsg(AddMethod[d], ItemKey(t), t), reply_[t])
  \/ /\ Handling(t, "wait", AddMethod[d])
     /\ GotReply(t)
     /\ \E old \in Mac :
          viewlist' = IF Accepted
                      THEN [viewlist EXCEPT ![d] =
                              MapInsert(@, ItemKey(t), view_rpc2local(old, TheItem(t).view))]
                      ELSE viewlist
     /\ UNCHANGED <<replicalist, reply_>>
  \/ /\ Handling(t, "loop", AddMethod[d]) /\ ~ MoreItems(t)
     /\ FinishWithViews(t)

AddInputView(t) == AddView(t, "input")

AddOutputView(t) == AddView(t, "output")

\* The iterator found before the wait is erased after it.
DeleteView(t, d) ==
  \/ /\ Handling(t, "loop", DeleteMethod[d]) /\ MoreItems(t)
     /\ ~ Present(t, d)
     /\ Skip(t, KeepReason(t))
  \/ /\ Handling(t, "loop", DeleteMethod[d]) /\ MoreItems(t)
     /\ Present(t, d)
     /\ Throw(t, IdMsg(DeleteMethod[d], ItemKey(t), t), reply_[t])
  \/ /\ Handling(t, "wait", DeleteMethod[d])
     /\ GotReply(t)
     /\ viewlist' = IF Accepted
                    THEN [viewlist EXCEPT ![d] = MapErase(@, ItemKey(t))]
                    ELSE viewlist
     /\ UNCHANGED <<replicalist, reply_>>
  \/ /\ Handling(t, "loop", DeleteMethod[d]) /\ ~ MoreItems(t)
     /\ FinishWithViews(t)

DeleteOutputView(t) == DeleteView(t, "output")

DeleteInputView(t) == DeleteView(t, "input")

----------------------------------------------------------------------------
(* Migration and replicas. *)

\* A request_msg with the target or replica and the two maps of views.
ListsMsg(t, quota) ==
  [action |-> Req(t).method, worker_id |-> TheItem(t).view.worker_id,
   inputs |-> Keys(TheItem(t).inputs), outputs |-> Keys(TheItem(t).outputs),
   quota |-> ToInt(quota), from |-> t]

\* The answer is settled before the message is thrown; what the worker
\* replies is only printed.
SetMigrationTarget(t) ==
  \/ /\ Handling(t, "loop", "SetMigrationTarget") /\ MoreItems(t)
     /\ MigrationObjection(TheItem(t)) # ""
     /\ Skip(t, MigrationObjection(TheItem(t)))
  \/ /\ Handling(t, "loop", "SetMigrationTarget") /\ MoreItems(t)
     /\ MigrationObjection(TheItem(t)) = ""
     /\ Throw(t, ListsMsg(t, Req(t).quota),
              [reply_[t] EXCEPT !.succeed = TRUE, !.quota = Req(t).quota])
  \/ /\ Handling(t, "wait", "SetMigrationTarget")
     /\ GotReply(t)
     /\ UNCHANGED <<viewlist, replicalist, reply_>>
  \/ /\ Handling(t, "loop", "SetMigrationTarget") /\ ~ MoreItems(t)
     /\ Finish(t, PlainAnswer(t))

\* Faulty variant: ok_flag is set by any reply.
AcknowledgeAny(t) == reply_' = [reply_ EXCEPT ![t].succeed = TRUE]

\* ok_flag, kept in reply_.succeed: one accepted item is enough.
Acknowledge(t) ==
  reply_' = IF Accepted
            THEN [reply_ EXCEPT ![t].succeed = TRUE] ELSE reply_

FinishWithReplicas(t) ==
  \E addr \in Byte :
    Finish(t, [PlainAnswer(t) EXCEPT !.replicas = Encoded(addr, replicalist)])

AddReplicas(t) ==
  \/ /\ Handling(t, "loop", "AddReplicas") /\ MoreItems(t)
     /\ AddReplicaObjection(TheItem(t)) # ""
     /\ Skip(t, AddReplicaObjection(TheItem(t)))
  \/ /\ Handling(t, "loop", "AddReplicas") /\ MoreItems(t)
     /\ AddReplicaObjection(TheItem(t)) = ""
     /\ Throw(t, ListsMsg(t, 0), reply_[t])
  \/ /\ Handling(t, "wait", "AddReplicas")
     /\ GotReply(t)
     /\ \E old \in Mac :
          replicalist' = IF Accepted
                         THEN MapInsert(replicalist, ItemKey(t),
                                        view_rpc2local(old, TheItem(t).view))
                         ELSE replicalist
     /\ Acknowledge(t)
     /\ UNCHANGED viewlist
  \/ /\ Handling(t, "loop", "AddReplicas") /\ ~ MoreItems(t)
     /\ FinishWithReplicas(t)

DeleteReplicas(t) ==
  \/ /\ Handling(t, "loop", "DeleteReplicas") /\ MoreItems(t)
     /\ ReplicaObjection(TheItem(t)) # ""
     /\ Skip(t, ReplicaObjection(TheItem(t)))
  \/ /\ Handling(t, "loop", "DeleteReplicas") /\ MoreItems(t)
     /\ ReplicaObjection(TheItem(t)) = ""
     /\ Throw(t, ListsMsg(t, 0), reply_[t])
  \/ /\ Handling(t, "wait", "DeleteReplicas")
     /\ GotReply(t)
     /\ replicalist' = IF Accepted
                       THEN MapErase(replicalist, ItemKey(t)) ELSE replicalist
     /\ Acknowledge(t)
     /\ UNCHANGED viewlist
  \/ /\ Handling(t, "loop", "DeleteReplicas") /\ ~ MoreItems(t)
     /\ FinishWithReplicas(t)

\* The id to erase is read back through the wrong member of the union.
Recover(t) ==
  \/ /\ Handling(t, "loop", "Recover") /\ MoreItems(t)
     /\ ReplicaObjection(TheItem(t)) # ""
     /\ Skip(t, ReplicaObjection(TheItem(t)))
  \/ /\ Handling(t, "loop", "Recover") /\ MoreItems(t)
     /\ ReplicaObjection(TheItem(t)) = ""
     /\ Throw(t, IdMsg("Recover", ItemKey(t), t), reply_[t])
  \/ /\ Handling(t, "wait", "Recover")
     /\ GotReply(t)
     /\ \E high \in {0, 1} :
          replicalist' = IF Accepted
                         THEN MapErase(replicalist, ToInt(UnionAsUint64(ItemKey(t), high)))
                         ELSE replicalist
     /\ Acknowledge(t)
     /\ UNCHANGED viewlist
  \/ /\ Handling(t, "loop", "Recover") /\ ~ MoreItems(t)
     /\ Finish(t, PlainAnswer(t))

----------------------------------------------------------------------------
(* Queries and the liveness check. *)

\* CopyFrom the worker's RuntimeInfo or RuntimeStat, through the pointer.
Query(t, m, succeed) ==
  \/ /\ Handling(t, "loop", m) /\ MoreItems(t)
     /\ QueryObjection(TheItem(t)) # ""
     /\ Skip(t, QueryObjection(TheItem(t)))
  \/ /\ Handling(t, "loop", m) /\ MoreItems(t)
     /\ QueryObjection(TheItem(t)) = ""
     /\ Throw(t, IdMsg(m, TheItem(t).view.worker_id, t), reply_[t])
  \/ /\ Handling(t, "wait", m)
     /\ GotReply(t)
     /\ reply_' = IF Accepted
                  THEN [reply_ EXCEPT ![t] = [NoPending EXCEPT !.succeed = succeed]]
                  ELSE reply_
     /\ UNCHANGED <<viewlist, replicalist>>
  \/ /\ Handling(t, "loop", m) /\ ~ MoreItems(t)
     /\ Finish(t, PlainAnswer(t))

QueryRuntimeInfo(t) == Query(t, "QueryRuntimeInfo", runtimeinfo)

QueryRuntimeStat(t) == Query(t, "QueryRuntimeStat", runtimestat)

LivenessCheck(t) ==
  /\ Handling(t, "loop", "LivenessCheck")
  /\ Finish(t, [PlainAnswer(t) EXCEPT !.succeed = TRUE])

Proceed(t) ==
  \/ AddInputView(t) \/ AddOutputView(t) \/ DeleteInputView(t) \/ DeleteOutputView(t)
  \/ SetMigrationTarget(t) \/ AddReplicas(t) \/ DeleteReplicas(t) \/ Recover(t)
  \/ QueryRuntimeInfo(t) \/ QueryRuntimeStat(t) \/ LivenessCheck(t)
============================================================================
