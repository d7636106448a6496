---------------------------- MODULE NfaCallProofs ----------------------------
(***************************************************************************)
(* What a call does and what its client is told: the theorems about the    *)
(* tables' contents, the answers, and the handler objects, and that with   *)
(* the one RPC thread of main all of it is a behaviour of ControlPlane:    *)
(* the initial state is one of the control plane, and every step is one of *)
(* its steps or leaves what it shows as it is.                             *)
(***************************************************************************)
EXTENDS NfaRefinement, NfaRuntimeProofs

----------------------------------------------------------------------------
(* What a step of a handler does, beyond the shape of HandlerStep. *)

Table(b) == IF b \in Dirs THEN viewlist[b] ELSE replicalist

\* The item t is at does not pass its handler's checks.
Objects(t) ==
  LET m == Req(t).method  it == TheItem(t) IN
  \/ \E d \in Dirs : \/ m = AddMethod[d] /\ Present(t, d)
                     \/ m = DeleteMethod[d] /\ ~ Present(t, d)
  \/ m = "SetMigrationTarget" /\ MigrationObjection(it) # ""
  \/ m = "AddReplicas" /\ AddReplicaObjection(it) # ""
  \/ m \in {"DeleteReplicas", "Recover"} /\ ReplicaObjection(it) # ""
  \/ m \in QueryMethods /\ QueryObjection(it) # ""

\* Only the handlers of views skip an item without a reason of their own.
SkipEffect(t) ==
  /\ pc[t] = "loop" /\ MoreItems(t) /\ Objects(t)
  /\ \E why \in Reasons : /\ Skip(t, why)
                          /\ Req(t).method \notin ViewMethods => why # ""

\* reply_ of a handler once it has thrown its item.
Settled(t) ==
  IF Req(t).method = "SetMigrationTarget"
  THEN [reply_[t] EXCEPT !.succeed = TRUE, !.quota = Req(t).quota]
  ELSE reply_[t]

ThrowEffect(t) ==
  /\ pc[t] = "loop" /\ CheckHolds(t) /\ ~ Objects(t) /\ Req(t).method # "LivenessCheck"
  /\ Throw(t, Thrown(t), Settled(t))

\* reply_ of a handler once it has taken the reply.
Told(t) ==
  LET m == Req(t).method IN
  IF ~ Accepted THEN reply_[t]
  ELSE IF m \in ReplicaMethods THEN [reply_[t] EXCEPT !.succeed = TRUE]
  ELSE IF m = "QueryRuntimeInfo" THEN [NoPending EXCEPT !.succeed = runtimeinfo]
  ELSE IF m = "QueryRuntimeStat" THEN [NoPending EXCEPT !.succeed = runtimestat]
  ELSE reply_[t]

\* An entry is what it was, or the converted view of the item.
EntryEffect(t, b, k) ==
  \/ k \in DOMAIN Table(b) /\ Table(b)'[k] = Table(b)[k]
  \/ /\ k = ItemKey(t) /\ b \in TableOf(Req(t).method)
     /\ \E old \in Mac : Table(b)'[k] = view_rpc2local(old, TheItem(t).view)

TakeEffect(t) ==
  /\ TakeStep(t) /\ MoreItems(t) /\ Req(t).method # "LivenessCheck"
  /\ reply_' = [reply_ EXCEPT ![t] = Told(t)]
  /\ \A b \in Tables : \A k \in DOMAIN Table(b)' : EntryEffect(t, b, k)

AnswerOf(t, addr) ==
  LET m == Req(t).method IN
  IF m \in ViewMethods THEN CurrentView(addr)
  ELSE [PlainAnswer(t) EXCEPT
          !.succeed = @ \/ m = "LivenessCheck",
          !.replicas = IF m \in {"AddReplicas", "DeleteReplicas"}
                       THEN Encoded(addr, replicalist) ELSE {}]

FinishEffect(t) ==
  /\ pc[t] = "loop"
  /\ ~ MoreItems(t) \/ Req(t).method = "LivenessCheck"
  /\ \E addr \in Byte : AnswerOf(t, addr) \in Answer /\ Finish(t, AnswerOf(t, addr))

\* Which check decides, method by method.
LEMMA ObjectsToAdd ==
  ASSUME NEW t \in RpcThreads, NEW d \in Dirs, Req(t).method = AddMethod[d]
  PROVE  Objects(t) <=> Present(t, d)
  BY MethodNames DEF Objects, Dirs, QueryMethods

LEMMA ObjectsToDelete ==
  ASSUME NEW t \in RpcThreads, NEW d \in Dirs, Req(t).method = DeleteMethod[d]
  PROVE  Objects(t) <=> ~ Present(t, d)
  BY MethodNames DEF Objects, Dirs, QueryMethods

LEMMA ObjectsByMethod ==
  ASSUME NEW t \in RpcThreads
  PROVE  LET m == Req(t).method  it == TheItem(t) IN
         /\ m = "SetMigrationTarget" => (Objects(t) <=> MigrationObjection(it) # "")
         /\ m = "AddReplicas" => (Objects(t) <=> AddReplicaObjection(it) # "")
         /\ m \in {"DeleteReplicas", "Recover"} => (Objects(t) <=> ReplicaObjection(it) # "")
         /\ m \in QueryMethods => (Objects(t) <=> QueryObjection(it) # "")
  BY MethodNames DEF Objects, Dirs, QueryMethods

LEMMA MethodKinds ==
  /\ ViewMethods = {"AddInputView", "AddOutputView", "DeleteInputView", "DeleteOutputView"}
  /\ \A d \in Dirs : AddMethod[d] \in ViewMethods /\ DeleteMethod[d] \in ViewMethods
  BY MethodNames DEF ViewMethods, Dirs

\* A thrown item, whatever the handler.
LEMMA ThrownEffect ==
  ASSUME TypeInv, NEW t \in RpcThreads, HandlerStep(t), pc[t] = "loop", pc'[t] = "wait",
         ~ Objects(t), Req(t).method # "LivenessCheck", reply_' = [reply_ EXCEPT ![t] = Settled(t)]
  PROVE  ThrowEffect(t)
  <1>1. pc \in [RpcThreads -> {"boot", "next", "loop", "wait"}]
    BY DEF TypeInv, TypeOK, ServerTypeOK
  <1>2. ThrowStep(t)
    BY <1>1 DEF HandlerStep, SkipStep, Skip, TakeStep, FinishStep, Finish
  <1> QED BY <1>2 DEF ThrowStep, ThrowEffect, Throw

LEMMA LoopViews ==
  ASSUME TypeInv, NEW t \in RpcThreads, pc[t] = "loop", NEW d \in Dirs,
         AddView(t, d) \/ DeleteView(t, d)
  PROVE  SkipEffect(t) \/ ThrowEffect(t) \/ FinishEffect(t)
  <1>0. /\ TypeOK /\ HandlerStep(t)
        /\ pc \in [RpcThreads -> {"boot", "next", "loop", "wait"}]
    BY AddViewSteps, DeleteViewSteps DEF TypeInv, TypeOK, ServerTypeOK
  <1>1. Req(t).method \in {AddMethod[d], DeleteMethod[d]} /\ Req(t).method \in ViewMethods
    BY MethodKinds DEF AddView, DeleteView, Handling
  <1>2. CASE MoreItems(t) /\ Objects(t) /\ Skip(t, KeepReason(t))
    BY <1>0, <1>1, <1>2, KeepReasonType DEF SkipEffect
  <1>3. CASE \E msg : ~ Objects(t) /\ Throw(t, msg, reply_[t])
    <2>1. pc'[t] = "wait" /\ reply_' = [reply_ EXCEPT ![t] = Settled(t)]
      BY <1>0, <1>1, <1>3, MethodKinds DEF Throw, Settled
    <2> QED BY <1>0, <1>1, <1>3, <2>1, MethodKinds, ThrownEffect
  <1>4. CASE ~ MoreItems(t) /\ FinishWithViews(t)
    <2>1. PICK addr \in Byte : Finish(t, CurrentView(addr))
      BY <1>4 DEF FinishWithViews
    <2>2. AnswerOf(t, addr) = CurrentView(addr) /\ CurrentView(addr) \in Answer
      BY <1>0, <1>1, CurrentViewType DEF AnswerOf
    <2> QED BY <1>4, <2>1, <2>2 DEF FinishEffect
  <1>5. CASE AddView(t, d)
    <2>1. Req(t).method = AddMethod[d]
      BY <1>5 DEF AddView, Handling
    <2>2. Objects(t) <=> Present(t, d)
      BY <2>1, ObjectsToAdd
    <2>3. \/ MoreItems(t) /\ Objects(t) /\ Skip(t, KeepReason(t))
          \/ ~ Objects(t) /\ Throw(t, IdMsg(AddMethod[d], ItemKey(t), t), reply_[t])
          \/ ~ MoreItems(t) /\ FinishWithViews(t)
      BY <1>5, <2>2 DEF AddView, Handling
    <2> QED BY <1>2, <1>3, <1>4, <2>3
  <1>6. CASE DeleteView(t, d)
    <2>1. Req(t).method = DeleteMethod[d]
      BY <1>6 DEF DeleteView, Handling
    <2>2. Objects(t) <=> ~ Present(t, d)
      BY <2>1, ObjectsToDelete
    <2>3. \/ MoreItems(t) /\ Objects(t) /\ Skip(t, KeepReason(t))
          \/ ~ Objects(t) /\ Throw(t, IdMsg(DeleteMethod[d], ItemKey(t), t), reply_[t])
          \/ ~ MoreItems(t) /\ FinishWithViews(t)
      BY <1>6, <2>2 DEF DeleteView, Handling
    <2> QED BY <1>2, <1>3, <1>4, <2>3
  <1> QED BY <1>5, <1>6

\* The other handlers: what they have in common.
LEMMA LoopOthers ==
  ASSUME TypeInv, NEW t \in RpcThreads, pc[t] = "loop", HandlerStep(t),
         Req(t).method \in Methods \ ViewMethods,
         \/ \E why \in Reasons \ {""} : MoreItems(t) /\ Objects(t) /\ Skip(t, why)
         \/ \E msg : /\ ~ Objects(t) /\ Req(t).method # "LivenessCheck"
                     /\ Throw(t, msg, Settled(t))
         \/ /\ ~ MoreItems(t) \/ Req(t).method = "LivenessCheck"
            /\ \E addr \in Byte : Finish(t, AnswerOf(t, addr))
  PROVE  SkipEffect(t) \/ ThrowEffect(t) \/ FinishEffect(t)
  <1>0. /\ TypeOK /\ PlainAnswer(t) \in Answer /\ IsViewMap(replicalist)
        /\ pc \in [RpcThreads -> {"boot", "next", "loop", "wait"}]
    BY PlainAnswerType DEF TypeInv, TypeOK, ServerTypeOK
  <1>1. CASE \E why \in Reasons \ {""} : MoreItems(t) /\ Objects(t) /\ Skip(t, why)
    BY <1>1 DEF SkipEffect
  <1>2. CASE \E msg : /\ ~ Objects(t) /\ Req(t).method # "LivenessCheck"
                      /\ Throw(t, msg, Settled(t))
    BY <1>0, <1>2, ThrownEffect DEF Throw
  <1>3. ASSUME NEW addr \in Byte PROVE AnswerOf(t, addr) \in Answer
    <2>1. Encoded(addr, replicalist) \in SUBSET AnsweredView
      BY <1>0, EncodedType
    <2> QED BY <1>0, <2>1 DEF AnswerOf, Answer
  <1> QED BY <1>1, <1>2, <1>3 DEF FinishEffect
\* The answers of the handlers that do not show the views.
LEMMA OtherAnswers ==
  ASSUME TypeInv, NEW t \in RpcThreads, Req(t).method \notin ViewMethods, NEW addr \in Byte
  PROVE  LET m == Req(t).method  a == AnswerOf(t, addr)  p == PlainAnswer(t) IN
         /\ m = "LivenessCheck" => a = [p EXCEPT !.succeed = TRUE]
         /\ m \in {"AddReplicas", "DeleteReplicas"}
              => a = [p EXCEPT !.replicas = Encoded(addr, replicalist)]
         /\ m \notin {"LivenessCheck", "AddReplicas", "DeleteReplicas"} => a = p
  <1>1. reply_[t].succeed \in BOOLEAN
    BY DEF TypeInv, TypeOK, ServerTypeOK, Pending
  <1> DEFINE m == Req(t).method
             p == PlainAnswer(t)
             shown == IF m \in {"AddReplicas", "DeleteReplicas"}
                      THEN Encoded(addr, replicalist) ELSE {}
  <1>2. /\ p.succeed = reply_[t].succeed /\ p.replicas = {}
        /\ p = [succeed |-> p.succeed, fail_reason |-> p.fail_reason, quota |-> p.quota,
                views |-> p.views, replicas |-> p.replicas]
    BY DEF PlainAnswer
  <1>3. AnswerOf(t, addr) = [p EXCEPT !.succeed = @ \/ m = "LivenessCheck", !.replicas = shown]
    BY DEF AnswerOf
  <1>4. CASE m = "LivenessCheck"
    BY <1>2, <1>3, <1>4
  <1>5. CASE m # "LivenessCheck"
    <2>1. (p.succeed \/ m = "LivenessCheck") = p.succeed
      BY <1>1, <1>2, <1>5
    <2> QED BY <1>2, <1>3, <1>5, <2>1
  <1> QED BY <1>4, <1>5

LEMMA ByteAddress == 0 \in Byte
  BY ConstantsAssumption DEF Byte

LEMMA LoopMigration ==
  ASSUME TypeInv, NEW t \in RpcThreads, pc[t] = "loop", SetMigrationTarget(t)
  PROVE  SkipEffect(t) \/ ThrowEffect(t) \/ FinishEffect(t)
  <1>1. HandlerStep(t) /\ Req(t).method = "SetMigrationTarget" /\ Req(t).method \in Methods \ ViewMethods
    BY MigrationSteps, MethodNames, MethodKinds DEF SetMigrationTarget, Handling
  <1>2. Objects(t) <=> MigrationObjection(TheItem(t)) # ""
    BY <1>1, ObjectsByMethod
  <1>3. MigrationObjection(TheItem(t)) \in Reasons
    BY ObjectionTypes
  <1>4. \A addr \in Byte : AnswerOf(t, addr) = PlainAnswer(t)
    BY <1>1, OtherAnswers DEF QueryMethods
  <1>5. \/ MoreItems(t) /\ Objects(t) /\ Skip(t, MigrationObjection(TheItem(t)))
        \/ \E msg : ~ Objects(t) /\ Throw(t, msg, Settled(t))
        \/ ~ MoreItems(t) /\ \E addr \in Byte : Finish(t, AnswerOf(t, addr))
    BY <1>1, <1>2, <1>4, ByteAddress DEF SetMigrationTarget, Settled, Handling, FinishWithReplicas
  <1> QED BY <1>1, <1>2, <1>3, <1>5, LoopOthers

LEMMA LoopAddReplicas ==
  ASSUME TypeInv, NEW t \in RpcThreads, pc[t] = "loop", AddReplicas(t)
  PROVE  SkipEffect(t) \/ ThrowEffect(t) \/ FinishEffect(t)
  <1>1. HandlerStep(t) /\ Req(t).method = "AddReplicas" /\ Req(t).method \in Methods \ ViewMethods
    BY AddReplicasSteps, MethodNames, MethodKinds DEF AddReplicas, Handling
  <1>2. Objects(t) <=> AddReplicaObjection(TheItem(t)) # ""
    BY <1>1, ObjectsByMethod
  <1>3. AddReplicaObjection(TheItem(t)) \in Reasons
    BY ObjectionTypes
  <1>4. \A addr \in Byte : AnswerOf(t, addr) = [PlainAnswer(t) EXCEPT !.replicas = Encoded(addr, replicalist)]
    BY <1>1, OtherAnswers DEF QueryMethods
  <1>5. \/ MoreItems(t) /\ Objects(t) /\ Skip(t, AddReplicaObjection(TheItem(t)))
        \/ \E msg : ~ Objects(t) /\ Throw(t, msg, Settled(t))
        \/ ~ MoreItems(t) /\ \E addr \in Byte : Finish(t, AnswerOf(t, addr))
    BY <1>1, <1>2, <1>4, ByteAddress DEF AddReplicas, Settled, Handling, FinishWithReplicas
  <1> QED BY <1>1, <1>2, <1>3, <1>5, LoopOthers

LEMMA LoopDeleteReplicas ==
  ASSUME TypeInv, NEW t \in RpcThreads, pc[t] = "loop", DeleteReplicas(t)
  PROVE  SkipEffect(t) \/ ThrowEffect(t) \/ FinishEffect(t)
  <1>1. HandlerStep(t) /\ Req(t).method = "DeleteReplicas" /\ Req(t).method \in Methods \ ViewMethods
    BY DeleteReplicasSteps, MethodNames, MethodKinds DEF DeleteReplicas, Handling
  <1>2. Objects(t) <=> ReplicaObjection(TheItem(t)) # ""
    BY <1>1, ObjectsByMethod
  <1>3. ReplicaObjection(TheItem(t)) \in Reasons
    BY ObjectionTypes
  <1>4. \A addr \in Byte : AnswerOf(t, addr) = [PlainAnswer(t) EXCEPT !.replicas = Encoded(addr, replicalist)]
    BY <1>1, OtherAnswers DEF QueryMethods
  <1>5. \/ MoreItems(t) /\ Objects(t) /\ Skip(t, ReplicaObjection(TheItem(t)))
        \/ \E msg : ~ Objects(t) /\ Throw(t, msg, Settled(t))
        \/ ~ MoreItems(t) /\ \E addr \in Byte : Finish(t, AnswerOf(t, addr))
    BY <1>1, <1>2, <1>4, ByteAddress DEF DeleteReplicas, Settled, Handling, FinishWithReplicas
  <1> QED BY <1>1, <1>2, <1>3, <1>5, LoopOthers

LEMMA LoopRecover ==
  ASSUME TypeInv, NEW t \in RpcThreads, pc[t] = "loop", Recover(t)
  PROVE  SkipEffect(t) \/ ThrowEffect(t) \/ FinishEffect(t)
  <1>1. HandlerStep(t) /\ Req(t).method = "Recover" /\ Req(t).method \in Methods \ ViewMethods
    BY RecoverSteps, MethodNames, MethodKinds DEF Recover, Handling
  <1>2. Objects(t) <=> ReplicaObjection(TheItem(t)) # ""
    BY <1>1, ObjectsByMethod
  <1>3. ReplicaObjection(TheItem(t)) \in Reasons
    BY ObjectionTypes
  <1>4. \A addr \in Byte : AnswerOf(t, addr) = PlainAnswer(t)
    BY <1>1, OtherAnswers DEF QueryMethods
  <1>5. \/ MoreItems(t) /\ Objects(t) /\ Skip(t, ReplicaObjection(TheItem(t)))
        \/ \E msg : ~ Objects(t) /\ Throw(t, msg, Settled(t))
        \/ ~ MoreItems(t) /\ \E addr \in Byte : Finish(t, AnswerOf(t, addr))
    BY <1>1, <1>2, <1>4, ByteAddress DEF Recover, Settled, Handling, FinishWithReplicas
  <1> QED BY <1>1, <1>2, <1>3, <1>5, LoopOthers

LEMMA LoopQuery ==
  ASSUME TypeInv, NEW t \in RpcThreads, pc[t] = "loop", NEW m \in QueryMethods,
         NEW succeed \in BOOLEAN, Query(t, m, succeed)
  PROVE  SkipEffect(t) \/ ThrowEffect(t) \/ FinishEffect(t)
  <1>0. Req(t).method = m /\ HandlerStep(t)
    BY QuerySteps DEF Query, Handling
  <1>1. /\ HandlerStep(t) /\ Req(t).method = m /\ Req(t).method \in Methods \ ViewMethods
        /\ m \notin {"LivenessCheck", "SetMigrationTarget", "AddReplicas", "DeleteReplicas"}
    BY <1>0, MethodNames, MethodKinds DEF QueryMethods
  <1>2. Objects(t) <=> QueryObjection(TheItem(t)) # ""
    BY <1>1, ObjectsByMethod
  <1>3. QueryObjection(TheItem(t)) \in Reasons
    BY ObjectionTypes
  <1>4. \A addr \in Byte : AnswerOf(t, addr) = PlainAnswer(t)
    BY <1>1, OtherAnswers DEF QueryMethods
  <1>5. \/ MoreItems(t) /\ Objects(t) /\ Skip(t, QueryObjection(TheItem(t)))
        \/ \E msg : ~ Objects(t) /\ Throw(t, msg, Settled(t))
        \/ ~ MoreItems(t) /\ \E addr \in Byte : Finish(t, AnswerOf(t, addr))
    BY <1>1, <1>2, <1>4, ByteAddress DEF Query, Settled, Handling, FinishWithReplicas
  <1> QED BY <1>1, <1>2, <1>3, <1>5, LoopOthers

LEMMA LoopEffects ==
  ASSUME TypeInv, NEW t \in RpcThreads, pc[t] = "loop", Proceed(t)
  PROVE  SkipEffect(t) \/ ThrowEffect(t) \/ FinishEffect(t)
  <1>0. runtimeinfo \in BOOLEAN /\ runtimestat \in BOOLEAN
    BY DEF TypeInv, TypeOK, WorkerTypeOK
  <1>1. CASE \E d \in Dirs : AddView(t, d) \/ DeleteView(t, d)
    BY <1>1, LoopViews
  <1>2. CASE QueryRuntimeInfo(t) \/ QueryRuntimeStat(t)
    BY <1>0, <1>2, LoopQuery DEF QueryRuntimeInfo, QueryRuntimeStat, QueryMethods
  <1>3. CASE LivenessCheck(t)
    <2>1. Req(t).method = "LivenessCheck" /\ HandlerStep(t)
      BY <1>3, ProceedSteps DEF LivenessCheck, Handling, Proceed
    <2>2. \A addr \in Byte : AnswerOf(t, addr) = [PlainAnswer(t) EXCEPT !.succeed = TRUE]
      BY <2>1, MethodKinds, OtherAnswers
    <2>3. Req(t).method \in Methods \ ViewMethods
      BY <2>1, MethodNames, MethodKinds
    <2> QED BY <1>3, <2>1, <2>2, <2>3, ByteAddress, LoopOthers DEF LivenessCheck
  <1> QED BY <1>1, <1>2, <1>3, LoopMigration, LoopAddReplicas, LoopDeleteReplicas, LoopRecover
          DEF Proceed, AddInputView, AddOutputView, DeleteInputView, DeleteOutputView, Dirs

\* Taking a reply: what becomes of reply_ and of the entries of the tables.
TakeDetail(t) ==
  /\ reply_' = [reply_ EXCEPT ![t] = Told(t)]
  /\ \A b \in Tables : \A k \in DOMAIN Table(b)' : EntryEffect(t, b, k)

LEMMA EntriesKept ==
  ASSUME NEW t \in RpcThreads, NEW b \in Tables, UNCHANGED Table(b)
  PROVE  \A k \in DOMAIN Table(b)' : EntryEffect(t, b, k)
  BY DEF EntryEffect

LEMMA EntriesInserted ==
  ASSUME NEW t \in RpcThreads, NEW b \in Tables, b \in TableOf(Req(t).method), NEW old \in Mac,
         Table(b)' = MapInsert(Table(b), ItemKey(t), view_rpc2local(old, TheItem(t).view))
  PROVE  \A k \in DOMAIN Table(b)' : EntryEffect(t, b, k)
  BY DEF EntryEffect, MapInsert

LEMMA EntriesErased ==
  ASSUME NEW t \in RpcThreads, NEW b \in Tables, NEW x,
         Table(b)' = MapErase(Table(b), x)
  PROVE  \A k \in DOMAIN Table(b)' : EntryEffect(t, b, k)
  BY DEF EntryEffect, MapErase

LEMMA ToldViews ==
  ASSUME TypeInv, NEW t \in RpcThreads, NEW d \in Dirs, pc[t] = "wait",
         AddView(t, d) \/ DeleteView(t, d)
  PROVE  TakeDetail(t)
  <1>0. DOMAIN viewlist = Dirs /\ reply_ = [reply_ EXCEPT ![t] = reply_[t]]
    BY DEF TypeInv, TypeOK, ServerTypeOK
  <1>1. /\ Req(t).method \in {AddMethod[d], DeleteMethod[d]} /\ UNCHANGED <<replicalist, reply_>>
        /\ Req(t).method \notin ReplicaMethods \cup QueryMethods
    BY MethodNames DEF AddView, DeleteView, Handling, Dirs, ReplicaMethods, QueryMethods
  <1>2. reply_' = [reply_ EXCEPT ![t] = Told(t)]
    BY <1>0, <1>1 DEF Told, QueryMethods
  <1>3. d \in TableOf(Req(t).method)
    <2>1. Req(t).method = AddMethod[d] \/ Req(t).method = DeleteMethod[d]
      BY <1>1
    <2> QED BY <2>1 DEF TableOf
  <1>4. ASSUME NEW b \in Tables PROVE \A k \in DOMAIN Table(b)' : EntryEffect(t, b, k)
    <2>1. CASE UNCHANGED Table(b)
      BY <2>1, EntriesKept
    <2>2. CASE AddView(t, d) /\ Accepted /\ b = d
      <3>1. PICK old \in Mac :
              viewlist' = [viewlist EXCEPT ![d] =
                             MapInsert(@, ItemKey(t), view_rpc2local(old, TheItem(t).view))]
        BY <2>2 DEF AddView, Handling
      <3>2. Table(b)' = MapInsert(Table(b), ItemKey(t), view_rpc2local(old, TheItem(t).view))
        BY <1>0, <2>2, <3>1 DEF Table
      <3> QED BY <1>3, <2>2, <3>2, EntriesInserted
    <2>3. CASE DeleteView(t, d) /\ Accepted /\ b = d
      <3>1. viewlist' = [viewlist EXCEPT ![d] = MapErase(@, ItemKey(t))]
        BY <2>3 DEF DeleteView, Handling
      <3>2. Table(b)' = MapErase(Table(b), ItemKey(t))
        BY <1>0, <2>3, <3>1 DEF Table
      <3> QED BY <3>2, EntriesErased
    <2>4. UNCHANGED Table(b) \/ (b = d /\ Accepted)
      <3>1. CASE b \notin Dirs
        BY <1>1, <3>1 DEF Table
      <3>2. CASE ~ Accepted
        BY <1>1, <3>2 DEF AddView, DeleteView, Handling, Table
      <3>3. CASE b \in Dirs /\ b # d /\ Accepted
        <4>1. \E f : viewlist' = [viewlist EXCEPT ![d] = f]
          BY <3>3 DEF AddView, DeleteView, Handling
        <4> QED BY <1>0, <3>3, <4>1 DEF Table
      <3> QED BY <3>1, <3>2, <3>3
    <2> QED BY <2>1, <2>2, <2>3, <2>4
  <1> QED BY <1>2, <1>4 DEF TakeDetail

LEMMA ToldReplicas ==
  ASSUME TypeInv, NEW t \in RpcThreads, pc[t] = "wait",
         AddReplicas(t) \/ DeleteReplicas(t) \/ Recover(t)
  PROVE  TakeDetail(t)
  <1>0. reply_ = [reply_ EXCEPT ![t] = reply_[t]]
    BY DEF TypeInv, TypeOK, ServerTypeOK
  <1>1. Req(t).method \in ReplicaMethods /\ UNCHANGED viewlist /\ Acknowledge(t)
    BY DEF AddReplicas, DeleteReplicas, Recover, Handling, ReplicaMethods
  <1>2. reply_' = [reply_ EXCEPT ![t] = Told(t)]
    BY <1>0, <1>1 DEF Told, Acknowledge
  <1>3. "replica" \in TableOf(Req(t).method) /\ "replica" \notin Dirs
    BY <1>1 DEF TableOf, Dirs
  <1>4. ASSUME NEW b \in Tables PROVE \A k \in DOMAIN Table(b)' : EntryEffect(t, b, k)
    <2>1. CASE UNCHANGED Table(b)
      BY <2>1, EntriesKept
    <2>2. CASE b = "replica" /\ Accepted /\ AddReplicas(t)
      <3>1. PICK old \in Mac :
              replicalist' = MapInsert(replicalist, ItemKey(t),
                                       view_rpc2local(old, TheItem(t).view))
        BY <2>2 DEF AddReplicas, Handling
      <3> QED BY <1>3, <2>2, <3>1, EntriesInserted DEF Table
    <2>3. CASE b = "replica" /\ Accepted /\ (DeleteReplicas(t) \/ Recover(t))
      <3>1. \E x : replicalist' = MapErase(replicalist, x)
        BY <2>3 DEF DeleteReplicas, Recover, Handling
      <3>2. \E x : Table(b)' = MapErase(Table(b), x)
        BY <1>3, <2>3, <3>1 DEF Table
      <3> QED BY <3>2, EntriesErased
    <2>4. UNCHANGED Table(b) \/ (b = "replica" /\ Accepted)
      <3>1. CASE b \in Dirs
        BY <1>1, <3>1 DEF Table
      <3>2. CASE b \notin Dirs /\ ~ Accepted
        BY <3>2 DEF AddReplicas, DeleteReplicas, Recover, Handling, Table
      <3> QED BY <3>1, <3>2 DEF Tables
    <2> QED BY <2>1, <2>2, <2>3, <2>4
  <1> QED BY <1>2, <1>4 DEF TakeDetail

LEMMA ToldOthers ==
  ASSUME TypeInv, NEW t \in RpcThreads, pc[t] = "wait",
         SetMigrationTarget(t) \/ QueryRuntimeInfo(t) \/ QueryRuntimeStat(t)
  PROVE  TakeDetail(t)
  <1>0. reply_ = [reply_ EXCEPT ![t] = reply_[t]]
    BY DEF TypeInv, TypeOK, ServerTypeOK
  <1>1. UNCHANGED <<viewlist, replicalist>> /\ Req(t).method \notin ReplicaMethods
    BY DEF SetMigrationTarget, QueryRuntimeInfo, QueryRuntimeStat, Query, Handling, ReplicaMethods
  <1>2. reply_' = [reply_ EXCEPT ![t] = Told(t)]
    <2>1. CASE SetMigrationTarget(t)
      BY <1>0, <1>1, <2>1 DEF SetMigrationTarget, Handling, Told
    <2>2. CASE QueryRuntimeInfo(t)
      BY <1>0, <1>1, <2>2 DEF QueryRuntimeInfo, Query, Handling, Told
    <2>3. CASE QueryRuntimeStat(t)
      BY <1>0, <1>1, <2>3 DEF QueryRuntimeStat, Query, Handling, Told
    <2> QED BY <2>1, <2>2, <2>3
  <1>3. \A b \in Tables : UNCHANGED Table(b)
    BY <1>1 DEF Table
  <1> QED BY <1>2, <1>3, EntriesKept DEF TakeDetail

LEMMA WaitEffects ==
  ASSUME TypeInv, NEW t \in RpcThreads, pc[t] = "wait", Proceed(t)
  PROVE  TakeEffect(t)
  <1>1. TakeStep(t) /\ MoreItems(t)
    BY ProceedSteps DEF HandlerStep, SkipStep, ThrowStep, FinishStep, TypeInv, WaitingHasItem
  <1>2. ~ LivenessCheck(t) /\ Req(t).method # "LivenessCheck"
    BY MethodNames DEF Proceed, LivenessCheck, AddInputView, AddOutputView, DeleteInputView,
      DeleteOutputView, AddView, DeleteView, SetMigrationTarget, AddReplicas, DeleteReplicas,
      Recover, QueryRuntimeInfo, QueryRuntimeStat, Query, Handling
  <1>3. TakeDetail(t)
    BY <1>2, ToldViews, ToldReplicas, ToldOthers
       DEF Proceed, AddInputView, AddOutputView, DeleteInputView, DeleteOutputView, Dirs
  <1> QED BY <1>1, <1>2, <1>3 DEF TakeEffect, TakeDetail
----------------------------------------------------------------------------
(* The steps of the whole system, as the handlers see them. *)

\* A step that does not touch the server, nor the requests in its hands.
Elsewhere ==
  /\ UNCHANGED serverVars
  /\ \A t \in RpcThreads : InCall(t) => Req(t)' = Req(t)

ServerStep(t) ==
  /\ \/ BootAcceptors(t) \/ BeginCall(t)
     \/ SkipEffect(t) \/ ThrowEffect(t) \/ TakeEffect(t) \/ FinishEffect(t)
  /\ UNCHANGED workerVars

LEMMA StepCases ==
  ASSUME TypeInv, [Next]_vars
  PROVE  Elsewhere \/ \E t \in RpcThreads : ServerStep(t)
  <1>1. ASSUME NEW t \in RpcThreads, HandleRpcs(t) PROVE Elsewhere \/ ServerStep(t)
    <2>1. CASE DeleteCallData(t)
      BY <2>1 DEF DeleteCallData, Elsewhere, serverVars, Req
    <2>2. CASE BootAcceptors(t) \/ BeginCall(t)
      BY <1>1, <2>2 DEF ServerStep, HandleRpcs
    <2>3. CASE Proceed(t)
      <3>1. HandlerStep(t)
        BY <2>3, ProceedSteps
      <3>2. pc[t] = "loop" \/ pc[t] = "wait"
        BY <3>1 DEF HandlerStep, SkipStep, ThrowStep, TakeStep, FinishStep
      <3> QED BY <1>1, <2>3, <3>2, LoopEffects, WaitEffects DEF ServerStep, HandleRpcs
    <2> QED BY <1>1, <2>1, <2>2, <2>3 DEF HandleRpcs
  <1>2. CASE WorkerThread \/ UNCHANGED vars
    BY <1>2 DEF WorkerThread, Elsewhere, vars, grpcVars, serverVars, Req
  <1>3. ASSUME NEW c \in Clients, Controller(c) \/ Transport(c) PROVE Elsewhere
    <2>1. UNCHANGED serverVars
      BY <1>3 DEF Controller, Transport
    <2>2. call[c].st # "running" /\ \A b \in Clients \ {c} : call'[b] = call[b]
      BY <1>3 DEF Controller, Transport, CallRpc, ReturnRpc, GrpcMatch, TypeInv, TypeOK,
                  GrpcTypeOK
    <2>3. \A t \in RpcThreads : InCall(t) => Req(t)' = Req(t)
      BY <2>1, <2>2 DEF TypeInv, TypeOK, ServerTypeOK, OneHandlerPerCall, HandlersRun, InCall,
                        Req, serverVars
    <2> QED BY <2>1, <2>3 DEF Elsewhere
  <1> QED BY <1>1, <1>2, <1>3 DEF Next

\* What the steps of a handler have in common, for one thread.
LEMMA SkipMoves ==
  ASSUME TypeInv, NEW t \in RpcThreads, SkipEffect(t)
  PROVE  /\ pc[t] = "loop" /\ item'[t] = item[t] + 1
         /\ UNCHANGED <<ringVars, grpcVars, viewlist, replicalist, pc, cur, snapshot>>
         /\ Req(t)' = Req(t) /\ TableKeys' = TableKeys
         /\ \E why \in Reasons :
              /\ reply_'[t] = [reply_[t] EXCEPT !.fail_reason = why]
              /\ Req(t).method \notin ViewMethods => why # ""
  BY DEF SkipEffect, Skip, TypeInv, TypeOK, ServerTypeOK, Req, grpcVars, TableKeys

LEMMA ThrowMoves ==
  ASSUME TypeInv, NEW t \in RpcThreads, ThrowEffect(t)
  PROVE  /\ pc[t] = "loop" /\ pc'[t] = "wait"
         /\ UNCHANGED <<grpcVars, viewlist, replicalist, cur, item, snapshot>>
         /\ Req(t)' = Req(t) /\ TableKeys' = TableKeys /\ reply_'[t] = Settled(t)
  BY DEF ThrowEffect, Throw, TypeInv, TypeOK, ServerTypeOK, Req, grpcVars, TableKeys

LEMMA TakeMoves ==
  ASSUME TypeInv, NEW t \in RpcThreads, TakeEffect(t)
  PROVE  /\ pc[t] = "wait" /\ pc'[t] = "loop" /\ InCall(t) /\ MoreItems(t)
         /\ item'[t] = item[t] + 1
         /\ UNCHANGED <<grpcVars, cur, snapshot>>
         /\ Req(t)' = Req(t) /\ reply_'[t] = Told(t)
         /\ rte_ring_reply # <<>>
         /\ TableKeys' = IF Accepted THEN Accept(Thrown(t), TableKeys) ELSE TableKeys
         /\ Thrown(t).action = Req(t).method /\ ToInt(Thrown(t).worker_id) = ItemKey(t)
  <1>1. InCall(t) /\ MoreItems(t) /\ TypeOK
    BY DEF TakeEffect, TakeStep, TypeInv, InCall
  <1>2. Thrown(t).action = Req(t).method /\ ToInt(Thrown(t).worker_id) = ItemKey(t)
    BY <1>1, ThrownType
  <1> QED BY <1>1, <1>2 DEF TakeEffect, TakeStep, GotReply, TakeReply, TypeInv, TypeOK,
                            ServerTypeOK, Req, grpcVars

LEMMA FinishMoves ==
  ASSUME TypeInv, NEW t \in RpcThreads, FinishEffect(t)
  PROVE  /\ pc[t] = "loop" /\ pc'[t] = "next" /\ ~ InCall(t)'
         /\ item'[t] = 1 /\ reply_'[t] = NoPending
         /\ UNCHANGED <<ringVars, viewlist, replicalist>> /\ TableKeys' = TableKeys
  BY DEF FinishEffect, Finish, TypeInv, TypeOK, ServerTypeOK, TableKeys, InCall

LEMMA BeginMoves ==
  ASSUME TypeInv, NEW t \in RpcThreads, BeginCall(t)
  PROVE  /\ pc[t] = "next" /\ pc'[t] = "loop" /\ ~ InCall(t) /\ InCall(t)'
         /\ snapshot'[t] = TableKeys /\ TableKeys' = TableKeys
         /\ UNCHANGED <<ringVars, viewlist, replicalist, item, reply_>>
  <1>1. TableKeys' = TableKeys
    BY DEF BeginCall, TableKeys
  <1> QED BY <1>1 DEF BeginCall, TypeInv, TypeOK, ServerTypeOK, InCall
----------------------------------------------------------------------------
(* The keys a call changes. *)

\* A reply changes the table its method is about, at the key of the item.
LEMMA TakeTables ==
  ASSUME TypeInv, NEW t \in RpcThreads, TakeEffect(t), NEW b \in Tables
  PROVE  SymDiff(TableKeys'[b], TableKeys[b])
           \subseteq IF b \in TableOf(Req(t).method) THEN {ItemKey(t)} ELSE {}
  <1> DEFINE m == Req(t).method
             k == ItemKey(t)
  <1>1. /\ TableKeys' = IF Accepted THEN Accept(Thrown(t), TableKeys) ELSE TableKeys
        /\ Thrown(t).action = m /\ ToInt(Thrown(t).worker_id) = k
    BY TakeMoves
  <1>2. CASE TableKeys' = TableKeys
    BY <1>2 DEF SymDiff
  <1>3. CASE TableKeys' = Accept(Thrown(t), TableKeys)
    <2>1. TableKeys'[b] \in {TableKeys[b] \cup {k}, TableKeys[b] \ {k}, TableKeys[b]}
      BY <1>1, <1>3 DEF Accept
    <2>2. b \notin TableOf(m) => TableKeys'[b] = TableKeys[b]
      BY <1>1, <1>3 DEF Accept, TableOf, Tables, ReplicaMethods
    <2> QED BY <2>1, <2>2 DEF SymDiff
  <1> QED BY <1>1, <1>2, <1>3

\* The keys of the items t has gone through.
Reached(t) == {ToInt(Req(t).items[i].view.worker_id) : i \in 1 .. item[t] - 1}

LEMMA ReachedGrows ==
  ASSUME NEW t \in RpcThreads, Req(t)' = Req(t), item[t] \in Nat \ {0}, item'[t] = item[t] + 1
  PROVE  Reached(t)' = Reached(t) \cup {ItemKey(t)}
  <1>1. 1 .. item'[t] - 1 = (1 .. item[t] - 1) \cup {item[t]}
    OBVIOUS
  <1> QED BY <1>1 DEF Reached, ItemKey, TheItem

Changes(t) ==
  \A b \in Tables :
    SymDiff(TableKeys[b], snapshot[t][b])
      \subseteq IF b \in TableOf(Req(t).method) THEN Reached(t) ELSE {}

LEMMA CallKeepsToItems ==
  ASSUME OneThread, TypeInv, CallChangesOnlyItsItems, [Next]_vars
  PROVE  CallChangesOnlyItsItems'
  <1>0. \A t \in RpcThreads : InCall(t) => Changes(t)
    BY DEF CallChangesOnlyItsItems, Changes, Reached
  <1>1. SUFFICES ASSUME NEW t \in RpcThreads, InCall(t)' PROVE Changes(t)'
    BY DEF CallChangesOnlyItsItems, Changes, Reached
  <1>2. item \in [RpcThreads -> Nat \ {0}]
    BY DEF TypeInv, TypeOK, ServerTypeOK
  <1>3. ASSUME Req(t)' = Req(t), snapshot'[t] = snapshot[t], TableKeys' = TableKeys, Changes(t),
               Reached(t) \subseteq Reached(t)'
        PROVE  Changes(t)'
    BY <1>3 DEF Changes
  <1>4. CASE Elsewhere
    <2>1. InCall(t) /\ TableKeys' = TableKeys /\ UNCHANGED <<snapshot, item>>
      BY <1>1, <1>4 DEF Elsewhere, serverVars, InCall, TableKeys
    <2>2. Req(t)' = Req(t)
      BY <1>4, <2>1 DEF Elsewhere
    <2> QED BY <1>0, <1>3, <2>1, <2>2 DEF Reached
  <1>5. ASSUME NEW u \in RpcThreads, ServerStep(u) PROVE Changes(t)'
    <2>0. u = t
      BY DEF OneThread
    <2>1. CASE BootAcceptors(t) \/ FinishEffect(t)
      BY <1>1, <2>1, FinishMoves DEF BootAcceptors, InCall, TypeInv, TypeOK, ServerTypeOK
    <2>2. CASE BeginCall(t)
      BY <2>2, BeginMoves DEF Changes, SymDiff
    <2>3. CASE SkipEffect(t)
      <3>1. Reached(t)' = Reached(t) \cup {ItemKey(t)}
        BY <1>2, <2>3, SkipMoves, ReachedGrows
      <3>2. InCall(t)
        BY <2>3, SkipMoves DEF InCall
      <3> QED BY <1>0, <1>3, <2>3, <3>1, <3>2, SkipMoves
    <2>4. CASE ThrowEffect(t)
      <3>1. InCall(t) /\ Reached(t)' = Reached(t)
        BY <2>4, ThrowMoves DEF InCall, Reached
      <3> QED BY <1>0, <1>3, <2>4, <3>1, ThrowMoves
    <2>5. CASE TakeEffect(t)
      <3>1. /\ Reached(t)' = Reached(t) \cup {ItemKey(t)} /\ InCall(t)
            /\ Req(t)' = Req(t) /\ snapshot'[t] = snapshot[t]
        BY <1>2, <2>5, TakeMoves, ReachedGrows
      <3>2. ASSUME NEW b \in Tables
            PROVE  SymDiff(TableKeys'[b], snapshot'[t][b])
                     \subseteq IF b \in TableOf(Req(t)'.method) THEN Reached(t)' ELSE {}
        <4>1. SymDiff(TableKeys[b], snapshot[t][b])
                \subseteq IF b \in TableOf(Req(t).method) THEN Reached(t) ELSE {}
          BY <1>0, <3>1 DEF Changes
        <4>2. SymDiff(TableKeys'[b], TableKeys[b])
                \subseteq IF b \in TableOf(Req(t).method) THEN {ItemKey(t)} ELSE {}
          BY <2>5, TakeTables
        <4> QED BY <3>1, <4>1, <4>2 DEF SymDiff
      <3> QED BY <3>2 DEF Changes
    <2> QED BY <1>5, <2>0, <2>1, <2>2, <2>3, <2>4, <2>5 DEF ServerStep
  <1> QED BY <1>4, <1>5, StepCases

(* With one thread a call changes one table only, and that one only at the *)
(* keys of the items it has gone through, whatever the worker replied.     *)
THEOREM CallKeepsToItsItems == ASSUME OneThread PROVE Spec => []CallChangesOnlyItsItems
  <1>1. Init => CallChangesOnlyItsItems
    BY DEF Init, ServerInit, CallChangesOnlyItsItems, InCall
  <1> QED BY <1>1, CallKeepsToItems, TypeInvHolds, PTL DEF Spec
----------------------------------------------------------------------------
(* What the handlers of replicas report. *)

\* A thread between two calls holds nothing of the last one.
IdleIsFresh ==
  \A t \in RpcThreads : ~ InCall(t) => reply_[t] = NoPending /\ item[t] = 1

\* A replica handler changes the list in one direction only, and so no
\* change can be taken back by a later item of the call.
OneWay ==
  \A t \in RpcThreads : InCall(t) =>
    LET m == Req(t).method IN
    /\ m = "AddReplicas" => snapshot[t]["replica"] \subseteq TableKeys["replica"]
    /\ m \in {"DeleteReplicas", "Recover"} =>
         TableKeys["replica"] \subseteq snapshot[t]["replica"]

ReportInv == IdleIsFresh /\ OneWay /\ SuccessMeansChange

LEMMA NoPendingFails == ~ NoPending.succeed
  BY DEF NoPending

LEMMA NoPendingGrants == NoPending.quota = 0 /\ NoPending.fail_reason = ""
  BY DEF NoPending

LEMMA FreshKept == TypeInv /\ IdleIsFresh /\ [Next]_vars => IdleIsFresh'
  <1> SUFFICES ASSUME TypeInv, IdleIsFresh, [Next]_vars, NEW t \in RpcThreads, ~ InCall(t)'
               PROVE  reply_'[t] = NoPending /\ item'[t] = 1
    BY DEF IdleIsFresh
  <1>1. CASE Elsewhere
    BY <1>1 DEF Elsewhere, serverVars, IdleIsFresh, InCall
  <1>2. ASSUME NEW u \in RpcThreads, ServerStep(u)
        PROVE  reply_'[t] = NoPending /\ item'[t] = 1
    <2>1. CASE u = t
      <3>1. CASE BootAcceptors(t)
        BY <3>1 DEF BootAcceptors, IdleIsFresh, InCall
      <3>2. CASE BeginCall(t)
        BY <3>2, BeginMoves
      <3>3. CASE SkipEffect(t) \/ ThrowEffect(t) \/ TakeEffect(t)
        BY <3>3, SkipMoves, ThrowMoves, TakeMoves DEF InCall
      <3>4. CASE FinishEffect(t)
        BY <3>4, FinishMoves
      <3> QED BY <1>2, <2>1, <3>1, <3>2, <3>3, <3>4 DEF ServerStep
    <2>2. CASE u # t
      <3>1. pc'[t] = pc[t] /\ reply_'[t] = reply_[t] /\ item'[t] = item[t]
        BY <1>2, <2>2 DEF ServerStep, BootAcceptors, BeginCall, SkipEffect, Skip, ThrowEffect,
                          Throw, TakeEffect, TakeStep, GotReply, FinishEffect, Finish,
                          TypeInv, TypeOK, ServerTypeOK
      <3> QED BY <3>1 DEF IdleIsFresh, InCall
    <2> QED BY <2>1, <2>2
  <1> QED BY <1>1, <1>2, StepCases

\* A reply accepted by a replica handler is one key more, or one less.
LEMMA TakeReplica ==
  ASSUME SafeInv, NEW t \in RpcThreads, TakeEffect(t), Req(t).method \in ReplicaMethods
  PROVE  LET m == Req(t).method  k == ItemKey(t)
             old == TableKeys["replica"]  new == TableKeys'["replica"] IN
         IF ~ Accepted THEN new = old
         ELSE /\ m = "AddReplicas" => k \notin old /\ new = old \cup {k}
              /\ m \in {"DeleteReplicas", "Recover"} => k \in old /\ new = old \ {k}
  <1>1. /\ TableKeys' = IF Accepted THEN Accept(Thrown(t), TableKeys) ELSE TableKeys
        /\ Thrown(t).action = Req(t).method /\ ToInt(Thrown(t).worker_id) = ItemKey(t)
        /\ pc[t] = "wait"
    BY TakeMoves DEF SafeInv
  <1>2. CheckHolds(t) /\ TableKeys["replica"] = DOMAIN replicalist /\ "replica" \in Tables
    BY <1>1 DEF SafeInv, CheckStillHolds, TableKeys, Tables, Dirs
  <1>3. CASE Req(t).method = "AddReplicas"
    <2>1. Accept(Thrown(t), TableKeys)["replica"] = TableKeys["replica"] \cup {ItemKey(t)}
      BY <1>1, <1>2, <1>3, AcceptAddReplica
    <2>2. ItemKey(t) \notin TableKeys["replica"]
      BY <1>2, <1>3 DEF CheckHolds
    <2> QED BY <1>1, <1>3, <2>1, <2>2
  <1>4. CASE Req(t).method \in {"DeleteReplicas", "Recover"}
    <2>1. Accept(Thrown(t), TableKeys)["replica"] = TableKeys["replica"] \ {ItemKey(t)}
      BY <1>1, <1>2, <1>4, AcceptDropReplica
    <2>2. ItemKey(t) \in TableKeys["replica"]
      BY <1>2, <1>4 DEF CheckHolds
    <2> QED BY <1>1, <1>4, <2>1, <2>2
  <1> QED BY <1>3, <1>4 DEF ReplicaMethods

Reports(t) ==
  Req(t).method \in ReplicaMethods =>
    (reply_[t].succeed <=> TableKeys["replica"] # snapshot[t]["replica"])

Directed(t) ==
  LET m == Req(t).method IN
  /\ m = "AddReplicas" => snapshot[t]["replica"] \subseteq TableKeys["replica"]
  /\ m \in {"DeleteReplicas", "Recover"} =>
       TableKeys["replica"] \subseteq snapshot[t]["replica"]

LEMMA ReportKept ==
  ASSUME OneThread, SafeInv, ReportInv, [Next]_vars
  PROVE  ReportInv'
  <1>0. TypeInv /\ IdleIsFresh'
    BY FreshKept DEF SafeInv, ReportInv
  <1>1. \A t \in RpcThreads : InCall(t) => Reports(t) /\ Directed(t)
    BY DEF ReportInv, OneWay, SuccessMeansChange, Reports, Directed
  <1>2. SUFFICES ASSUME NEW t \in RpcThreads, InCall(t)' PROVE Reports(t)' /\ Directed(t)'
    BY <1>0 DEF ReportInv, OneWay, SuccessMeansChange, Reports, Directed
  <1>3. reply_[t] \in Pending
    BY <1>0 DEF TypeInv, TypeOK, ServerTypeOK
  <1>4. CASE Elsewhere
    <2>1. InCall(t) /\ TableKeys' = TableKeys /\ UNCHANGED <<snapshot, reply_>>
      BY <1>2, <1>4 DEF Elsewhere, serverVars, InCall, TableKeys
    <2>2. Req(t)' = Req(t)
      BY <1>4, <2>1 DEF Elsewhere
    <2> QED BY <1>1, <2>1, <2>2 DEF Reports, Directed
  <1>5. ASSUME NEW u \in RpcThreads, ServerStep(u) PROVE Reports(t)' /\ Directed(t)'
    <2>0. u = t
      BY DEF OneThread
    <2>1. CASE BootAcceptors(t) \/ FinishEffect(t)
      <3>1. CASE BootAcceptors(t)
        BY <1>0, <1>2, <3>1 DEF BootAcceptors, InCall, TypeInv, TypeOK, ServerTypeOK
      <3>2. CASE FinishEffect(t)
        BY <1>0, <1>2, <3>2, FinishMoves
      <3> QED BY <2>1, <3>1, <3>2
    <2>2. CASE BeginCall(t)
      <3>1. reply_'[t] = NoPending
        BY <1>0, <2>2, BeginMoves DEF ReportInv, IdleIsFresh
      <3>2. ~ reply_'[t].succeed
        BY <3>1, NoPendingFails
      <3> QED BY <1>0, <2>2, <3>2, BeginMoves DEF Reports, Directed
    <2>3. CASE SkipEffect(t) \/ ThrowEffect(t)
      <3>1. /\ InCall(t) /\ Req(t)' = Req(t) /\ TableKeys' = TableKeys
            /\ UNCHANGED snapshot
        BY <1>0, <2>3, SkipMoves, ThrowMoves DEF InCall
      <3>2. Req(t).method \in ReplicaMethods => reply_'[t].succeed = reply_[t].succeed
        BY <1>0, <1>3, <2>3, SkipMoves, ThrowMoves DEF Settled, ReplicaMethods, Pending
      <3> QED BY <1>1, <3>1, <3>2 DEF Reports, Directed
    <2>5. CASE TakeEffect(t)
      <3>1. /\ InCall(t) /\ Req(t)' = Req(t) /\ UNCHANGED snapshot /\ reply_'[t] = Told(t)
        BY <1>0, <2>5, TakeMoves
      <3>2. Req(t).method \in ReplicaMethods =>
              reply_'[t].succeed = (Accepted \/ reply_[t].succeed)
        BY <1>3, <3>1 DEF Told, Pending
      <3>3. CASE Req(t).method \in ReplicaMethods
        BY <1>1, <2>5, <3>1, <3>2, <3>3, TakeReplica DEF Reports, Directed, ReplicaMethods
      <3> QED BY <3>1, <3>3 DEF Reports, Directed, ReplicaMethods
    <2> QED BY <1>5, <2>0, <2>1, <2>2, <2>3, <2>5 DEF ServerStep
  <1> QED BY <1>0, <1>4, <1>5, StepCases

(* With one thread AddReplicas, DeleteReplicas and Recover report success  *)
(* exactly when the replica list has changed since the call began, however *)
(* many items they had and whichever of them the worker refused.           *)
THEOREM SuccessIsChange ==
  ASSUME OneThread, EnqueuesSucceed
  PROVE  Spec => []SuccessMeansChange
  <1>1. Init => ReportInv
    BY DEF Init, ServerInit, ReportInv, IdleIsFresh, OneWay, SuccessMeansChange, InCall
  <1> QED BY <1>1, ReportKept, SafeInvHolds, PTL DEF Spec, ReportInv
----------------------------------------------------------------------------
(* Where the entries come from. *)

\* The entry e of table b under key k is what the view v asked for.
Made(e, b, k, r, v) ==
  /\ b \in TableOf(r.method) /\ ToInt(v.worker_id) = k
  /\ e.worker_id = v.worker_id /\ e.rpc_port = v.rpc_port
  /\ v.rpc_ip \notin LongIps => e.rpc_ip = v.rpc_ip
  /\ \A j \in DOMAIN v.mac : e.mac[j] = v.mac[j]

EntryAsked(e, b, k) ==
  \E r \in Requests : \E i \in DOMAIN r.items : Made(e, b, k, r, r.items[i].view)

LEMMA ItemAsked ==
  ASSUME TypeOK, AskedFor, NEW t \in RpcThreads, InCall(t), MoreItems(t)
  PROVE  Req(t) \in Requests /\ item[t] \in DOMAIN Req(t).items
  <1>1. Req(t) \in Request /\ item[t] \in Nat \ {0} /\ cur[t] \in Clients
    BY ReqType DEF TypeOK, ServerTypeOK
  <1>2. item[t] \in DOMAIN Req(t).items
    BY <1>1 DEF MoreItems, Request
  <1> QED BY <1>1, <1>2 DEF AskedFor, NoRequest, Req

LEMMA ConvertedKeeps ==
  ASSUME NEW old \in Mac, NEW v \in View
  PROVE  LET e == view_rpc2local(old, v) IN
         /\ e.worker_id = v.worker_id /\ e.rpc_port = v.rpc_port
         /\ v.rpc_ip \notin LongIps => e.rpc_ip = v.rpc_ip
         /\ \A j \in DOMAIN v.mac : e.mac[j] = v.mac[j]
  <1>1. DOMAIN v.mac \subseteq 1 .. MacLen
    BY ConstantsAssumption DEF View, MacText
  <1> QED BY <1>1 DEF view_rpc2local, parse_mac_addr, parse_ip_addr

LEMMA StoredKept ==
  ASSUME TypeInv, AskedFor, StoredAsRequested, [Next]_vars
  PROVE  StoredAsRequested'
  <1>0. \A b \in Tables : \A k \in DOMAIN Table(b) : EntryAsked(Table(b)[k], b, k)
    BY DEF StoredAsRequested, EntryAsked, Made, Table
  <1>1. SUFFICES ASSUME NEW b \in Tables, NEW k \in DOMAIN Table(b)'
                 PROVE  EntryAsked(Table(b)'[k], b, k)
    BY DEF StoredAsRequested, EntryAsked, Made, Table
  <1>2. CASE UNCHANGED <<viewlist, replicalist>>
    BY <1>0, <1>2 DEF Table
  <1>3. ASSUME NEW t \in RpcThreads, TakeEffect(t) PROVE EntryAsked(Table(b)'[k], b, k)
    <2>1. EntryEffect(t, b, k)
      BY <1>3 DEF TakeEffect
    <2>2. CASE k \in DOMAIN Table(b) /\ Table(b)'[k] = Table(b)[k]
      BY <1>0, <2>2
    <2>3. ASSUME k = ItemKey(t), b \in TableOf(Req(t).method),
                 NEW old \in Mac, Table(b)'[k] = view_rpc2local(old, TheItem(t).view)
          PROVE  EntryAsked(Table(b)'[k], b, k)
      <3>1. TypeOK /\ InCall(t) /\ MoreItems(t)
        BY <1>3, TakeMoves DEF TypeInv
      <3>2. Req(t) \in Requests /\ item[t] \in DOMAIN Req(t).items
        BY <3>1, ItemAsked
      <3>3. TheItem(t).view \in View
        BY <3>1, ItemType
      <3>4. Made(Table(b)'[k], b, k, Req(t), TheItem(t).view)
        BY <2>3, <3>3, ConvertedKeeps DEF Made, ItemKey
      <3> QED BY <3>2, <3>4 DEF EntryAsked, TheItem
    <2> QED BY <2>1, <2>2, <2>3 DEF EntryEffect
  <1>4. UNCHANGED <<viewlist, replicalist>> \/ \E t \in RpcThreads : TakeEffect(t)
    BY StepCases DEF Elsewhere, serverVars, ServerStep, BootAcceptors, BeginCall, SkipEffect,
                     Skip, ThrowEffect, Throw, FinishEffect, Finish
  <1> QED BY <1>2, <1>3, <1>4

(* However many threads run, every entry of every table comes from an item *)
(* of a request for that table: no entry mixes two views, sits under the   *)
(* key of another one or in another table, loses a byte of a MAC that its  *)
(* text had, or has a port spoilt by an address too long for its field.    *)
THEOREM EntriesAreRequested == Spec => []StoredAsRequested
  <1>1. Init => StoredAsRequested
    BY EmptyMapType DEF Init, ServerInit, StoredAsRequested
  <1> QED BY <1>1, StoredKept, TypeInvHolds, AskedForHolds, PTL DEF Spec
----------------------------------------------------------------------------
(* Why a call fails. *)

\* The worker of the code: reply.reply = true for every message.
WorkerSaysYes == Verdicts \subseteq {TRUE}

\* The reply to a query comes after the worker has filled in what it points to.
QueriesAnswered ==
  \A t \in RpcThreads : pc[t] = "wait" /\ rte_ring_reply # <<>> =>
    /\ Req(t).method = "QueryRuntimeInfo" => runtimeinfo
    /\ Req(t).method = "QueryRuntimeStat" => runtimestat

\* An item gone through has left a success or a reason, no item neither; and a
\* migration that waits for the worker has its success already.
Explained(t) ==
  LET m == Req(t).method  p == reply_[t] IN
  /\ m \notin ViewMethods /\ ~ p.succeed =>
       /\ p.quota = 0 /\ (item[t] > 1 <=> p.fail_reason # "")
       /\ item[t] > 1 => Req(t).items # <<>>
  /\ pc[t] = "wait" /\ m = "SetMigrationTarget" => p.succeed

ExplainInv ==
  /\ IdleIsFresh /\ QueriesAnswered
  /\ \A t \in RpcThreads : InCall(t) => Explained(t)
  /\ SilentFailureIsEmpty

LEMMA QueriesKept ==
  ASSUME OneThread, SafeInv, QueriesAnswered, [Next]_vars
  PROVE  QueriesAnswered'
  <1>0. TypeInv
    BY DEF SafeInv
  <1> SUFFICES ASSUME NEW t \in RpcThreads, pc'[t] = "wait", rte_ring_reply' # <<>>
               PROVE  /\ Req(t)'.method = "QueryRuntimeInfo" => runtimeinfo'
                      /\ Req(t)'.method = "QueryRuntimeStat" => runtimestat'
    BY DEF QueriesAnswered
  <1>1. ASSUME NEW u \in RpcThreads, ServerStep(u) PROVE FALSE
    <2>0. u = t
      BY DEF OneThread
    <2>1. ~ BootAcceptors(t)
      BY <1>0 DEF BootAcceptors, TypeInv, TypeOK, ServerTypeOK
    <2>2. ~ ThrowEffect(t)
      <3> SUFFICES ASSUME ThrowEffect(t) PROVE FALSE
        OBVIOUS
      <3>1. AtRest(t) /\ UNCHANGED rte_ring_reply
        BY <1>0 DEF ThrowEffect, Throw, ThrowRequest, SafeInv, RingProtocol
      <3> QED BY <3>1 DEF AtRest
    <2> QED BY <1>0, <1>1, <2>0, <2>1, <2>2, SkipMoves, TakeMoves, FinishMoves, BeginMoves
            DEF ServerStep
  <1>2. CASE Elsewhere
    <2>1. pc[t] = "wait" /\ Req(t)' = Req(t)
      BY <1>2 DEF Elsewhere, serverVars, InCall
    <2>2. CASE UNCHANGED <<rte_ring_reply, runtimeinfo, runtimestat>>
      BY <2>1, <2>2 DEF QueriesAnswered
    <2>3. CASE ChildReply
      <3>1. AtWorker(t)
        BY <2>1, <2>3 DEF ChildReply, SafeInv, RingProtocol, AtRequestRing, AtReplyRing
      <3>2. child_request.action = Req(t).method
        BY <1>0, <2>1, <3>1, ThrownType DEF AtWorker, TypeInv, WaitingHasItem, InCall
      <3> QED BY <2>1, <2>3, <3>2 DEF ChildReply
    <2>4. UNCHANGED <<rte_ring_reply, runtimeinfo, runtimestat>> \/ ChildReply
      <3>1. CASE WorkerThread
        BY <3>1 DEF WorkerThread, child, ChildTake
      <3>2. CASE \E u \in RpcThreads : HandleRpcs(u)
        <4>1. PICK u \in RpcThreads : HandleRpcs(u)
          BY <3>2
        <4>2. u = t
          BY DEF OneThread
        <4>3. ~ BeginCall(t) /\ ~ BootAcceptors(t)
          BY <2>1 DEF BeginCall, BootAcceptors
        <4>4. ~ Proceed(t)
          BY <1>0, <1>2, <2>1, WaitEffects, TakeMoves DEF Elsewhere, serverVars
        <4> QED BY <4>1, <4>2, <4>3, <4>4
                DEF HandleRpcs, DeleteCallData, ringVars, workerVars
      <3> QED BY <3>1, <3>2 DEF Next, Controller, Transport, vars, ringVars, workerVars
    <2> QED BY <2>2, <2>3, <2>4
  <1> QED BY <1>1, <1>2, <1>0, StepCases
LEMMA TakeExplains ==
  ASSUME WorkerSaysYes, SafeInv, QueriesAnswered, NEW t \in RpcThreads, TakeEffect(t), Explained(t)
  PROVE  Explained(t)'
  <1>1. /\ TypeInv /\ pc[t] = "wait" /\ pc'[t] = "loop" /\ InCall(t) /\ rte_ring_reply # <<>>
        /\ Req(t)' = Req(t) /\ reply_'[t] = Told(t)
        /\ reply_[t] \in Pending /\ Req(t) \in Request
    BY TakeMoves, ReqType DEF SafeInv, TypeInv, TypeOK, ServerTypeOK
  <1>2. Accepted
    <2>1. AtReplyRing(t)
      BY <1>1 DEF SafeInv, RingProtocol, AtRequestRing, AtWorker
    <2>2. PICK verdict \in Verdicts : rte_ring_reply = <<ReplyTo(Thrown(t), verdict)>>
      BY <2>1 DEF AtReplyRing
    <2>3. Accepted = verdict
      BY <2>2 DEF Accepted, ReplyTo
    <2> QED BY <2>3 DEF WorkerSaysYes
  <1>3. ASSUME reply_'[t].succeed PROVE Explained(t)'
    BY <1>1, <1>3 DEF Explained
  <1>4. CASE Req(t).method \in ReplicaMethods
    BY <1>1, <1>2, <1>3, <1>4 DEF Told, Pending
  <1>5. CASE Req(t).method = "QueryRuntimeInfo"
    <2>1. runtimeinfo /\ Req(t).method \notin ReplicaMethods
      BY <1>1, <1>5 DEF QueriesAnswered, ReplicaMethods
    <2>2. reply_'[t] = [NoPending EXCEPT !.succeed = runtimeinfo]
      BY <1>1, <1>2, <1>5, <2>1 DEF Told
    <2>3. reply_'[t].succeed
      BY <2>1, <2>2 DEF NoPending
    <2> QED BY <1>3, <2>3
  <1>6. CASE Req(t).method = "QueryRuntimeStat"
    <2>1. runtimestat /\ Req(t).method \notin ReplicaMethods
      BY <1>1, <1>6 DEF QueriesAnswered, ReplicaMethods
    <2>2. reply_'[t] = [NoPending EXCEPT !.succeed = runtimestat]
      BY <1>1, <1>2, <1>6, <2>1 DEF Told
    <2>3. reply_'[t].succeed
      BY <2>1, <2>2 DEF NoPending
    <2> QED BY <1>3, <2>3
  <1>7. CASE Req(t).method = "SetMigrationTarget"
    BY <1>1, <1>2, <1>3, <1>7 DEF Told, ReplicaMethods, Explained
  <1>8. CASE Req(t).method \in ViewMethods
    BY <1>1, <1>8, MethodKinds DEF Explained
  <1>9. Req(t).method # "LivenessCheck"
    BY DEF TakeEffect
  <1> QED BY <1>1, <1>4, <1>5, <1>6, <1>7, <1>8, <1>9, MethodNames, MethodKinds
          DEF Request, ReplicaMethods
LEMMA ExplainedKept ==
  ASSUME OneThread, WorkerSaysYes, SafeInv, ExplainInv, [Next]_vars,
         NEW t \in RpcThreads, InCall(t)'
  PROVE  Explained(t)'
  <1>0. TypeInv /\ reply_[t] \in Pending /\ item[t] \in Nat \ {0}
    BY DEF SafeInv, TypeInv, TypeOK, ServerTypeOK
  <1>1. InCall(t) => Explained(t)
    BY DEF ExplainInv
  <1>2. CASE Elsewhere
    <2>1. InCall(t) /\ UNCHANGED <<reply_, item, pc>>
      BY <1>2 DEF Elsewhere, serverVars, InCall
    <2>2. Req(t)' = Req(t)
      BY <1>2, <2>1 DEF Elsewhere
    <2> QED BY <1>1, <2>1, <2>2 DEF Explained
  <1>3. ASSUME NEW u \in RpcThreads, ServerStep(u) PROVE Explained(t)'
    <2>0. u = t
      BY DEF OneThread
    <2>1. CASE BootAcceptors(t)
      BY <1>0, <2>1 DEF BootAcceptors, InCall, TypeInv, TypeOK, ServerTypeOK
    <2>2. CASE BeginCall(t)
      <3>1. reply_'[t] = NoPending /\ item'[t] = 1 /\ pc'[t] = "loop"
        BY <1>0, <2>2, BeginMoves DEF ExplainInv, IdleIsFresh
      <3>2. reply_'[t].quota = 0 /\ reply_'[t].fail_reason = ""
        BY <3>1, NoPendingGrants
      <3>3. ~ (item'[t] > 1) /\ pc'[t] # "wait"
        BY <3>1
      <3> QED BY <3>2, <3>3 DEF Explained
    <2>3. CASE SkipEffect(t)
      <3>1. InCall(t) /\ Req(t)' = Req(t) /\ item'[t] = item[t] + 1 /\ pc'[t] = "loop"
        BY <1>0, <2>3, SkipMoves DEF InCall
      <3>2. PICK why \in Reasons : /\ reply_'[t] = [reply_[t] EXCEPT !.fail_reason = why]
                                   /\ Req(t).method \notin ViewMethods => why # ""
        BY <1>0, <2>3, SkipMoves
      <3>3. /\ reply_'[t].succeed = reply_[t].succeed /\ reply_'[t].quota = reply_[t].quota
            /\ reply_'[t].fail_reason = why
        BY <1>0, <3>2 DEF Pending
      <3>4. item'[t] > 1 /\ Req(t).items # <<>>
        <4>1. item[t] <= Len(Req(t).items)
          BY <2>3 DEF SkipEffect, MoreItems
        <4> QED BY <1>0, <3>1, <4>1
      <3> QED BY <1>1, <3>1, <3>2, <3>3, <3>4 DEF Explained
    <2>4. CASE ThrowEffect(t)
      <3>1. InCall(t) /\ Req(t)' = Req(t) /\ item'[t] = item[t] /\ reply_'[t] = Settled(t)
        BY <1>0, <2>4, ThrowMoves DEF InCall
      <3>2. CASE Req(t).method = "SetMigrationTarget"
        <4>1. reply_'[t].succeed
          BY <1>0, <3>1, <3>2 DEF Settled, Pending
        <4> QED BY <4>1 DEF Explained
      <3>3. CASE Req(t).method # "SetMigrationTarget"
        BY <1>1, <3>1, <3>3 DEF Settled, Explained
      <3> QED BY <3>2, <3>3
    <2>5. CASE TakeEffect(t)
      BY <1>0, <1>1, <2>5, TakeMoves, TakeExplains DEF ExplainInv
    <2>6. CASE FinishEffect(t)
      BY <1>0, <2>6, FinishMoves
    <2> QED BY <1>3, <2>0, <2>1, <2>2, <2>3, <2>4, <2>5, <2>6 DEF ServerStep
  <1> QED BY <1>0, <1>2, <1>3, StepCases

\* A call is answered by the handler that has it, and keeps its answer.
LEMMA AnswerSteps ==
  ASSUME TypeInv, [Next]_vars, NEW c \in Clients, call'[c].st = "answered"
  PROVE  \/ call[c].st = "answered" /\ call'[c] = call[c]
         \/ \E t \in RpcThreads, addr \in Byte :
              /\ FinishEffect(t) /\ cur[t] = c
              /\ call'[c].req = Req(t) /\ call'[c].answer = AnswerOf(t, addr)
  <1>0. call \in [Clients -> Call]
    BY DEF TypeInv, TypeOK, GrpcTypeOK
  <1>1. CASE UNCHANGED call
    BY <1>1
  <1>2. ASSUME NEW b \in Clients, Controller(b) \/ Transport(b)
        PROVE  call[c].st = "answered" /\ call'[c] = call[c]
    BY <1>0, <1>2 DEF Controller, Transport, CallRpc, ReturnRpc, GrpcMatch, NoCall, Call
  <1>3. ASSUME NEW t \in RpcThreads, BeginCall(t)
        PROVE  call[c].st = "answered" /\ call'[c] = call[c]
    BY <1>0, <1>3 DEF BeginCall, Call
  <1>4. ASSUME NEW t \in RpcThreads, FinishEffect(t)
        PROVE  \/ call[c].st = "answered" /\ call'[c] = call[c]
               \/ \E addr \in Byte : /\ cur[t] = c /\ call'[c].req = Req(t)
                                     /\ call'[c].answer = AnswerOf(t, addr)
    <2>1. PICK addr \in Byte : Finish(t, AnswerOf(t, addr))
      BY <1>4 DEF FinishEffect
    <2>2. cur[t] \in Clients
      BY <1>4 DEF FinishEffect, TypeInv, TypeOK, ServerTypeOK
    <2>3. call' = [call EXCEPT ![cur[t]].st = "answered", ![cur[t]].answer = AnswerOf(t, addr)]
      BY <2>1 DEF Finish
    <2> QED BY <1>0, <2>2, <2>3 DEF Call, Req
  <1>5. \/ UNCHANGED call
        \/ \E b \in Clients : Controller(b) \/ Transport(b)
        \/ \E t \in RpcThreads : BeginCall(t) \/ FinishEffect(t)
    <2>1. ASSUME NEW t \in RpcThreads, Proceed(t) PROVE UNCHANGED call \/ FinishEffect(t)
      <3>1. pc[t] = "loop" \/ pc[t] = "wait"
        BY <2>1, ProceedSteps DEF HandlerStep, SkipStep, ThrowStep, TakeStep, FinishStep
      <3> QED BY <2>1, <3>1, LoopEffects, WaitEffects, SkipMoves, ThrowMoves, TakeMoves DEF grpcVars
    <2> QED BY <2>1 DEF Next, HandleRpcs, BootAcceptors, DeleteCallData, WorkerThread, vars,
                        grpcVars
  <1> QED BY <1>1, <1>2, <1>3, <1>4, <1>5
LEMMA ReasonsKept ==
  ASSUME TypeInv, ExplainInv, [Next]_vars
  PROVE  SilentFailureIsEmpty'
  <1> SUFFICES ASSUME NEW c \in Clients, call'[c].st = "answered",
                      call'[c].req.method \notin ViewMethods, ~ call'[c].answer.succeed
               PROVE  /\ call'[c].answer.fail_reason = "" <=> call'[c].req.items = <<>>
                      /\ call'[c].answer.quota = 0
    BY DEF SilentFailureIsEmpty
  <1>1. CASE call[c].st = "answered" /\ call'[c] = call[c]
    BY <1>1 DEF ExplainInv, SilentFailureIsEmpty
  <1>2. ASSUME NEW t \in RpcThreads, NEW addr \in Byte, FinishEffect(t), cur[t] = c,
               call'[c].req = Req(t), call'[c].answer = AnswerOf(t, addr)
        PROVE  /\ call'[c].answer.fail_reason = "" <=> call'[c].req.items = <<>>
               /\ call'[c].answer.quota = 0
    <2>1. /\ InCall(t) /\ Req(t) \in Request /\ item[t] \in Nat \ {0}
          /\ reply_[t].succeed \in BOOLEAN
      BY <1>2, ReqType DEF FinishEffect, InCall, TypeInv, TypeOK, ServerTypeOK, Pending
    <2>2. /\ AnswerOf(t, addr).succeed = (reply_[t].succeed \/ Req(t).method = "LivenessCheck")
          /\ AnswerOf(t, addr).fail_reason = reply_[t].fail_reason
          /\ AnswerOf(t, addr).quota = reply_[t].quota
      BY <1>2 DEF AnswerOf, PlainAnswer
    <2>3. ~ reply_[t].succeed /\ ~ MoreItems(t)
      BY <1>2, <2>1, <2>2 DEF FinishEffect
    <2>4. Req(t).items # <<>> => item[t] > 1
      <3> SUFFICES ASSUME Req(t).items # <<>> PROVE item[t] > 1
        OBVIOUS
      <3>1. Len(Req(t).items) \in Nat \ {0}
        BY <2>1 DEF Request
      <3> QED BY <2>1, <2>3, <3>1 DEF MoreItems
    <2>5. Explained(t)
      BY <2>1 DEF ExplainInv
    <2> QED BY <1>2, <2>2, <2>3, <2>4, <2>5 DEF Explained
  <1> QED BY <1>1, <1>2, AnswerSteps

(* With one thread and the worker of the code, which accepts everything, a *)
(* call that fails without a reason is one with an empty list, and a call  *)
(* with an item that fails has one: no later item hides a failure, whether *)
(* it is skipped or not.  A failed migration grants no quota.              *)
THEOREM SilentFailuresAreEmpty ==
  ASSUME OneThread, EnqueuesSucceed, WorkerSaysYes
  PROVE  Spec => []SilentFailureIsEmpty
  <1>1. Init => ExplainInv
    <2> SUFFICES ASSUME Init PROVE ExplainInv
      OBVIOUS
    <2>1. \A c \in Clients : call[c].st # "answered"
      BY DEF Init, GrpcInit, NoCall
    <2>2. IdleIsFresh /\ QueriesAnswered /\ \A t \in RpcThreads : ~ InCall(t)
      BY DEF Init, ServerInit, IdleIsFresh, QueriesAnswered, InCall
    <2> QED BY <2>1, <2>2 DEF ExplainInv, SilentFailureIsEmpty
  <1>2. SafeInv /\ ExplainInv /\ [Next]_vars => ExplainInv'
    <2> SUFFICES ASSUME SafeInv, ExplainInv, [Next]_vars PROVE ExplainInv'
      OBVIOUS
    <2>1. IdleIsFresh' /\ QueriesAnswered' /\ SilentFailureIsEmpty'
      BY FreshKept, QueriesKept, ReasonsKept DEF SafeInv, ExplainInv
    <2>2. \A t \in RpcThreads : InCall(t)' => Explained(t)'
      BY ExplainedKept
    <2> QED BY <2>1, <2>2 DEF ExplainInv
  <1>3. ExplainInv => SilentFailureIsEmpty
    BY DEF ExplainInv
  <1> QED BY <1>1, <1>2, <1>3, SafeInvHolds, PTL DEF Spec
----------------------------------------------------------------------------
(* The handler objects, for any number of threads. *)

Counts(e, m, kinds) == IF e.method = m /\ e.kind \in kinds THEN 1 ELSE 0

LEMMA EventsFinite ==
  ASSUME TypeOK, NEW m, NEW kinds
  PROVE  IsFiniteSet(EventsOf(m, kinds)) /\ Cardinality(EventsOf(m, kinds)) \in Nat
  <1>1. Len(cq) \in Nat /\ DOMAIN cq = 1 .. Len(cq)
    BY DEF TypeOK, GrpcTypeOK
  <1>2. IsFiniteSet(DOMAIN cq) /\ EventsOf(m, kinds) \in SUBSET (DOMAIN cq)
    BY <1>1, FS_Interval DEF EventsOf
  <1> QED BY <1>2, FS_Subset, FS_CardinalityType

\* An event that joins the queue, and the one that leaves it.
LEMMA EventJoins ==
  ASSUME TypeOK, NEW e, cq' = Append(cq, e), NEW m, NEW kinds
  PROVE  Cardinality(EventsOf(m, kinds)') = Cardinality(EventsOf(m, kinds)) + Counts(e, m, kinds)
  <1> DEFINE E == EventsOf(m, kinds)
             n == Len(cq) + 1
  <1>1. /\ n \in Nat /\ n \notin E /\ DOMAIN cq' = DOMAIN cq \cup {n} /\ cq'[n] = e
        /\ \A i \in DOMAIN cq : cq'[i] = cq[i]
    BY DEF TypeOK, GrpcTypeOK, EventsOf
  <1>2. IsFiniteSet(E) /\ Cardinality(E) \in Nat
    BY EventsFinite
  <1>3. CASE e.method = m /\ e.kind \in kinds
    <2>1. EventsOf(m, kinds)' = E \cup {n}
      BY <1>1, <1>3 DEF EventsOf
    <2> QED BY <1>1, <1>2, <1>3, <2>1, FS_AddElement DEF Counts
  <1>4. CASE ~ (e.method = m /\ e.kind \in kinds)
    <2>1. EventsOf(m, kinds)' = E
      BY <1>1, <1>4 DEF EventsOf
    <2> QED BY <1>2, <1>4, <2>1 DEF Counts
  <1> QED BY <1>3, <1>4

LEMMA EventLeaves ==
  ASSUME TypeOK, cq # <<>>, cq' = Tail(cq), NEW m, NEW kinds
  PROVE  Cardinality(EventsOf(m, kinds)')
           = Cardinality(EventsOf(m, kinds)) - Counts(Head(cq), m, kinds)
  <1> DEFINE E == EventsOf(m, kinds)
             F == EventsOf(m, kinds)'
             rest == E \ {1}
             f == [i \in F |-> i + 1]
  <1>1. cq \in Seq(Event)
    BY DEF TypeOK, GrpcTypeOK
  <1>2. /\ Len(cq) \in Nat /\ DOMAIN cq = 1 .. Len(cq) /\ DOMAIN cq' = 1 .. Len(cq) - 1
        /\ Head(cq) = cq[1] /\ 1 \in DOMAIN cq
        /\ \A i \in 1 .. Len(cq) - 1 : cq'[i] = cq[i + 1]
    BY <1>1
  <1>3. F = {i \in 1 .. Len(cq) - 1 : cq[i + 1].method = m /\ cq[i + 1].kind \in kinds}
    BY <1>2 DEF EventsOf
  <1>4. rest = {i \in 2 .. Len(cq) : cq[i].method = m /\ cq[i].kind \in kinds}
    BY <1>2 DEF EventsOf
  <1>5. f \in Bijection(F, rest)
    <2>1. f \in [F -> rest]
      BY <1>2, <1>3, <1>4
    <2>2. \A i, j \in F : f[i] = f[j] => i = j
      BY <1>3
    <2>3. \A k \in rest : k - 1 \in F /\ f[k - 1] = k
      BY <1>2, <1>3, <1>4
    <2> QED BY <2>1, <2>2, <2>3 DEF Bijection, Injection, IsInjective, Surjection
  <1>6. IsFiniteSet(E) /\ Cardinality(E) \in Nat
    BY EventsFinite
  <1>7. IsFiniteSet(rest) /\ Cardinality(rest) = IF 1 \in E THEN Cardinality(E) - 1
                                                            ELSE Cardinality(E)
    BY <1>6, FS_RemoveElement
  <1>8. Cardinality(F) = Cardinality(rest)
    <2>1. IsFiniteSet(F)
      <3>1. IsFiniteSet(1 .. Len(cq) - 1) /\ F \in SUBSET (1 .. Len(cq) - 1)
        BY <1>2, <1>3, FS_Interval
      <3> QED BY <3>1, FS_Subset
    <2>2. ExistsBijection(F, rest)
      BY <1>5 DEF ExistsBijection
    <2> QED BY <2>1, <2>2, FS_Bijection
  <1>9. 1 \in E <=> (Head(cq).method = m /\ Head(cq).kind \in kinds)
    BY <1>2 DEF EventsOf
  <1> QED BY <1>6, <1>7, <1>8, <1>9 DEF Counts
\* The handlers whose Proceed runs, and the threads past the eleven `new'.
Running(m) == {t \in RpcThreads : InCall(t) /\ Req(t).method = m}

Started == {t \in RpcThreads : pc[t] # "boot"}

Accounted(m) ==
  allocated[m] = armed[m] + Cardinality(EventsOf(m, {"PROCESS", "FINISH"}))
                   + Cardinality(Running(m))

Replenished(m) ==
  armed[m] + Cardinality(EventsOf(m, {"PROCESS"})) = Cardinality(Started)

LEMMA ThreadsCounted ==
  ASSUME IsFiniteSet(RpcThreads)
  PROVE  /\ \A m : IsFiniteSet(Running(m)) /\ Cardinality(Running(m)) \in Nat
         /\ IsFiniteSet(Started) /\ Cardinality(Started) \in Nat
  <1>1. Started \in SUBSET RpcThreads /\ \A m : Running(m) \in SUBSET RpcThreads
    BY DEF Started, Running
  <1> QED BY <1>1, FS_Subset, FS_CardinalityType

\* A step that neither makes nor deletes a handler, nor moves one.
LEMMA ObjectsKept ==
  ASSUME UNCHANGED <<armed, allocated, cq>>, NEW m, Running(m)' = Running(m), Started' = Started,
         Accounted(m), Replenished(m)
  PROVE  Accounted(m)' /\ Replenished(m)'
  BY DEF Accounted, Replenished, EventsOf

LEMMA BootCounts ==
  ASSUME IsFiniteSet(RpcThreads), TypeInv, NEW t \in RpcThreads, BootAcceptors(t),
         NEW m \in Methods, Accounted(m), Replenished(m)
  PROVE  Accounted(m)' /\ Replenished(m)'
  <1>1. /\ pc \in [RpcThreads -> {"boot", "next", "loop", "wait"}]
        /\ armed \in [Methods -> Nat] /\ allocated \in [Methods -> Int]
    BY DEF TypeInv, TypeOK, ServerTypeOK, GrpcTypeOK
  <1>2. /\ armed'[m] = armed[m] + 1 /\ allocated'[m] = allocated[m] + 1 /\ UNCHANGED <<call, cq, cur>>
        /\ pc[t] = "boot" /\ pc' = [pc EXCEPT ![t] = "next"]
    BY DEF BootAcceptors
  <1>3. Running(m)' = Running(m)
    BY <1>1, <1>2 DEF Running, InCall, Req
  <1>4. Started' = Started \cup {t} /\ t \notin Started
    BY <1>1, <1>2 DEF Started
  <1>5. Cardinality(Started') = Cardinality(Started) + 1
    BY <1>4, ThreadsCounted, FS_AddElement
  <1>6. \A kinds : EventsOf(m, kinds)' = EventsOf(m, kinds) /\ Cardinality(EventsOf(m, kinds)) \in Nat
    BY <1>2, EventsFinite DEF EventsOf, TypeInv
  <1>7. Cardinality(Running(m)) \in Nat /\ Cardinality(Started) \in Nat
    BY ThreadsCounted
  <1>8. armed[m] \in Nat /\ allocated[m] \in Int
    BY <1>1
  <1> QED BY <1>2, <1>3, <1>5, <1>6, <1>7, <1>8 DEF Accounted, Replenished

LEMMA BeginCounts ==
  ASSUME IsFiniteSet(RpcThreads), TypeInv, NEW t \in RpcThreads, BeginCall(t),
         NEW m \in Methods, Accounted(m), Replenished(m)
  PROVE  Accounted(m)' /\ Replenished(m)'
  <1> DEFINE e == Head(cq)
             one == Counts(e, m, {"PROCESS"})
  <1>1. /\ TypeOK /\ cq # <<>> /\ cq' = Tail(cq) /\ e.kind = "PROCESS" /\ e \in Event
        /\ e = cq[1] /\ 1 \in DOMAIN cq
        /\ pc \in [RpcThreads -> {"boot", "next", "loop", "wait"}]
        /\ cur \in [RpcThreads -> Clients \cup {None}] /\ call \in [Clients -> Call]
        /\ armed \in [Methods -> Nat] /\ allocated \in [Methods -> Int]
    BY PopEvent DEF BeginCall, TypeInv, TypeOK, ServerTypeOK, GrpcTypeOK
  <1>2. /\ armed' = [armed EXCEPT ![e.method] = @ + 1]
        /\ allocated' = [allocated EXCEPT ![e.method] = @ + 1]
        /\ call' = [call EXCEPT ![e.client].st = "running"]
        /\ cur' = [cur EXCEPT ![t] = e.client]
        /\ pc[t] = "next" /\ pc' = [pc EXCEPT ![t] = "loop"]
    BY DEF BeginCall, NewAcceptor
  <1>3. /\ armed'[m] = armed[m] + one /\ allocated'[m] = allocated[m] + one
        /\ one \in {0, 1} /\ (one = 1 <=> e.method = m)
        /\ armed[m] \in Nat /\ allocated[m] \in Int
    BY <1>1, <1>2 DEF Counts
  <1>4. /\ Cardinality(EventsOf(m, {"PROCESS"})') = Cardinality(EventsOf(m, {"PROCESS"})) - one
        /\ Cardinality(EventsOf(m, {"PROCESS", "FINISH"})')
             = Cardinality(EventsOf(m, {"PROCESS", "FINISH"})) - one
    <2>1. Counts(e, m, {"PROCESS", "FINISH"}) = one
      BY <1>1 DEF Counts
    <2> QED BY <1>1, <2>1, EventLeaves
  <1>5. call[e.client].req.method = e.method
    BY <1>1 DEF TypeInv, OneHandlerPerCall, EventsQueued, ProcessEvents
  <1>6. Running(m)' = IF one = 1 THEN Running(m) \cup {t} ELSE Running(m)
    <2>1. \A u \in RpcThreads \ {t} : (InCall(u)' <=> InCall(u)) /\ cur'[u] = cur[u]
      BY <1>1, <1>2 DEF InCall
    <2>2. \A c \in Clients : call'[c].req = call[c].req
      BY <1>1, <1>2 DEF Call
    <2>3. \A u \in RpcThreads \ {t} : InCall(u) => Req(u)' = Req(u)
      BY <2>1, <2>2 DEF Req, InCall, TypeInv, TypeOK, ServerTypeOK
    <2>4. InCall(t)' /\ ~ InCall(t) /\ Req(t)'.method = e.method
      BY <1>1, <1>2, <1>5, <2>2 DEF InCall, Req, Event
    <2> QED BY <1>3, <2>1, <2>3, <2>4 DEF Running
  <1>7. Cardinality(Running(m)') = Cardinality(Running(m)) + one
    <2>1. t \notin Running(m)
      BY <1>2 DEF Running, InCall
    <2>2. IsFiniteSet(Running(m)) /\ Cardinality(Running(m)) \in Nat
      BY ThreadsCounted
    <2>3. Cardinality(Running(m) \cup {t}) = Cardinality(Running(m)) + 1
      BY <2>1, <2>2, FS_AddElement
    <2>4. CASE one = 1
      BY <1>6, <2>3, <2>4
    <2>5. CASE one = 0
      BY <1>6, <2>2, <2>5
    <2> QED BY <1>3, <2>4, <2>5
  <1>8. Started' = Started
    BY <1>1, <1>2 DEF Started
  <1>9. /\ Cardinality(EventsOf(m, {"PROCESS"})) \in Nat
        /\ Cardinality(EventsOf(m, {"PROCESS", "FINISH"})) \in Nat
        /\ Cardinality(Running(m)) \in Nat /\ Cardinality(Started) \in Nat
    BY <1>1, EventsFinite, ThreadsCounted
  <1> QED BY <1>3, <1>4, <1>7, <1>8, <1>9 DEF Accounted, Replenished

LEMMA DeleteCounts ==
  ASSUME IsFiniteSet(RpcThreads), TypeInv, NEW t \in RpcThreads, DeleteCallData(t),
         NEW m \in Methods, Accounted(m), Replenished(m)
  PROVE  Accounted(m)' /\ Replenished(m)'
  <1> DEFINE e == Head(cq)
             one == Counts(e, m, {"PROCESS", "FINISH"})
  <1>1. /\ TypeOK /\ cq # <<>> /\ cq' = Tail(cq) /\ e.kind = "FINISH" /\ e \in Event
        /\ armed \in [Methods -> Nat] /\ allocated \in [Methods -> Int]
        /\ UNCHANGED <<pc, cur, call, armed>>
        /\ allocated' = [allocated EXCEPT ![e.method] = @ - 1]
    BY PopEvent DEF DeleteCallData, serverVars, TypeInv, TypeOK, ServerTypeOK, GrpcTypeOK
  <1>2. /\ allocated'[m] = allocated[m] - one /\ one \in {0, 1}
        /\ Counts(e, m, {"PROCESS"}) = 0
        /\ armed[m] \in Nat /\ allocated[m] \in Int
    BY <1>1 DEF Counts
  <1>3. /\ Cardinality(EventsOf(m, {"PROCESS"})') = Cardinality(EventsOf(m, {"PROCESS"})) - 0
        /\ Cardinality(EventsOf(m, {"PROCESS", "FINISH"})')
             = Cardinality(EventsOf(m, {"PROCESS", "FINISH"})) - one
    BY <1>1, <1>2, EventLeaves
  <1>4. Running(m)' = Running(m) /\ Started' = Started
    BY <1>1 DEF Running, Started, InCall, Req
  <1>5. /\ Cardinality(EventsOf(m, {"PROCESS"})) \in Nat
        /\ Cardinality(EventsOf(m, {"PROCESS", "FINISH"})) \in Nat
        /\ Cardinality(Running(m)) \in Nat /\ Cardinality(Started) \in Nat
    BY <1>1, EventsFinite, ThreadsCounted
  <1> QED BY <1>1, <1>2, <1>3, <1>4, <1>5 DEF Accounted, Replenished

LEMMA MatchCounts ==
  ASSUME IsFiniteSet(RpcThreads), TypeInv, NEW c \in Clients, GrpcMatch(c), UNCHANGED <<pc, cur>>,
         NEW m \in Methods, Accounted(m), Replenished(m)
  PROVE  Accounted(m)' /\ Replenished(m)'
  <1> DEFINE k == call[c].req.method
             e == [kind |-> "PROCESS", client |-> c, method |-> k]
             one == Counts(e, m, {"PROCESS"})
  <1>1. /\ TypeOK /\ cq' = Append(cq, e) /\ armed[k] > 0 /\ call[c].st = "sent"
        /\ armed \in [Methods -> Nat] /\ allocated \in [Methods -> Int]
        /\ armed' = [armed EXCEPT ![k] = @ - 1] /\ allocated' = allocated
        /\ call \in [Clients -> Call] /\ call' = [call EXCEPT ![c].st = "queued"]
    BY DEF GrpcMatch, TypeInv, TypeOK, GrpcTypeOK
  <1>2. /\ armed'[m] = armed[m] - one /\ one \in {0, 1}
        /\ Counts(e, m, {"PROCESS", "FINISH"}) = one
        /\ armed[m] \in Nat /\ allocated[m] \in Int
    BY <1>1 DEF Counts
  <1>3. /\ Cardinality(EventsOf(m, {"PROCESS"})') = Cardinality(EventsOf(m, {"PROCESS"})) + one
        /\ Cardinality(EventsOf(m, {"PROCESS", "FINISH"})')
             = Cardinality(EventsOf(m, {"PROCESS", "FINISH"})) + one
    BY <1>1, <1>2, EventJoins
  <1>4. Running(m)' = Running(m) /\ Started' = Started
    <2>1. \A x \in Clients : call'[x].req = call[x].req
      BY <1>1 DEF Call
    <2>2. \A u \in RpcThreads : InCall(u) => cur[u] \in Clients
      BY DEF InCall, TypeInv, TypeOK, ServerTypeOK
    <2> QED BY <2>1, <2>2 DEF Running, Started, InCall, Req
  <1>5. /\ Cardinality(EventsOf(m, {"PROCESS"})) \in Nat
        /\ Cardinality(EventsOf(m, {"PROCESS", "FINISH"})) \in Nat
        /\ Cardinality(Running(m)) \in Nat /\ Cardinality(Started) \in Nat
    BY <1>1, EventsFinite, ThreadsCounted
  <1>6. armed' = [armed EXCEPT ![k] = @ - 1] /\ allocated'[m] = allocated[m]
    BY <1>1
  <1> HIDE DEF one, e, k
  <1> QED BY <1>2, <1>3, <1>4, <1>5, <1>6 DEF Accounted, Replenished

LEMMA FinishCounts ==
  ASSUME IsFiniteSet(RpcThreads), TypeInv, NEW t \in RpcThreads, InCall(t),
         NEW answer, Finish(t, answer),
         NEW m \in Methods, Accounted(m), Replenished(m)
  PROVE  Accounted(m)' /\ Replenished(m)'
  <1> DEFINE k == Req(t).method
             e == [kind |-> "FINISH", client |-> cur[t], method |-> k]
             one == Counts(e, m, {"PROCESS", "FINISH"})
  <1>1. /\ TypeOK /\ cq' = Append(cq, e)
        /\ armed \in [Methods -> Nat] /\ allocated \in [Methods -> Int]
        /\ armed' = armed /\ allocated' = allocated
        /\ call \in [Clients -> Call] /\ cur \in [RpcThreads -> Clients \cup {None}]
        /\ pc \in [RpcThreads -> {"boot", "next", "loop", "wait"}]
        /\ call' = [call EXCEPT ![cur[t]].st = "answered", ![cur[t]].answer = answer]
        /\ pc' = [pc EXCEPT ![t] = "next"] /\ cur' = [cur EXCEPT ![t] = None]
    BY DEF Finish, TypeInv, TypeOK, GrpcTypeOK, ServerTypeOK
  <1>2. /\ one = (IF k = m THEN 1 ELSE 0) /\ Counts(e, m, {"PROCESS"}) = 0
        /\ armed[m] \in Nat /\ allocated[m] \in Int
    BY <1>1 DEF Counts
  <1>3. /\ Cardinality(EventsOf(m, {"PROCESS"})') = Cardinality(EventsOf(m, {"PROCESS"})) + 0
        /\ Cardinality(EventsOf(m, {"PROCESS", "FINISH"})')
             = Cardinality(EventsOf(m, {"PROCESS", "FINISH"})) + one
    BY <1>1, <1>2, EventJoins
  <1>4. Running(m)' = Running(m) \ {t}
    <2>1. \A x \in Clients : call'[x].req = call[x].req
      BY <1>1 DEF Call
    <2>2. \A u \in RpcThreads \ {t} :
            (InCall(u)' <=> InCall(u)) /\ cur'[u] = cur[u] /\ (InCall(u) => cur[u] \in Clients)
      BY <1>1 DEF InCall, TypeInv, TypeOK, ServerTypeOK
    <2>3. ~ InCall(t)'
      BY <1>1 DEF InCall
    <2> QED BY <2>1, <2>2, <2>3 DEF Running, Req
  <1>5. Started' = Started
    BY <1>1 DEF Started, InCall
  <1>6. Cardinality(Running(m)') = Cardinality(Running(m)) - one
    <2>1. IsFiniteSet(Running(m)) /\ Cardinality(Running(m)) \in Nat /\ (t \in Running(m) <=> k = m)
      BY ThreadsCounted DEF Running
    <2>2. Cardinality(Running(m) \ {t}) = IF t \in Running(m) THEN Cardinality(Running(m)) - 1
                                                              ELSE Cardinality(Running(m))
      BY <2>1, FS_RemoveElement
    <2> QED BY <1>2, <1>4, <2>1, <2>2
  <1>7. /\ Cardinality(EventsOf(m, {"PROCESS"})) \in Nat
        /\ Cardinality(EventsOf(m, {"PROCESS", "FINISH"})) \in Nat
        /\ Cardinality(Running(m)) \in Nat /\ Cardinality(Started) \in Nat
    BY <1>1, EventsFinite, ThreadsCounted
  <1> QED BY <1>1, <1>2, <1>3, <1>5, <1>6, <1>7 DEF Accounted, Replenished

\* The steps that move no handler object: a handler at work, the worker, and
\* the controllers, whose calls no handler has.
LEMMA OthersCount ==
  ASSUME TypeInv, NEW m \in Methods, Accounted(m), Replenished(m),
         \/ \E t \in RpcThreads : SkipStep(t) \/ ThrowStep(t) \/ TakeStep(t)
         \/ WorkerThread
         \/ \E c \in Clients : Controller(c)
         \/ UNCHANGED vars
  PROVE  Accounted(m)' /\ Replenished(m)'
  <1>1. ASSUME NEW t \in RpcThreads, SkipStep(t) \/ ThrowStep(t) \/ TakeStep(t)
        PROVE  /\ UNCHANGED <<armed, allocated, cq, call, cur>>
               /\ pc \in [RpcThreads -> {"boot", "next", "loop", "wait"}]
               /\ \E from, to \in {"loop", "wait"} : pc[t] = from /\ pc' = [pc EXCEPT ![t] = to]
    <2>1. pc \in [RpcThreads -> {"boot", "next", "loop", "wait"}]
      BY DEF TypeInv, TypeOK, ServerTypeOK
    <2>2. CASE SkipStep(t)
      BY <2>1, <2>2 DEF SkipStep, Skip, grpcVars
    <2>3. CASE ThrowStep(t)
      BY <2>1, <2>3 DEF ThrowStep, Throw, grpcVars
    <2>4. CASE TakeStep(t)
      BY <2>1, <2>4 DEF TakeStep, GotReply, grpcVars
    <2> QED BY <1>1, <2>1, <2>2, <2>3, <2>4
  <1>2. CASE \E t \in RpcThreads : SkipStep(t) \/ ThrowStep(t) \/ TakeStep(t)
    <2>1. Running(m)' = Running(m) /\ Started' = Started
      BY <1>1, <1>2 DEF Running, Started, InCall, Req
    <2> QED BY <1>1, <1>2, <2>1, ObjectsKept
  <1>3. CASE WorkerThread \/ UNCHANGED vars
    <2>1. UNCHANGED <<armed, allocated, cq, call, cur, pc>>
      BY <1>3 DEF WorkerThread, vars, grpcVars, serverVars
    <2>2. Running(m)' = Running(m) /\ Started' = Started
      BY <2>1 DEF Running, Started, InCall, Req
    <2> QED BY <2>1, <2>2, ObjectsKept
  <1>4. ASSUME NEW c \in Clients, Controller(c) PROVE Accounted(m)' /\ Replenished(m)'
    <2>1. UNCHANGED <<armed, allocated, cq, cur, pc>>
      BY <1>4 DEF Controller, CallRpc, ReturnRpc, serverVars
    <2>2. call[c].st # "running" /\ \A b \in Clients \ {c} : call'[b] = call[b]
      BY <1>4 DEF Controller, CallRpc, ReturnRpc, TypeInv, TypeOK, GrpcTypeOK
    <2>3. \A u \in RpcThreads : InCall(u) => cur[u] \in Clients \ {c}
      BY <2>2 DEF InCall, TypeInv, TypeOK, ServerTypeOK, OneHandlerPerCall, HandlersRun
    <2>4. Running(m)' = Running(m) /\ Started' = Started
      BY <2>1, <2>2, <2>3 DEF Running, Started, InCall, Req
    <2> QED BY <2>1, <2>4, ObjectsKept
  <1> QED BY <1>2, <1>3, <1>4

LEMMA StepCounts ==
  ASSUME IsFiniteSet(RpcThreads), TypeInv, [Next]_vars,
         NEW m \in Methods, Accounted(m), Replenished(m)
  PROVE  Accounted(m)' /\ Replenished(m)'
  <1>1. ASSUME NEW t \in RpcThreads, HandleRpcs(t) PROVE Accounted(m)' /\ Replenished(m)'
    <2>1. CASE BootAcceptors(t) \/ BeginCall(t) \/ DeleteCallData(t)
      BY <2>1, BootCounts, BeginCounts, DeleteCounts
    <2>2. CASE Proceed(t)
      <3>1. HandlerStep(t)
        BY <2>2, ProceedSteps
      <3>2. CASE FinishStep(t)
        BY <3>2, FinishCounts DEF FinishStep, InCall
      <3>3. CASE SkipStep(t) \/ ThrowStep(t) \/ TakeStep(t)
        BY <3>3, OthersCount
      <3> QED BY <3>1, <3>2, <3>3 DEF HandlerStep
    <2> QED BY <1>1, <2>1, <2>2 DEF HandleRpcs
  <1>2. ASSUME NEW c \in Clients, Transport(c) PROVE Accounted(m)' /\ Replenished(m)'
    <2>1. GrpcMatch(c) /\ UNCHANGED <<pc, cur>>
      BY <1>2 DEF Transport, serverVars
    <2> QED BY <2>1, MatchCounts
  <1>3. CASE WorkerThread \/ (\E c \in Clients : Controller(c)) \/ UNCHANGED vars
    BY <1>3, OthersCount
  <1> QED BY <1>1, <1>2, <1>3 DEF Next

LEMMA InitCounts ==
  ASSUME Init, NEW m \in Methods
  PROVE  Accounted(m) /\ Replenished(m)
  <1>1. Running(m) = {} /\ Started = {} /\ armed[m] = 0 /\ allocated[m] = 0
    BY DEF Init, GrpcInit, ServerInit, Running, Started, InCall
  <1>2. EventsOf(m, {"PROCESS"}) = {} /\ EventsOf(m, {"PROCESS", "FINISH"}) = {}
    BY DEF Init, GrpcInit, EventsOf
  <1> QED BY <1>1, <1>2, FS_EmptySet DEF Accounted, Replenished

LEMMA CountsHold ==
  ASSUME IsFiniteSet(RpcThreads)
  PROVE  Spec => [](\A m \in Methods : Accounted(m) /\ Replenished(m))
  <1> DEFINE Inv == \A m \in Methods : Accounted(m) /\ Replenished(m)
  <1>1. Init => Inv
    BY InitCounts
  <1>2. TypeInv /\ Inv /\ [Next]_vars => Inv'
    BY StepCounts
  <1> QED BY <1>1, <1>2, TypeInvHolds, PTL DEF Spec

(* However many threads run HandleRpcs, each method's handler objects that *)
(* have not been deleted are its acceptors, those an event of the          *)
(* completion queue points at, and those whose Proceed runs: none is lost, *)
(* none is deleted twice (`delete this', `new ...Data').                   *)
THEOREM HandlerObjects ==
  ASSUME IsFiniteSet(RpcThreads)
  PROVE  Spec => []HandlersAccounted
  <1>1. (\A m \in Methods : Accounted(m) /\ Replenished(m)) => HandlersAccounted
    BY DEF HandlersAccounted, Accounted, Running
  <1> QED BY <1>1, CountsHold, PTL

(* Every thread in its loop keeps one acceptor of every method waiting or  *)
(* just matched, so no method ever runs out of acceptors.                  *)
THEOREM AcceptorsAreThere ==
  ASSUME IsFiniteSet(RpcThreads)
  PROVE  Spec => []AcceptorsReplenished
  <1>1. (\A m \in Methods : Accounted(m) /\ Replenished(m)) => AcceptorsReplenished
    BY DEF AcceptorsReplenished, Replenished, Started
  <1> QED BY <1>1, CountsHold, PTL

----------------------------------------------------------------------------
(* The runtime implements the control plane. *)

\* HandleRpcs runs on one thread, and does run; its messages are not lost.
OneServer == OneThread /\ RpcThreads # {} /\ EnqueuesSucceed

\* No other runtime's id looks like this one's once it is truncated.
NoAlias == \A id \in WorkerIds : ToInt(id) = MyId => id = MyId

\* MigrationTarget is one message: it has one target.
OneTarget == \A r \in Requests : r.method = "SetMigrationTarget" => Len(r.items) <= 1

NoneIsNoClient == None \notin Clients

LEMMA ServerIsIt ==
  ASSUME OneServer
  PROVE  Server \in RpcThreads /\ \A t \in RpcThreads : t = Server
  BY DEF OneServer, OneThread, Server

----------------------------------------------------------------------------
(* What the answer will say, and the check behind a thrown item. *)

\* reply_ of a handler at work: a grant only with a success, and a migration
\* has its success from the moment it is thrown.
Promised(t) ==
  LET m == Req(t).method  p == reply_[t] IN
  /\ m \in ViewMethods => ~ p.succeed
  /\ p.quota = IF m = "SetMigrationTarget" /\ p.succeed THEN Req(t).quota ELSE 0
  /\ m = "SetMigrationTarget" => /\ pc[t] = "wait" => p.succeed
                                 /\ pc[t] = "loop" /\ p.succeed => item[t] > 1

\* The whole check still passes, not only what CheckHolds keeps of it.
Unobjected(t) == ~ Objects(t) /\ Req(t).method # "LivenessCheck"

AtWork(t) ==
  /\ ~ InCall(t) => cur[t] = None
  /\ pc[t] = "wait" => Unobjected(t)
  /\ InCall(t) => Promised(t)

PlaneInv ==
  /\ SafeInv /\ IdleIsFresh /\ QueriesAnswered /\ AskedFor /\ StoredAsRequested
  /\ \A t \in RpcThreads : AtWork(t)

LEMMA ObjectionKept ==
  ASSUME NEW t \in RpcThreads, Req(t)' = Req(t), item'[t] = item[t],
         UNCHANGED <<viewlist, replicalist>>
  PROVE  Objects(t)' <=> Objects(t)
  BY DEF Objects, TheItem, ItemKey, Present, MigrationObjection, AddReplicaObjection,
         ReplicaObjection, QueryObjection, ListsObjection

LEMMA TakePromises ==
  ASSUME PlaneInv, NEW t \in RpcThreads, TakeEffect(t)
  PROVE  Promised(t)'
  <1>1. /\ TypeInv /\ pc[t] = "wait" /\ pc'[t] = "loop" /\ InCall(t) /\ MoreItems(t)
        /\ item'[t] = item[t] + 1 /\ item[t] \in Nat \ {0}
        /\ Req(t)' = Req(t) /\ reply_'[t] = Told(t) /\ reply_[t] \in Pending
        /\ Promised(t)
    BY TakeMoves DEF PlaneInv, SafeInv, AtWork, TypeInv, TypeOK, ServerTypeOK
  <1>2. CASE Told(t) = reply_[t]
    BY <1>1, <1>2 DEF Promised
  <1>3. CASE Req(t).method \in ReplicaMethods /\ Told(t) = [reply_[t] EXCEPT !.succeed = TRUE]
    <2>1. Req(t).method \notin ViewMethods \cup {"SetMigrationTarget"}
      BY <1>3, MethodKinds DEF ReplicaMethods
    <2>2. reply_'[t].quota = 0
      BY <1>1, <1>3, <2>1 DEF Promised, Pending
    <2> QED BY <1>1, <2>1, <2>2 DEF Promised
  <1>4. CASE Req(t).method \in QueryMethods /\ \E s : Told(t) = [NoPending EXCEPT !.succeed = s]
    <2>1. Req(t).method \notin ViewMethods \cup {"SetMigrationTarget"}
      BY <1>4, MethodKinds DEF QueryMethods
    <2>2. reply_'[t].quota = 0
      <3>1. PICK s : reply_'[t] = [NoPending EXCEPT !.succeed = s]
        BY <1>1, <1>4
      <3> QED BY <3>1 DEF NoPending
    <2> QED BY <1>1, <2>1, <2>2 DEF Promised
  <1>5. \/ Told(t) = reply_[t]
        \/ Req(t).method \in ReplicaMethods /\ Told(t) = [reply_[t] EXCEPT !.succeed = TRUE]
        \/ Req(t).method \in QueryMethods /\ \E s : Told(t) = [NoPending EXCEPT !.succeed = s]
    BY DEF Told, QueryMethods
  <1> QED BY <1>2, <1>3, <1>4, <1>5

LEMMA ThrowPromises ==
  ASSUME PlaneInv, NEW t \in RpcThreads, ThrowEffect(t)
  PROVE  Promised(t)'
  <1>1. /\ TypeInv /\ pc[t] = "loop" /\ pc'[t] = "wait" /\ UNCHANGED item
        /\ Req(t)' = Req(t) /\ reply_'[t] = Settled(t) /\ reply_[t] \in Pending
        /\ Promised(t)
    BY ThrowMoves DEF PlaneInv, SafeInv, AtWork, TypeInv, TypeOK, ServerTypeOK, InCall
  <1>2. CASE Req(t).method = "SetMigrationTarget"
    <2>1. reply_'[t].succeed /\ reply_'[t].quota = Req(t).quota
      BY <1>1, <1>2 DEF Settled, Pending
    <2> QED BY <1>1, <1>2, <2>1, MethodKinds DEF Promised
  <1>3. CASE Req(t).method # "SetMigrationTarget"
    BY <1>1, <1>3 DEF Promised, Settled
  <1> QED BY <1>2, <1>3

LEMMA AtWorkKept ==
  ASSUME OneServer, PlaneInv, IdleIsFresh', [Next]_vars, NEW t \in RpcThreads
  PROVE  AtWork(t)'
  <1>0. /\ TypeInv /\ AtWork(t) /\ reply_[t] \in Pending /\ item[t] \in Nat \ {0}
        /\ pc \in [RpcThreads -> {"boot", "next", "loop", "wait"}]
        /\ cur \in [RpcThreads -> Clients \cup {None}]
    BY DEF PlaneInv, SafeInv, TypeInv, TypeOK, ServerTypeOK
  <1>1. CASE Elsewhere
    <2>1. UNCHANGED <<viewlist, replicalist, reply_, item, pc, cur>>
      BY <1>1 DEF Elsewhere, serverVars
    <2>2. InCall(t) => Req(t)' = Req(t)
      BY <1>1 DEF Elsewhere
    <2>3. pc[t] = "wait" => InCall(t)
      BY DEF InCall
    <2>4. pc[t] = "wait" => Unobjected(t)'
      BY <1>0, <2>1, <2>2, <2>3, ObjectionKept DEF AtWork, Unobjected
    <2>5. InCall(t) => Promised(t)'
      BY <1>0, <2>1, <2>2 DEF AtWork, Promised
    <2> QED BY <1>0, <2>1, <2>4, <2>5 DEF AtWork, InCall
  <1>2. ASSUME NEW u \in RpcThreads, ServerStep(u) PROVE AtWork(t)'
    <2>0. u = t
      BY DEF OneServer, OneThread
    <2>1. CASE BootAcceptors(t)
      BY <1>0, <2>1 DEF BootAcceptors, AtWork, InCall
    <2>2. CASE BeginCall(t)
      <3>1. reply_'[t] = NoPending /\ pc'[t] = "loop"
        BY <1>0, <2>2, BeginMoves DEF PlaneInv, IdleIsFresh
      <3>2. ~ reply_'[t].succeed
        BY <3>1, NoPendingFails
      <3>3. reply_'[t].quota = 0
        BY <3>1, NoPendingGrants
      <3>4. Promised(t)'
        BY <3>1, <3>2, <3>3 DEF Promised
      <3> QED BY <3>1, <3>4 DEF AtWork, InCall
    <2>3. CASE SkipEffect(t)
      <3>1. /\ Req(t)' = Req(t) /\ item'[t] = item[t] + 1 /\ pc[t] = "loop" /\ UNCHANGED <<pc, cur>>
            /\ Promised(t)
        BY <1>0, <2>3, SkipMoves DEF AtWork, InCall
      <3>2. reply_'[t].succeed = reply_[t].succeed /\ reply_'[t].quota = reply_[t].quota
        BY <1>0, <2>3, SkipMoves DEF Pending
      <3>3. Promised(t)'
        BY <1>0, <3>1, <3>2 DEF Promised
      <3> QED BY <3>1, <3>3 DEF AtWork, InCall
    <2>4. CASE ThrowEffect(t)
      <3>1. Promised(t)' /\ pc'[t] = "wait"
        BY <1>0, <2>4, ThrowPromises, ThrowMoves
      <3>2. Unobjected(t)'
        BY <1>0, <2>4, ThrowMoves, ObjectionKept DEF Unobjected, ThrowEffect
      <3> QED BY <3>1, <3>2 DEF AtWork, InCall
    <2>5. CASE TakeEffect(t)
      BY <1>0, <2>5, TakePromises, TakeMoves DEF AtWork, InCall
    <2>6. CASE FinishEffect(t)
      BY <1>0, <2>6 DEF FinishEffect, Finish, AtWork, InCall
    <2> QED BY <1>2, <2>0, <2>1, <2>2, <2>3, <2>4, <2>5, <2>6 DEF ServerStep
  <1> QED BY <1>0, <1>1, <1>2, StepCases

LEMMA PlaneInvHolds == ASSUME OneServer PROVE Spec => []PlaneInv
  <1> DEFINE Rest == IdleIsFresh /\ QueriesAnswered /\ \A t \in RpcThreads : AtWork(t)
  <1>0. OneThread /\ EnqueuesSucceed
    BY DEF OneServer
  <1>1. Init => Rest
    BY DEF Init, ServerInit, IdleIsFresh, QueriesAnswered, AtWork, InCall
  <1>2. SafeInv /\ AskedFor /\ StoredAsRequested /\ Rest /\ [Next]_vars => Rest'
    <2> SUFFICES ASSUME SafeInv, AskedFor, StoredAsRequested, Rest, [Next]_vars PROVE Rest'
      OBVIOUS
    <2>1. PlaneInv /\ TypeInv
      BY DEF PlaneInv, SafeInv
    <2>2. IdleIsFresh' /\ QueriesAnswered'
      BY <1>0, <2>1, FreshKept, QueriesKept
    <2>3. \A t \in RpcThreads : AtWork(t)'
      BY <2>1, <2>2, AtWorkKept
    <2> QED BY <2>2, <2>3
  <1>3. SafeInv /\ AskedFor /\ StoredAsRequested /\ Rest => PlaneInv
    BY DEF PlaneInv
  <1> HIDE DEF Rest
  <1> QED BY <1>0, <1>1, <1>2, <1>3, SafeInvHolds, AskedForHolds, EntriesAreRequested, PTL DEF Spec

----------------------------------------------------------------------------
(* What the control plane sees of the tables, the items and the answers. *)

\* A list without repetition has the keys of a table just when it is as long
\* as the table and holds none but its keys.
LEMMA ComparedAsSets ==
  ASSUME NEW ids \in Seq(WorkerIds), Distinct(ids), NEW D \in SUBSET Key
  PROVE  (Len(ids) = Cardinality(D) /\ Keys(ids) \subseteq D) <=> Keys(ids) = D
  <1> DEFINE S == 1 .. Len(ids)
             f == [i \in S |-> ToInt(ids[i])]
  <1>0. IsFiniteSet(S) /\ Cardinality(S) = Len(ids)
    <2>1. Len(ids) \in Nat
      OBVIOUS
    <2>2. IsFiniteSet(S) /\ Cardinality(S) = IF 1 > Len(ids) THEN 0 ELSE Len(ids) - 1 + 1
      BY <2>1, FS_Interval
    <2> QED BY <2>1, <2>2
  <1>1. ASSUME Keys(ids) = D PROVE Len(ids) = Cardinality(D)
    <2>2. \A i \in S : f[i] \in D
      BY <1>1 DEF Keys
    <2>3. \A k \in D : \E i \in S : f[i] = k
      BY <1>1 DEF Keys
    <2>4. \A i, j \in S : f[i] = f[j] => i = j
      BY DEF Distinct
    <2>5. f \in [S -> D]
      BY <2>2
    <2>6. f \in Bijection(S, D)
      BY <2>3, <2>4, <2>5 DEF Bijection, Injection, IsInjective, Surjection
    <2>7. ExistsBijection(S, D)
      BY <2>6 DEF ExistsBijection
    <2> QED BY <1>0, <2>7, FS_Bijection
  <1> QED BY <1>1, SameSize

\* What a check says: nothing, or why not.
Says(why) == why # ""

LEMMA ListsCompared ==
  ASSUME TypeOK, NEW it \in Item, Distinct(it.inputs), Distinct(it.outputs)
  PROVE  Says(ListsObjection(it)) <=> ~ (/\ Keys(it.inputs) = DOMAIN viewlist["input"]
                                         /\ Keys(it.outputs) = DOMAIN viewlist["output"])
  <1>1. it.inputs \in Seq(WorkerIds) /\ it.outputs \in Seq(WorkerIds)
    BY DEF Item
  <1>2. DOMAIN viewlist["input"] \in SUBSET Key /\ DOMAIN viewlist["output"] \in SUBSET Key
    BY DEF TypeOK, ServerTypeOK, IsViewMap, Dirs
  <1>3. Says(ListsObjection(it)) <=>
          ~ (/\ Len(it.inputs) = Cardinality(DOMAIN viewlist["input"])
             /\ Keys(it.inputs) \subseteq DOMAIN viewlist["input"]
             /\ Len(it.outputs) = Cardinality(DOMAIN viewlist["output"])
             /\ Keys(it.outputs) \subseteq DOMAIN viewlist["output"])
    BY Zenon DEF ListsObjection, Says
  <1> QED BY <1>1, <1>2, <1>3, ComparedAsSets

\* The names of the data in the two modules.
LEMMA SameData ==
  /\ \A id : Plane!ToInt(id) = ToInt(id)
  /\ \A ids : Plane!Keys(ids) = Keys(ids)
  /\ Plane!Dirs = Dirs /\ Plane!Tables = Tables
  /\ Plane!AddMethod = AddMethod /\ Plane!DeleteMethod = DeleteMethod
  /\ Plane!ViewMethods = ViewMethods /\ Plane!QueryMethods = QueryMethods
  /\ Plane!ReplicaMethods = ReplicaMethods /\ Plane!NoRequest = NoRequest
  BY DEF Plane!ToInt, ToInt, Plane!Keys, Keys, Plane!Dirs, Dirs, Plane!Tables, Tables,
         Plane!AddMethod, AddMethod, Plane!DeleteMethod, DeleteMethod, Plane!ViewMethods,
         ViewMethods, Plane!QueryMethods, QueryMethods, Plane!ReplicaMethods, ReplicaMethods,
         Plane!NoRequest, NoRequest

LEMMA PlaneObjects ==
  ASSUME NEW m, NEW it
  PROVE  Plane!Objectionable(m, it) <=>
           LET k == ToInt(it.view.worker_id) IN
           \/ \E d \in Dirs : \/ m = AddMethod[d] /\ k \in acknowledged[d]
                              \/ m = DeleteMethod[d] /\ k \notin acknowledged[d]
           \/ m \in {"SetMigrationTarget"} \cup QueryMethods /\ k # MyId
           \/ m \in ReplicaMethods /\ k = MyId
           \/ m = "AddReplicas" /\ k \in acknowledged["replica"]
           \/ m \in {"DeleteReplicas", "Recover"} /\ k \notin acknowledged["replica"]
           \/ /\ m \in {"SetMigrationTarget", "AddReplicas"}
              /\ ~ (/\ Keys(it.inputs) = acknowledged["input"]
                    /\ Keys(it.outputs) = acknowledged["output"])
  BY SameData DEF Plane!Objectionable, Plane!KeyOf, Plane!SameLists

\* The checks of the handlers are those of the control plane.
LEMMA SameObjections ==
  ASSUME NoAlias, DistinctLists, PlaneInv, NEW t \in RpcThreads, InCall(t), MoreItems(t),
         acknowledged = TableKeys
  PROVE  Objects(t) <=> Plane!Objectionable(Req(t).method, TheItem(t))
  <1> DEFINE m == Req(t).method
             it == TheItem(t)
             id == it.view.worker_id
             same == /\ Keys(it.inputs) = acknowledged["input"]
                     /\ Keys(it.outputs) = acknowledged["output"]
  <1>1. TypeOK /\ Req(t) \in Requests /\ item[t] \in DOMAIN Req(t).items
    BY ItemAsked DEF PlaneInv, SafeInv, TypeInv
  <1>2. it \in Item /\ id \in WorkerIds /\ Distinct(it.inputs) /\ Distinct(it.outputs)
    BY <1>1, ItemType DEF DistinctLists, TheItem, View
  <1>3. ItemKey(t) = ToInt(id) /\ (ToInt(id) = MyId <=> id = MyId)
    <2>1. ToInt(MyId) = MyId
      BY ConstantsAssumption, ToIntTwice DEF Key
    <2> QED BY <1>2, <2>1 DEF NoAlias, ItemKey
  <1>4. /\ \A d \in Dirs : acknowledged[d] = DOMAIN viewlist[d]
        /\ acknowledged["replica"] = DOMAIN replicalist
    BY DEF TableKeys, Tables, Dirs
  <1>5. Says(ListsObjection(it)) <=> ~ same
    BY <1>1, <1>2, <1>4, ListsCompared DEF Dirs
  <1>6. Says(MigrationObjection(it)) <=> (ToInt(id) # MyId \/ ~ same)
    <2>1. Says(MigrationObjection(it)) <=> (id # MyId \/ Says(ListsObjection(it)))
      BY Zenon DEF MigrationObjection, Says
    <2> QED BY <1>3, <1>5, <2>1
  <1>7. Says(AddReplicaObjection(it)) <=>
          (ToInt(id) = MyId \/ ToInt(id) \in acknowledged["replica"] \/ ~ same)
    <2>1. Says(AddReplicaObjection(it)) <=>
            (id = MyId \/ ToInt(id) \in DOMAIN replicalist \/ Says(ListsObjection(it)))
      BY Zenon DEF AddReplicaObjection, Says
    <2> QED BY <1>3, <1>4, <1>5, <2>1
  <1>8. Says(ReplicaObjection(it)) <=> (ToInt(id) = MyId \/ ToInt(id) \notin acknowledged["replica"])
    <2>1. Says(ReplicaObjection(it)) <=> (id = MyId \/ ToInt(id) \notin DOMAIN replicalist)
      BY Zenon DEF ReplicaObjection, Says
    <2> QED BY <1>3, <1>4, <2>1
  <1>9. Says(QueryObjection(it)) <=> ToInt(id) # MyId
    <2>1. Says(QueryObjection(it)) <=> id # MyId
      BY Zenon DEF QueryObjection, Says
    <2> QED BY <1>3, <2>1
  <1>10. \A d \in Dirs : Present(t, d) <=> ToInt(id) \in acknowledged[d]
    BY <1>3, <1>4 DEF Present
  <1>11. Objects(t) <=>
           \/ \E d \in Dirs : \/ m = AddMethod[d] /\ Present(t, d)
                              \/ m = DeleteMethod[d] /\ ~ Present(t, d)
           \/ m = "SetMigrationTarget" /\ Says(MigrationObjection(it))
           \/ m = "AddReplicas" /\ Says(AddReplicaObjection(it))
           \/ m \in {"DeleteReplicas", "Recover"} /\ Says(ReplicaObjection(it))
           \/ m \in QueryMethods /\ Says(QueryObjection(it))
    BY Zenon DEF Objects, Says
  <1> QED BY <1>6, <1>7, <1>8, <1>9, <1>10, <1>11, PlaneObjects DEF ReplicaMethods

\* An accepted item changes the same keys on both sides.
LEMMA SameChange ==
  ASSUME PlaneInv, NEW t \in RpcThreads, InCall(t), MoreItems(t)
  PROVE  Accept(Thrown(t), acknowledged)
           = [b \in Tables |-> Plane!Changed(Req(t).method, TheItem(t), b)]
  <1>1. /\ Thrown(t).action = Req(t).method /\ ToInt(Thrown(t).worker_id) = ItemKey(t)
        /\ Plane!KeyOf(TheItem(t)) = ItemKey(t)
    BY ThrownType, SameData DEF PlaneInv, SafeInv, TypeInv, ItemKey, Plane!KeyOf
  <1> SUFFICES ASSUME NEW b \in Tables
               PROVE  Accept(Thrown(t), acknowledged)[b]
                        = Plane!Changed(Req(t).method, TheItem(t), b)
    BY DEF Accept
  <1> QED BY <1>1, MethodNames, SameData DEF Accept, Plane!Changed, Tables, Dirs

\* The views answered stand for the keys of the table.
LEMMA AnsweredWhole ==
  ASSUME PlaneInv, NEW b \in Tables, NEW addr \in Byte
  PROVE  AnsweredKeys(Encoded(addr, Table(b))) = DOMAIN Table(b)
  <1>1. \A k \in DOMAIN Table(b) : ToInt(Table(b)[k].worker_id) = k
    BY DEF PlaneInv, StoredAsRequested, Table
  <1> DEFINE E == Encoded(addr, Table(b))
  <1>2. \A v \in E : \E k \in DOMAIN Table(b) : v.worker_id = Table(b)[k].worker_id
    <2> SUFFICES ASSUME NEW v \in E
                 PROVE  \E k \in DOMAIN Table(b) : v.worker_id = Table(b)[k].worker_id
      OBVIOUS
    <2>1. PICK k \in DOMAIN Table(b) : v = view_local2rpc(addr, Table(b)[k])
      BY DEF Encoded
    <2>2. v.worker_id = Table(b)[k].worker_id
      BY <2>1 DEF view_local2rpc
    <2> QED BY <2>2
  <1>3. \A k \in DOMAIN Table(b) : \E v \in E : v.worker_id = Table(b)[k].worker_id
    <2> SUFFICES ASSUME NEW k \in DOMAIN Table(b)
                 PROVE  \E v \in E : v.worker_id = Table(b)[k].worker_id
      OBVIOUS
    <2>1. view_local2rpc(addr, Table(b)[k]) \in E
      BY DEF Encoded
    <2>2. view_local2rpc(addr, Table(b)[k]).worker_id = Table(b)[k].worker_id
      BY DEF view_local2rpc
    <2> QED BY <2>1, <2>2
  <1> HIDE DEF E
  <1>4. ASSUME NEW k \in AnsweredKeys(E) PROVE k \in DOMAIN Table(b)
    <2>1. PICK v \in E : k = ToInt(v.worker_id)
      BY DEF AnsweredKeys
    <2>2. PICK x \in DOMAIN Table(b) : v.worker_id = Table(b)[x].worker_id
      BY <1>2
    <2> QED BY <1>1, <2>1, <2>2
  <1>5. ASSUME NEW k \in DOMAIN Table(b) PROVE k \in AnsweredKeys(E)
    <2>1. PICK v \in E : v.worker_id = Table(b)[k].worker_id
      BY <1>3
    <2>2. k = ToInt(v.worker_id)
      BY <1>1, <2>1
    <2> QED BY <2>2 DEF AnsweredKeys
  <1>6. AnsweredKeys(E) = DOMAIN Table(b)
    BY <1>4, <1>5
  <1> QED BY <1>6 DEF E

LEMMA AnswerShown ==
  ASSUME OneServer, PlaneInv, InCall(Server), acknowledged = TableKeys, pc[Server] = "loop",
         NEW addr \in Byte
  PROVE  ShownAnswer(AnswerOf(Server, addr)) = Plane!Shown
  <1> DEFINE t == Server
             m == Req(t).method
             a == AnswerOf(t, addr)
             p == reply_[t]
  <1>1. /\ t \in RpcThreads /\ TypeOK /\ Promised(t) /\ p \in Pending
        /\ Req(t) \in Request
    BY ServerIsIt, ReqType DEF PlaneInv, SafeInv, TypeInv, TypeOK, ServerTypeOK, AtWork
  <1>2. Plane!Method = m /\ ShownCall[cur[t]].req.quota = Req(t).quota
    BY <1>1, ReqType DEF Plane!Method, ShownCall, Req
  <1>3. Succeeded <=> p.succeed
    BY DEF Succeeded, Decided
  <1>4. /\ \A d \in Dirs : acknowledged[d] = DOMAIN viewlist[d]
        /\ acknowledged["replica"] = DOMAIN replicalist
    BY DEF TableKeys, Tables, Dirs
  <1>5. /\ \A d \in Dirs : AnsweredKeys(Encoded(addr, viewlist[d])) = DOMAIN viewlist[d]
        /\ AnsweredKeys(Encoded(addr, replicalist)) = DOMAIN replicalist
        /\ AnsweredKeys({}) = {}
    <2>1. \A d \in Dirs : d \in Tables /\ Table(d) = viewlist[d]
      BY DEF Tables, Table
    <2>2. "replica" \in Tables /\ Table("replica") = replicalist
      BY DEF Tables, Table, Dirs
    <2> QED BY <2>1, <2>2, AnsweredWhole DEF AnsweredKeys
  <1>6. CASE m \in ViewMethods
    <2>1. a = CurrentView(addr)
      BY <1>6 DEF AnswerOf
    <2>2. /\ a.succeed = FALSE /\ a.quota = 0 /\ a.replicas = {}
          /\ a.views = [d \in Dirs |-> Encoded(addr, viewlist[d])]
      BY <2>1 DEF CurrentView, NoAnswer
    <2>3. ~ p.succeed /\ m \notin {"LivenessCheck", "SetMigrationTarget", "AddReplicas", "DeleteReplicas"}
      BY <1>1, <1>6, MethodKinds DEF Promised
    <2>4. ShownAnswer(a) = [succeed |-> FALSE, quota |-> 0,
                            views |-> [d \in Dirs |-> acknowledged[d]], replicas |-> {}]
      BY <1>4, <1>5, <2>2 DEF ShownAnswer
    <2> QED BY <1>2, <1>3, <1>6, <2>3, <2>4, SameData DEF Plane!Shown
  <1>7. CASE m \notin ViewMethods
    <2>1. /\ a.succeed = (p.succeed \/ m = "LivenessCheck") /\ a.quota = p.quota
          /\ a.views = [d \in Dirs |-> {}]
          /\ a.replicas = IF m \in {"AddReplicas", "DeleteReplicas"}
                          THEN Encoded(addr, replicalist) ELSE {}
      BY <1>7 DEF AnswerOf, PlainAnswer
    <2>2. p.quota = IF m = "SetMigrationTarget" /\ p.succeed THEN Req(t).quota ELSE 0
      BY <1>1 DEF Promised
    <2>3. ShownAnswer(a) = [succeed |-> p.succeed \/ m = "LivenessCheck", quota |-> p.quota,
                            views |-> [d \in Dirs |-> {}],
                            replicas |-> IF m \in {"AddReplicas", "DeleteReplicas"}
                                         THEN acknowledged["replica"] ELSE {}]
      BY <1>4, <1>5, <2>1 DEF ShownAnswer
    <2> QED BY <1>2, <1>3, <1>7, <2>2, <2>3, SameData DEF Plane!Shown
  <1> QED BY <1>6, <1>7

----------------------------------------------------------------------------
(* The steps, one by one. *)

\* Between two items nothing is decided that the handler has not seen.
LEMMA NothingDecided ==
  ASSUME OneServer, PlaneInv, pc[Server] # "wait"
  PROVE  /\ rte_ring_reply = <<>> /\ ~ Decided /\ acknowledged = TableKeys
         /\ ItemDecided = item[Server]
         /\ Succeeded <=> InCall(Server) /\ reply_[Server].succeed
  <1>1. Server \in RpcThreads
    BY ServerIsIt
  <1>2. rte_ring_reply = <<>> /\ acknowledged = TableKeys
    BY <1>1 DEF PlaneInv, SafeInv, RingProtocol, AtRest, WorkerAhead, ListsAgreeWithWorker
  <1> QED BY <1>2 DEF Decided, ItemDecided, Succeeded

LEMMA ServerType ==
  ASSUME OneServer, PlaneInv
  PROVE  /\ TypeInv /\ Server \in RpcThreads
         /\ pc \in [RpcThreads -> {"boot", "next", "loop", "wait"}]
         /\ cur \in [RpcThreads -> Clients \cup {None}]
         /\ item \in [RpcThreads -> Nat \ {0}]
         /\ reply_ \in [RpcThreads -> Pending]
         /\ call \in [Clients -> Call]
  BY ServerIsIt DEF PlaneInv, SafeInv, TypeInv, TypeOK, ServerTypeOK, GrpcTypeOK

LEMMA QuietShows ==
  ASSUME OneServer, PlaneInv, BootAcceptors(Server) \/ DeleteCallData(Server), UNCHANGED workerVars
  PROVE  UNCHANGED Plane!vars
  <1>1. pc[Server] \in {"boot", "next"} /\ pc'[Server] = "next"
        /\ UNCHANGED <<rte_ring_reply, acknowledged, call, cur, item, reply_>>
    BY ServerType DEF BootAcceptors, DeleteCallData, ringVars, serverVars, workerVars
  <1>2. ~ Decided' /\ ~ Succeeded' /\ ItemDecided' = item[Server] /\ ShownCall' = ShownCall
    BY <1>1 DEF Decided, Succeeded, ItemDecided, InCall, ShownCall
  <1>3. ~ Succeeded /\ ItemDecided = item[Server]
    BY <1>1, NothingDecided DEF InCall
  <1>4. Succeeded' = Succeeded
    BY <1>2, <1>3 DEF Succeeded
  <1> QED BY <1>1, <1>2, <1>3, <1>4 DEF Plane!vars

LEMMA ThrowShows ==
  ASSUME OneServer, OneTarget, PlaneInv, ThrowEffect(Server), UNCHANGED workerVars
  PROVE  UNCHANGED Plane!vars
  <1> DEFINE t == Server
             m == Req(t).method
  <1>1. /\ TypeInv /\ t \in RpcThreads /\ pc[t] = "loop" /\ pc'[t] = "wait"
        /\ UNCHANGED <<grpcVars, cur, item>> /\ UNCHANGED rte_ring_reply /\ UNCHANGED acknowledged
        /\ Req(t)' = Req(t) /\ reply_'[t] = Settled(t) /\ InCall(t) /\ InCall(t)'
    BY ServerType, ThrowMoves DEF ThrowEffect, Throw, ThrowRequest, workerVars, InCall
  <1>2. /\ rte_ring_reply = <<>> /\ ItemDecided = item[t] /\ (Succeeded <=> reply_[t].succeed)
    BY <1>1, NothingDecided
  <1>3. ~ Decided' /\ ItemDecided' = item[t] /\ ShownCall' = ShownCall
    BY <1>1, <1>2 DEF Decided, ItemDecided, ShownCall, grpcVars
  <1>4. Succeeded' <=> Settled(t).succeed /\ m # "SetMigrationTarget"
    BY <1>1, <1>3 DEF Succeeded
  <1>5. CASE m # "SetMigrationTarget"
    <2>1. Succeeded' = Succeeded
      BY <1>2, <1>4, <1>5 DEF Settled, Succeeded
    <2> QED BY <1>1, <1>2, <1>3, <2>1 DEF Plane!vars
  <1>6. CASE m = "SetMigrationTarget"
    <2>1. MoreItems(t) /\ Promised(t)
      BY <1>1 DEF ThrowEffect, CheckHolds, PlaneInv, AtWork
    <2>2. Req(t) \in Requests
      BY <1>1, <2>1, ItemAsked DEF PlaneInv, TypeInv
    <2>3. ~ (item[t] > 1)
      <3>1. Len(Req(t).items) <= 1 /\ Len(Req(t).items) \in Nat /\ item[t] \in Nat
        BY <1>1, <1>6, <2>2, ServerType, ReqType DEF OneTarget, TypeInv, Request
      <3> QED BY <2>1, <3>1 DEF MoreItems
    <2>4. ~ Succeeded /\ ~ Succeeded'
      BY <1>1, <1>2, <1>4, <1>6, <2>1, <2>3 DEF Promised
    <2>5. Succeeded' = Succeeded
      BY <2>4 DEF Succeeded
    <2> QED BY <1>1, <1>2, <1>3, <2>5 DEF Plane!vars
  <1> QED BY <1>5, <1>6

LEMMA TakeShows ==
  ASSUME OneServer, WorkerSaysYes, PlaneInv, TakeEffect(Server), UNCHANGED workerVars
  PROVE  UNCHANGED Plane!vars
  <1> DEFINE t == Server
             m == Req(t).method
  <1>1. /\ TypeInv /\ t \in RpcThreads /\ pc[t] = "wait" /\ pc'[t] = "loop" /\ MoreItems(t)
        /\ UNCHANGED <<grpcVars, cur>> /\ UNCHANGED acknowledged
        /\ item'[t] = item[t] + 1 /\ rte_ring_reply # <<>>
        /\ Req(t)' = Req(t) /\ reply_'[t] = Told(t) /\ InCall(t) /\ InCall(t)'
        /\ reply_[t] \in Pending /\ Promised(t) /\ m # "LivenessCheck" /\ Req(t) \in Request
    BY ServerType, TakeMoves, ReqType DEF TakeEffect, workerVars, InCall, PlaneInv, AtWork, TypeInv
  <1>2. Accepted
    <2>1. AtReplyRing(t)
      BY <1>1 DEF PlaneInv, SafeInv, RingProtocol, AtRequestRing, AtWorker
    <2>2. PICK verdict \in Verdicts : rte_ring_reply = <<ReplyTo(Thrown(t), verdict)>>
      BY <2>1 DEF AtReplyRing
    <2>3. Accepted = verdict
      BY <2>2 DEF Accepted, ReplyTo
    <2> QED BY <2>3 DEF WorkerSaysYes
  <1>3. Decided /\ ItemDecided = item[t] + 1
    BY <1>1 DEF Decided, ItemDecided
  <1>4. ~ Decided' /\ ItemDecided' = item[t] + 1 /\ ShownCall' = ShownCall
    BY <1>1 DEF Decided, ItemDecided, ShownCall, grpcVars
  <1>5. Succeeded <=> \/ m \notin ViewMethods
                      \/ reply_[t].succeed /\ m # "SetMigrationTarget"
    BY <1>1, <1>2, <1>3 DEF Succeeded, Accepted
  <1>6. Succeeded' <=> Told(t).succeed
    BY <1>1, <1>4 DEF Succeeded
  <1>7. Succeeded <=> Told(t).succeed
    <2>1. CASE m \in ViewMethods
      <3>1. m \notin ReplicaMethods \cup QueryMethods
        BY <2>1, MethodKinds DEF ReplicaMethods, QueryMethods
      <3>2. Told(t) = reply_[t]
        BY <3>1 DEF Told, QueryMethods
      <3> QED BY <1>1, <1>5, <2>1, <3>2 DEF Promised
    <2>2. CASE m \in ReplicaMethods
      <3>1. Told(t).succeed
        BY <1>1, <1>2, <2>2 DEF Told, Pending
      <3>2. m \notin ViewMethods
        BY <2>2, MethodKinds DEF ReplicaMethods
      <3> QED BY <1>5, <3>1, <3>2
    <2>3. CASE m \in QueryMethods
      <3>1. /\ m = "QueryRuntimeInfo" => runtimeinfo
            /\ m = "QueryRuntimeStat" => runtimestat
        BY <1>1 DEF PlaneInv, QueriesAnswered
      <3>2. m \notin ViewMethods \cup ReplicaMethods
        BY <2>3, MethodKinds DEF ReplicaMethods, QueryMethods
      <3>3. /\ m = "QueryRuntimeInfo" => Told(t) = [NoPending EXCEPT !.succeed = runtimeinfo]
            /\ m = "QueryRuntimeStat" => Told(t) = [NoPending EXCEPT !.succeed = runtimestat]
        BY <1>2, <3>2 DEF Told
      <3>4. \A s : [NoPending EXCEPT !.succeed = s].succeed = s
        BY DEF NoPending
      <3>5. Told(t).succeed
        BY <2>3, <3>1, <3>3, <3>4 DEF QueryMethods
      <3> QED BY <1>5, <3>2, <3>5
    <2>4. CASE m = "SetMigrationTarget"
      <3>1. m \notin ReplicaMethods \cup QueryMethods \cup ViewMethods
        BY <2>4, MethodKinds DEF ReplicaMethods, QueryMethods
      <3>2. Told(t) = reply_[t]
        BY <3>1 DEF Told, QueryMethods
      <3> QED BY <1>1, <1>5, <2>4, <3>1, <3>2 DEF Promised
    <2> QED BY <1>1, <2>1, <2>2, <2>3, <2>4 DEF Request, Methods
  <1>8. Succeeded' = Succeeded
    BY <1>6, <1>7 DEF Succeeded
  <1> QED BY <1>1, <1>3, <1>4, <1>8 DEF Plane!vars

LEMMA SkipObjects ==
  ASSUME OneServer, NoAlias, DistinctLists, NoneIsNoClient, PlaneInv, SkipEffect(Server),
         UNCHANGED workerVars
  PROVE  Plane!Object
  <1> DEFINE t == Server
  <1>1. /\ TypeInv /\ t \in RpcThreads /\ pc[t] = "loop" /\ InCall(t) /\ MoreItems(t) /\ Objects(t)
        /\ UNCHANGED <<grpcVars, pc, cur>> /\ UNCHANGED <<rte_ring_reply, acknowledged>>
        /\ Req(t)' = Req(t) /\ item'[t] = item[t] + 1 /\ cur[t] \in Clients
        /\ reply_'[t].succeed = reply_[t].succeed
    <2>1. PICK why \in Reasons : reply_'[t] = [reply_[t] EXCEPT !.fail_reason = why]
      BY ServerType, SkipMoves
    <2>2. reply_'[t].succeed = reply_[t].succeed
      BY <2>1, ServerType DEF Pending
    <2>3. pc[t] = "loop" /\ InCall(t)
      BY DEF SkipEffect, InCall
    <2> QED BY <2>2, <2>3, ServerType, SkipMoves, ReqType
            DEF SkipEffect, workerVars, ringVars, TypeInv
  <1>2. /\ acknowledged = TableKeys /\ ItemDecided = item[t] /\ ~ Decided
        /\ (Succeeded <=> reply_[t].succeed)
    BY <1>1, NothingDecided
  <1>3. ItemDecided' = item[t] + 1 /\ ShownCall' = ShownCall
    BY <1>1 DEF Decided, ItemDecided, ShownCall, grpcVars
  <1>4. Succeeded' = Succeeded
    BY <1>1 DEF Succeeded, Decided, InCall
  <1>5. Plane!Method = Req(t).method /\ Plane!Items = Req(t).items
    BY <1>1 DEF Plane!Method, Plane!Items, ShownCall, Req
  <1>6. Plane!Objectionable(Plane!Method, Plane!Items[ItemDecided])
    BY <1>1, <1>2, <1>5, SameObjections DEF TheItem
  <1>7. cur[t] # None /\ ItemDecided <= Len(Plane!Items)
    BY <1>1, <1>2, <1>5 DEF NoneIsNoClient, MoreItems
  <1> QED BY <1>1, <1>2, <1>3, <1>4, <1>6, <1>7 DEF Plane!Object

LEMMA BeginOpens ==
  ASSUME OneServer, NoneIsNoClient, PlaneInv, BeginCall(Server), UNCHANGED workerVars
  PROVE  \E c \in Clients : Plane!Open(c)
  <1> DEFINE t == Server
             c == Head(cq).client
  <1>1. /\ TypeInv /\ t \in RpcThreads /\ pc[t] = "next" /\ pc'[t] = "loop"
        /\ cur' = [cur EXCEPT ![t] = c] /\ UNCHANGED <<item, reply_, rte_ring_reply, acknowledged>>
        /\ call' = [call EXCEPT ![c].st = "running"]
    BY ServerType DEF BeginCall, ringVars, workerVars
  <1>2. c \in Clients /\ call[c].st = "queued"
    <2>1. 1 \in ProcessEvents /\ Head(cq) = cq[1] /\ Head(cq) \in Event
      BY <1>1, PopEvent DEF BeginCall, ProcessEvents, TypeInv
    <2> QED BY <1>1, <2>1 DEF TypeInv, OneHandlerPerCall, EventsQueued, Event
  <1>3. /\ ~ Decided /\ ItemDecided = item[t] /\ ~ Succeeded /\ rte_ring_reply = <<>>
        /\ cur[t] = None /\ reply_[t] = NoPending
    BY <1>1, NothingDecided DEF InCall, PlaneInv, AtWork, IdleIsFresh
  <1>4. ItemDecided' = item[t]
    BY <1>1 DEF ItemDecided, Decided
  <1>5. Succeeded' = Succeeded
    <2>1. ~ reply_'[t].succeed
      BY <1>1, <1>3, NoPendingFails
    <2>2. ~ Succeeded'
      BY <1>1, <2>1 DEF Succeeded, Decided
    <2> QED BY <1>3, <2>2 DEF Succeeded
  <1>6. ShownCall' = ShownCall
    <2>1. \A b \in Clients : /\ call'[b].req = call[b].req /\ call'[b].answer = call[b].answer
                             /\ ShownState(call'[b].st) = ShownState(call[b].st)
      BY <1>1, <1>2, ServerType DEF ShownState, Call
    <2> QED BY <2>1 DEF ShownCall
  <1>7. ShownCall[c].st = "asked"
    BY <1>2 DEF ShownCall, ShownState
  <1>8. cur'[t] = c
    BY <1>1, ServerType
  <1> QED BY <1>1, <1>2, <1>3, <1>4, <1>5, <1>6, <1>7, <1>8 DEF Plane!Open

LEMMA FinishReplies ==
  ASSUME OneServer, NoneIsNoClient, PlaneInv, FinishEffect(Server), UNCHANGED workerVars
  PROVE  Plane!Reply
  <1> DEFINE t == Server
             c == cur[t]
             m == Req(t).method
  <1>1. PICK addr \in Byte : Finish(t, AnswerOf(t, addr))
    BY DEF FinishEffect
  <1>2. /\ TypeInv /\ t \in RpcThreads /\ pc[t] = "loop" /\ pc'[t] = "next" /\ InCall(t)
        /\ c \in Clients /\ cur'[t] = None /\ item'[t] = 1
        /\ UNCHANGED <<rte_ring_reply, acknowledged>>
        /\ call' = [call EXCEPT ![c].st = "answered", ![c].answer = AnswerOf(t, addr)]
        /\ ~ MoreItems(t) \/ m = "LivenessCheck"
        /\ item[t] \in Nat \ {0} /\ Req(t) \in Request
    <2>1. pc[t] = "loop" /\ InCall(t)
      BY DEF FinishEffect, InCall
    <2> QED BY <1>1, <2>1, ServerType, ReqType DEF FinishEffect, Finish, ringVars, workerVars, TypeInv
  <1>3. acknowledged = TableKeys /\ ItemDecided = item[t]
    BY <1>2, NothingDecided
  <1>4. ItemDecided' = 1 /\ ~ Succeeded'
    BY <1>2 DEF ItemDecided, Decided, Succeeded, InCall
  <1>5. ShownAnswer(AnswerOf(t, addr)) = Plane!Shown
    BY <1>2, <1>3, AnswerShown
  <1>6. ShownCall' = [ShownCall EXCEPT ![c].st = "answered", ![c].answer = Plane!Shown]
    <2>1. \A b \in Clients \ {c} : call'[b] = call[b]
      BY <1>2, ServerType
    <2>2. /\ call'[c].st = "answered" /\ call'[c].req = call[c].req
          /\ call'[c].answer = AnswerOf(t, addr)
      BY <1>2, ServerType DEF Call
    <2>3. ShownState("answered") = "answered"
      BY DEF ShownState
    <2> HIDE DEF c, t
    <2> QED BY <1>2, <1>5, <2>1, <2>2, <2>3, ZenonT(40) DEF ShownCall, t
  <1>7. Plane!Method = m /\ Plane!Items = Req(t).items
    BY <1>2 DEF Plane!Method, Plane!Items, ShownCall, Req
  <1>8. ItemDecided > Len(Plane!Items) \/ Plane!Method = "LivenessCheck"
    BY <1>2, <1>3, <1>7 DEF MoreItems, Request
  <1>9. c # None /\ Succeeded' = FALSE
    BY <1>2, <1>4 DEF NoneIsNoClient, Succeeded
  <1> QED BY <1>2, <1>4, <1>6, <1>8, <1>9 DEF Plane!Reply

LEMMA ReplyDecides ==
  ASSUME OneServer, NoAlias, DistinctLists, NoneIsNoClient, PlaneInv, ChildReply,
         UNCHANGED <<grpcVars, serverVars>>
  PROVE  Plane!Decide
  <1> DEFINE t == Server
             m == Req(t).method
  <1>1. PICK verdict \in Verdicts :
          /\ rte_ring_reply' = Append(rte_ring_reply, ReplyTo(child_request, verdict))
          /\ acknowledged' = IF verdict THEN Accept(child_request, acknowledged) ELSE acknowledged
    BY DEF ChildReply, PutReply, OneServer, EnqueuesSucceed
  <1>2. t \in RpcThreads /\ AtWorker(t) /\ pc[t] = "wait"
    BY ServerType DEF ChildReply, PlaneInv, SafeInv, RingProtocol, AtRest, AtRequestRing, AtReplyRing
  <1>3. /\ TypeInv /\ InCall(t) /\ MoreItems(t) /\ acknowledged = TableKeys
        /\ child_request = Thrown(t) /\ rte_ring_reply = <<>> /\ ~ Objects(t)
        /\ cur[t] \in Clients
    BY <1>2, ServerType DEF AtWorker, PlaneInv, SafeInv, WorkerAhead, ListsAgreeWithWorker,
       TypeInv, WaitingHasItem, TypeOK, ServerTypeOK, InCall, AtWork, Unobjected
  <1>4. rte_ring_reply' # <<>> /\ Head(rte_ring_reply').reply = verdict
    BY <1>1, <1>3 DEF ReplyTo
  <1>5. UNCHANGED <<call, pc, cur, item, reply_>> /\ Req(t)' = Req(t)
    BY DEF grpcVars, serverVars, Req
  <1>6. ItemDecided = item[t] /\ ItemDecided' = item[t] + 1 /\ ShownCall' = ShownCall
    BY <1>2, <1>3, <1>4, <1>5 DEF ItemDecided, Decided, ShownCall
  <1>7. Plane!Method = m /\ Plane!Items = Req(t).items
    BY <1>3 DEF Plane!Method, Plane!Items, ShownCall, Req
  <1>8. ~ Plane!Objectionable(Plane!Method, Plane!Items[ItemDecided])
    BY <1>2, <1>3, <1>6, <1>7, SameObjections DEF TheItem
  <1>9. acknowledged' = IF verdict
                        THEN [b \in Plane!Tables |-> Plane!Changed(Plane!Method, Plane!Items[ItemDecided], b)]
                        ELSE acknowledged
    <2>1. Accept(Thrown(t), acknowledged)
            = [b \in Plane!Tables |-> Plane!Changed(Plane!Method, Plane!Items[ItemDecided], b)]
      BY <1>2, <1>3, <1>6, <1>7, SameChange, SameData DEF TheItem
    <2> QED BY <1>1, <1>3, <2>1
  <1>10. Succeeded' = (Succeeded \/ (verdict /\ Plane!Method \notin Plane!ViewMethods))
    <2>1. Succeeded = (reply_[t].succeed /\ m # "SetMigrationTarget")
      BY <1>2, <1>3, ServerType DEF Succeeded, Decided, Pending
    <2>2. Succeeded' = ((m \notin ViewMethods /\ verdict) \/ (reply_[t].succeed /\ m # "SetMigrationTarget"))
      BY <1>2, <1>3, <1>4, <1>5, ServerType DEF Succeeded, Decided, Pending, InCall
    <2> QED BY <1>7, <2>1, <2>2, SameData
  <1>11. cur[t] # None /\ ItemDecided <= Len(Plane!Items)
    BY <1>3, <1>6, <1>7 DEF NoneIsNoClient, MoreItems
  <1> QED BY <1>1, <1>5, <1>6, <1>8, <1>9, <1>10, <1>11 DEF Plane!Decide

LEMMA PollShows ==
  ASSUME NEW t \in RpcThreads, ChildTake(t), UNCHANGED <<grpcVars, serverVars>>
  PROVE  UNCHANGED Plane!vars
  <1>1. UNCHANGED <<acknowledged, rte_ring_reply, call, cur, item, reply_, pc>>
    BY DEF ChildTake, grpcVars, serverVars
  <1> QED BY <1>1 DEF Plane!vars, ShownCall, ItemDecided, Decided, Succeeded, InCall, Req

\* A step that changes one call, which no handler has.
LEMMA OtherCalls ==
  ASSUME OneServer, PlaneInv, NEW c \in Clients, call[c].st # "running",
         \A b \in Clients \ {c} : call'[b] = call[b],
         UNCHANGED <<ringVars, workerVars, serverVars>>
  PROVE  /\ UNCHANGED <<acknowledged, cur, ItemDecided, Succeeded>>
         /\ \A b \in Clients \ {c} : ShownCall'[b] = ShownCall[b]
  <1>1. UNCHANGED <<acknowledged, rte_ring_reply, cur, item, reply_, pc>>
    BY DEF ringVars, workerVars, serverVars
  <1>2. InCall(Server) => Req(Server)' = Req(Server)
    BY <1>1, ServerType DEF TypeInv, TypeOK, ServerTypeOK, OneHandlerPerCall, HandlersRun, InCall, Req
  <1>3. pc[Server] = "wait" => InCall(Server)
    BY DEF InCall
  <1>4. (Succeeded' <=> Succeeded) /\ ItemDecided' = ItemDecided
    BY <1>1, <1>2, <1>3 DEF Succeeded, Decided, InCall, ItemDecided
  <1>5. Succeeded' = Succeeded
    BY <1>4 DEF Succeeded
  <1>6. \A b \in Clients \ {c} : ShownCall'[b] = ShownCall[b]
    BY DEF ShownCall
  <1> QED BY <1>1, <1>4, <1>5, <1>6

LEMMA NothingShownYet == ShownAnswer(NoAnswer) = Plane!NothingShown
  <1>1. /\ NoAnswer.succeed = FALSE /\ NoAnswer.quota = 0 /\ NoAnswer.replicas = {}
        /\ NoAnswer.views = [d \in Dirs |-> {}]
    BY DEF NoAnswer
  <1>2. AnsweredKeys({}) = {}
    BY DEF AnsweredKeys
  <1> QED BY <1>1, <1>2, SameData DEF ShownAnswer, Plane!NothingShown

LEMMA IdleShown ==
  [st |-> ShownState(NoCall.st), req |-> NoCall.req, answer |-> ShownAnswer(NoCall.answer)]
    = Plane!NoCall
  <1>1. NoCall.st = "idle" /\ NoCall.req = NoRequest /\ NoCall.answer = NoAnswer
    BY DEF NoCall
  <1>2. ShownState("idle") = "idle"
    BY DEF ShownState
  <1> QED BY <1>1, <1>2, NothingShownYet, SameData DEF Plane!NoCall

LEMMA CallAsks ==
  ASSUME OneServer, PlaneInv, NEW c \in Clients, NEW r \in Requests, CallRpc(c, r),
         UNCHANGED <<ringVars, workerVars, serverVars>>
  PROVE  Plane!Ask(c, r)
  <1>1. /\ call[c].st = "idle"
        /\ call' = [call EXCEPT ![c] = [st |-> "sent", req |-> r, answer |-> NoAnswer]]
    BY DEF CallRpc
  <1>2. /\ call'[c].st = "sent" /\ call'[c].req = r /\ call'[c].answer = NoAnswer
        /\ \A b \in Clients \ {c} : call'[b] = call[b]
    BY <1>1, ServerType
  <1>3. /\ UNCHANGED <<acknowledged, cur, ItemDecided, Succeeded>>
        /\ \A b \in Clients \ {c} : ShownCall'[b] = ShownCall[b]
    BY <1>1, <1>2, OtherCalls
  <1>4. ShownCall[c].st = "idle" /\ ShownState("sent") = "asked"
    BY <1>1 DEF ShownCall, ShownState
  <1>5. ShownCall'[c] = [st |-> "asked", req |-> r, answer |-> Plane!NothingShown]
    BY <1>2, <1>4, NothingShownYet DEF ShownCall
  <1>6. ShownCall' = [ShownCall EXCEPT ![c] = [st |-> "asked", req |-> r,
                                               answer |-> Plane!NothingShown]]
    BY <1>3, <1>5 DEF ShownCall
  <1> QED BY <1>3, <1>4, <1>6 DEF Plane!Ask

LEMMA ReturnReturns ==
  ASSUME OneServer, PlaneInv, NEW c \in Clients, ReturnRpc(c),
         UNCHANGED <<ringVars, workerVars, serverVars>>
  PROVE  Plane!Return(c)
  <1>1. call[c].st = "answered" /\ call' = [call EXCEPT ![c] = NoCall]
    BY DEF ReturnRpc
  <1>2. call'[c] = NoCall /\ \A b \in Clients \ {c} : call'[b] = call[b]
    BY <1>1, ServerType
  <1>3. /\ UNCHANGED <<acknowledged, cur, ItemDecided, Succeeded>>
        /\ \A b \in Clients \ {c} : ShownCall'[b] = ShownCall[b]
    BY <1>1, <1>2, OtherCalls
  <1>4. ShownCall[c].st = "answered"
    BY <1>1 DEF ShownCall, ShownState
  <1>5. ShownCall'[c] = Plane!NoCall
    BY <1>2, IdleShown DEF ShownCall
  <1>6. ShownCall' = [ShownCall EXCEPT ![c] = Plane!NoCall]
    BY <1>3, <1>5 DEF ShownCall
  <1> QED BY <1>3, <1>4, <1>6 DEF Plane!Return

LEMMA MatchShows ==
  ASSUME OneServer, PlaneInv, NEW c \in Clients, GrpcMatch(c),
         UNCHANGED <<ringVars, workerVars, serverVars>>
  PROVE  UNCHANGED Plane!vars
  <1>1. call[c].st = "sent" /\ call' = [call EXCEPT ![c].st = "queued"]
    BY DEF GrpcMatch
  <1>2. /\ call'[c].st = "queued" /\ call'[c].req = call[c].req /\ call'[c].answer = call[c].answer
        /\ \A b \in Clients \ {c} : call'[b] = call[b]
    BY <1>1, ServerType DEF Call
  <1>3. /\ UNCHANGED <<acknowledged, cur, ItemDecided, Succeeded>>
        /\ \A b \in Clients \ {c} : ShownCall'[b] = ShownCall[b]
    BY <1>1, <1>2, OtherCalls
  <1>4. ShownCall'[c] = ShownCall[c]
    BY <1>1, <1>2 DEF ShownCall, ShownState
  <1>5. ShownCall' = ShownCall
    BY <1>3, <1>4 DEF ShownCall
  <1> QED BY <1>3, <1>5 DEF Plane!vars

----------------------------------------------------------------------------
(* The refinement. *)

LEMMA InitShows == OneServer /\ Init => Plane!Init
  <1> SUFFICES ASSUME OneServer, Init PROVE Plane!Init
    OBVIOUS
  <1>1. Server \in RpcThreads
    BY ServerIsIt
  <1>2. /\ rte_ring_reply = <<>> /\ acknowledged = [b \in Tables |-> {}]
        /\ call = [c \in Clients |-> NoCall]
        /\ pc[Server] = "boot" /\ cur[Server] = None /\ item[Server] = 1
    BY <1>1 DEF Init, RingsInit, WorkerInit, GrpcInit, ServerInit
  <1>3. ItemDecided = 1 /\ Succeeded = FALSE
    BY <1>2 DEF ItemDecided, Decided, Succeeded, InCall
  <1>4. ShownCall = [c \in Clients |-> Plane!NoCall]
    BY <1>2, IdleShown DEF ShownCall
  <1> QED BY <1>2, <1>3, <1>4, SameData DEF Plane!Init

\* A step of the runtime is a step of the control plane or none.
\* What the runtime does by itself, whatever its clients ask.
LEMMA RuntimeShows ==
  ASSUME OneServer, NoAlias, DistinctLists, OneTarget, NoneIsNoClient, WorkerSaysYes, PlaneInv,
         \/ \E t \in RpcThreads : HandleRpcs(t)
         \/ WorkerThread
         \/ \E c \in Clients : Transport(c)
  PROVE  \/ \E c \in Clients : Plane!Open(c)
         \/ Plane!Object \/ Plane!Decide \/ Plane!Reply
         \/ UNCHANGED Plane!vars
  <1>0. TypeInv
    BY ServerType
  <1> DEFINE Shows == \/ \E c \in Clients : Plane!Open(c)
                      \/ Plane!Object \/ Plane!Decide \/ Plane!Reply
                      \/ UNCHANGED Plane!vars
  <1>1. ASSUME NEW u \in RpcThreads, HandleRpcs(u) PROVE Shows
    <2> DEFINE t == Server
    <2>0. t \in RpcThreads /\ HandleRpcs(t) /\ UNCHANGED workerVars
      BY <1>1, ServerIsIt DEF HandleRpcs
    <2>1. CASE BootAcceptors(t) \/ DeleteCallData(t)
      BY <2>0, <2>1, QuietShows
    <2>2. CASE BeginCall(t)
      BY <2>0, <2>2, BeginOpens
    <2>3. CASE Proceed(t)
      <3>1. pc[t] = "loop" \/ pc[t] = "wait"
        BY <1>0, <2>0, <2>3, ProceedSteps DEF HandlerStep, SkipStep, ThrowStep, TakeStep, FinishStep
      <3>2. SkipEffect(t) \/ ThrowEffect(t) \/ FinishEffect(t) \/ TakeEffect(t)
        BY <1>0, <2>0, <2>3, <3>1, LoopEffects, WaitEffects
      <3>3. CASE SkipEffect(t)
        BY <2>0, <3>3, SkipObjects
      <3>4. CASE ThrowEffect(t)
        BY <2>0, <3>4, ThrowShows
      <3>5. CASE TakeEffect(t)
        BY <2>0, <3>5, TakeShows
      <3>6. CASE FinishEffect(t)
        BY <2>0, <3>6, FinishReplies
      <3> QED BY <3>2, <3>3, <3>4, <3>5, <3>6
    <2> QED BY <2>0, <2>1, <2>2, <2>3 DEF HandleRpcs
  <1>2. CASE WorkerThread
    <2>1. CASE ChildReply
      BY <1>2, <2>1, ReplyDecides DEF WorkerThread
    <2>2. CASE \E t \in RpcThreads : ChildTake(t)
      BY <1>2, <2>2, PollShows DEF WorkerThread
    <2> QED BY <1>2, <2>1, <2>2 DEF WorkerThread, child
  <1>3. ASSUME NEW c \in Clients, Transport(c) PROVE Shows
    BY <1>3, MatchShows DEF Transport
  <1> QED BY <1>1, <1>2, <1>3

LEMMA NextShows ==
  ASSUME OneServer, NoAlias, DistinctLists, OneTarget, NoneIsNoClient, WorkerSaysYes, PlaneInv,
         [Next]_vars
  PROVE  [Plane!Next]_(Plane!vars)
  <1>1. CASE \/ \E t \in RpcThreads : HandleRpcs(t)
             \/ WorkerThread
             \/ \E c \in Clients : Transport(c)
    BY <1>1, RuntimeShows DEF Plane!Next
  <1>2. ASSUME NEW c \in Clients, Controller(c) PROVE [Plane!Next]_(Plane!vars)
    BY <1>2, CallAsks, ReturnReturns DEF Controller, Plane!Next
  <1>3. CASE UNCHANGED vars
    <2>1. UNCHANGED <<acknowledged, rte_ring_reply, call, cur, item, reply_, pc>>
      BY <1>3 DEF vars, ringVars, workerVars, grpcVars, serverVars
    <2>2. UNCHANGED Plane!vars
      BY <2>1 DEF Plane!vars, ShownCall, ItemDecided, Decided, Succeeded, InCall, Req
    <2> QED BY <2>2
  <1> QED BY <1>1, <1>2, <1>3 DEF Next

(* The runtime implements the control plane: with the one thread of main   *)
(* and the worker that accepts everything, for requests whose ids are not  *)
(* this runtime's own under another name, whose lists name no view twice   *)
(* and whose migrations have one target, every call looks as if it was     *)
(* carried out alone, each item at one moment, and is answered with how    *)
(* things stand at its end.                                                *)
THEOREM RuntimeIsControlPlane ==
  ASSUME OneServer, NoAlias, DistinctLists, OneTarget, NoneIsNoClient, WorkerSaysYes
  PROVE  Spec => IsControlPlane
  <1>1. Init => Plane!Init
    BY InitShows
  <1>2. PlaneInv /\ [Next]_vars => [Plane!Next]_(Plane!vars)
    BY NextShows
  <1> QED BY <1>1, <1>2, PlaneInvHolds, PTL DEF Spec, IsControlPlane, Plane!Spec
=============================================================================
