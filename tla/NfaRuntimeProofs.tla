-------------------------- MODULE NfaRuntimeProofs --------------------------
(***************************************************************************)
(* Proofs about NfaRuntime, for every set of clients, of requests and of   *)
(* ids, and every width of the integers: first what holds for any number   *)
(* of RPC threads, then what holds when HandleRpcs runs on one thread, as  *)
(* main runs it, and no enqueue fails for want of memory.                  *)
(***************************************************************************)
EXTENDS NfaRuntime, FiniteSetTheorems, TLAPS

----------------------------------------------------------------------------
(* Lemmas about the data of NfaMessages: what the conversions return and   *)
(* what the operations on the tables do to their keys.                     *)

(* A truncated id is a key. *)
LEMMA ToIntKey == \A id \in Nat : ToInt(id) \in Key
  BY ConstantsAssumption, SMT DEF ToInt, Key

LEMMA KeysType == \A ids \in Seq(WorkerIds) : Keys(ids) \in SUBSET Key
  <1> SUFFICES ASSUME NEW ids \in Seq(WorkerIds), NEW i \in DOMAIN ids
               PROVE  ToInt(ids[i]) \in Key
    BY DEF Keys
  <1>1. ids[i] \in WorkerIds
    OBVIOUS
  <1>2. ids[i] \in Nat
    BY <1>1, ConstantsAssumption
  <1> QED BY <1>2, ToIntKey

(* Truncating a truncated id changes nothing, whatever the other half of   *)
(* the union holds.                                                        *)
LEMMA ToIntKeeps == \A k \in Key : \A high \in {0, 1} : ToInt(UnionAsUint64(k, high)) = k
  BY ConstantsAssumption, SMT DEF ToInt, Key, UnionAsUint64

LEMMA ToIntTwice == \A k \in Key : ToInt(k) = k
  BY ConstantsAssumption, SMT DEF ToInt, Key

(* A parsed MAC has all its bytes, from the text or from before.           *)
LEMMA ParseType ==
  ASSUME NEW old \in Mac, NEW str \in MacText
  PROVE  parse_mac_addr(old, str) \in Mac
  BY DEF parse_mac_addr, Mac, MacText

LEMMA Rpc2LocalType ==
  ASSUME NEW old \in Mac, NEW v \in View
  PROVE  view_rpc2local(old, v) \in Local_view
  <1>1. parse_ip_addr(v.rpc_ip, v.rpc_port) \in StoredIp
    BY DEF parse_ip_addr, StoredIp, View
  <1> QED BY <1>1, ParseType DEF view_rpc2local, View, Local_view

LEMMA EncodeType == \A addr \in Byte : encode_mac_addr(addr) \in MacText
  <1> SUFFICES ASSUME NEW addr \in Byte PROVE encode_mac_addr(addr) \in [1 .. MacLen -> Byte]
    BY ConstantsAssumption DEF MacText
  <1>1. \A i \in 1 .. MacLen : (addr + (i - 1)) % ByteRange \in Byte
    BY ConstantsAssumption, SMT DEF Byte
  <1> QED BY <1>1 DEF encode_mac_addr

LEMMA EncodedType ==
  ASSUME NEW f, IsViewMap(f), NEW addr \in Byte
  PROVE  Encoded(addr, f) \in SUBSET AnsweredView
  BY EncodeType DEF Encoded, IsViewMap, view_local2rpc, AnsweredView, Local_view

LEMMA EmptyMapType == IsViewMap(EmptyMap) /\ DOMAIN EmptyMap = {}
  BY DEF IsViewMap, EmptyMap

(* insert and erase keep a table a table and change one key. *)
LEMMA MapInsertType ==
  ASSUME NEW f, IsViewMap(f), NEW k \in Key, NEW v \in Local_view
  PROVE  IsViewMap(MapInsert(f, k, v)) /\ DOMAIN MapInsert(f, k, v) = DOMAIN f \cup {k}
  BY DEF IsViewMap, MapInsert

LEMMA MapEraseType ==
  ASSUME NEW f, IsViewMap(f), NEW k \in Key
  PROVE  IsViewMap(MapErase(f, k)) /\ DOMAIN MapErase(f, k) = DOMAIN f \ {k}
  BY DEF IsViewMap, MapErase

----------------------------------------------------------------------------
(* What the worker's acceptance of a message does, table by table. *)

Names(d) == {AddMethod[d], DeleteMethod[d]}

LEMMA MethodNames ==
  /\ AddMethod["input"] = "AddInputView" /\ AddMethod["output"] = "AddOutputView"
  /\ DeleteMethod["input"] = "DeleteInputView" /\ DeleteMethod["output"] = "DeleteOutputView"
  /\ Methods = {"LivenessCheck", "SetMigrationTarget", "AddInputView", "AddOutputView",
                "DeleteInputView", "DeleteOutputView", "AddReplicas", "DeleteReplicas",
                "Recover", "QueryRuntimeInfo", "QueryRuntimeStat"}
  BY DEF AddMethod, DeleteMethod, Dirs, Methods, ViewMethods, ReplicaMethods, QueryMethods

LEMMA AcceptAdd ==
  ASSUME NEW m, NEW held, NEW d \in Dirs, m.action = AddMethod[d]
  PROVE  Accept(m, held) =
           [b \in Tables |-> IF b = d THEN held[b] \cup {ToInt(m.worker_id)} ELSE held[b]]
  BY MethodNames DEF Accept, Tables, Dirs

LEMMA AcceptDelete ==
  ASSUME NEW m, NEW held, NEW d \in Dirs, m.action = DeleteMethod[d]
  PROVE  Accept(m, held) =
           [b \in Tables |-> IF b = d THEN held[b] \ {ToInt(m.worker_id)} ELSE held[b]]
  BY MethodNames DEF Accept, Tables, Dirs

LEMMA AcceptAddReplica ==
  ASSUME NEW m, NEW held, m.action = "AddReplicas"
  PROVE  Accept(m, held) =
           [b \in Tables |-> IF b = "replica" THEN held[b] \cup {ToInt(m.worker_id)}
                                              ELSE held[b]]
  BY MethodNames DEF Accept, Tables, Dirs

LEMMA AcceptDropReplica ==
  ASSUME NEW m, NEW held, m.action \in {"DeleteReplicas", "Recover"}
  PROVE  Accept(m, held) =
           [b \in Tables |-> IF b = "replica" THEN held[b] \ {ToInt(m.worker_id)}
                                              ELSE held[b]]
  BY MethodNames DEF Accept, Tables, Dirs

LEMMA AcceptOther ==
  ASSUME NEW m, NEW held, m.action \in QueryMethods \cup {"SetMigrationTarget"}
  PROVE  Accept(m, held) = [b \in Tables |-> held[b]]
  BY MethodNames DEF Accept, Tables, Dirs, QueryMethods

LEMMA AcceptType ==
  ASSUME NEW m \in RequestMsg(RpcThreads), NEW held \in [Tables -> SUBSET Key]
  PROVE  Accept(m, held) \in [Tables -> SUBSET Key]
  <1>1. ToInt(m.worker_id) \in Key
    BY ToIntKey DEF RequestMsg
  <1> QED BY <1>1 DEF Accept

----------------------------------------------------------------------------
(* Types of what a handler works on. *)

\* Inductive with TypeOK and OneHandlerPerCall, for any number of threads.
WaitingHasItem == \A t \in RpcThreads : pc[t] = "wait" => MoreItems(t)

TypeInv == TypeOK /\ OneHandlerPerCall /\ WaitingHasItem

LEMMA ReqType ==
  ASSUME TypeOK, NEW t \in RpcThreads, InCall(t)
  PROVE  cur[t] \in Clients /\ Req(t) \in Request
  BY DEF TypeOK, ServerTypeOK, GrpcTypeOK, Call, Req, InCall

LEMMA ItemType ==
  ASSUME TypeOK, NEW t \in RpcThreads, InCall(t), MoreItems(t)
  PROVE  /\ TheItem(t) \in Item /\ TheItem(t).view \in View
         /\ TheItem(t).view.worker_id \in Nat /\ ItemKey(t) \in Key
  <1>1. Req(t).items \in Seq(Item)
    BY ReqType DEF Request
  <1>2. item[t] \in 1 .. Len(Req(t).items)
    BY <1>1 DEF MoreItems, TypeOK, ServerTypeOK
  <1>3. TheItem(t) \in Item
    BY <1>1, <1>2 DEF TheItem
  <1>4. TheItem(t).view \in View
    BY <1>3 DEF Item
  <1>5. TheItem(t).view.worker_id \in Nat
    BY <1>4, ConstantsAssumption DEF View
  <1> QED BY <1>3, <1>4, <1>5, ToIntKey DEF ItemKey

LEMMA ThrownType ==
  ASSUME TypeOK, NEW t \in RpcThreads, InCall(t), MoreItems(t)
  PROVE  /\ Thrown(t) \in RequestMsg(RpcThreads)
         /\ Thrown(t).action = Req(t).method /\ Thrown(t).from = t
         /\ ToInt(Thrown(t).worker_id) = ItemKey(t)
  <1>1. Req(t).method \in Methods /\ Req(t).quota \in Nat
    BY ReqType, ConstantsAssumption DEF Request
  <1>2. Keys(TheItem(t).inputs) \in SUBSET Key /\ Keys(TheItem(t).outputs) \in SUBSET Key
    BY ItemType, KeysType DEF Item
  <1>3. ToInt(Req(t).quota) \in Key /\ ToInt(0) \in Key /\ 0 \in Key
    BY <1>1, ToIntKey, ConstantsAssumption DEF Key
  <1>4. ItemKey(t) \in Nat /\ ToInt(ItemKey(t)) = ItemKey(t)
    BY ItemType, ToIntTwice, ConstantsAssumption DEF Key
  <1>5. ToInt(TheItem(t).view.worker_id) = ItemKey(t) /\ TheItem(t).view.worker_id \in Nat
    BY ItemType DEF ItemKey
  <1>6. CASE Thrown(t) = ListsMsg(t, Req(t).quota)
    BY <1>1, <1>2, <1>3, <1>5, <1>6 DEF ListsMsg, RequestMsg
  <1>7. CASE Thrown(t) = ListsMsg(t, 0)
    BY <1>1, <1>2, <1>3, <1>5, <1>7 DEF ListsMsg, RequestMsg
  <1>8. CASE Thrown(t) = IdMsg(Req(t).method, TheItem(t).view.worker_id, t)
    BY <1>1, <1>3, <1>5, <1>8 DEF IdMsg, RequestMsg
  <1>9. CASE Thrown(t) = IdMsg(Req(t).method, ItemKey(t), t)
    BY <1>1, <1>3, <1>4, <1>9 DEF IdMsg, RequestMsg
  <1> QED BY <1>6, <1>7, <1>8, <1>9 DEF Thrown

LEMMA ReplyType ==
  ASSUME NEW m \in RequestMsg(RpcThreads), NEW verdict \in BOOLEAN
  PROVE  ReplyTo(m, verdict) \in ReplyMsg(RpcThreads)
  <1>1. ToInt(m.worker_id) \in Key
    BY ToIntKey DEF RequestMsg
  <1> QED BY <1>1 DEF ReplyTo, ReplyMsg, RequestMsg

----------------------------------------------------------------------------
(* A step of a handler is one of four, whichever handler it is. *)

SkipStep(t) == pc[t] = "loop" /\ MoreItems(t) /\ \E why \in Reasons : Skip(t, why)

ThrowStep(t) ==
  pc[t] = "loop" /\ CheckHolds(t) /\ \E p \in Pending : Throw(t, Thrown(t), p)

TakeStep(t) ==
  /\ pc[t] = "wait"
  /\ GotReply(t)
  /\ reply_' \in [RpcThreads -> Pending]
  /\ \A u \in RpcThreads \ {t} : reply_'[u] = reply_[u]
  /\ DOMAIN viewlist' = Dirs /\ \A d \in Dirs : IsViewMap(viewlist'[d])
  /\ IsViewMap(replicalist')
  /\ TableKeys' = IF Accepted THEN Accept(Thrown(t), TableKeys) ELSE TableKeys

FinishStep(t) == pc[t] = "loop" /\ \E a \in Answer : Finish(t, a)

HandlerStep(t) == SkipStep(t) \/ ThrowStep(t) \/ TakeStep(t) \/ FinishStep(t)

LEMMA PlainAnswerType ==
  ASSUME TypeOK, NEW t \in RpcThreads
  PROVE  PlainAnswer(t) \in Answer
  BY DEF TypeOK, ServerTypeOK, PlainAnswer, Answer, Pending

LEMMA CurrentViewType ==
  ASSUME TypeOK, NEW addr \in Byte
  PROVE  CurrentView(addr) \in Answer
  <1>1. \A d \in Dirs : Encoded(addr, viewlist[d]) \in SUBSET AnsweredView
    BY EncodedType DEF TypeOK, ServerTypeOK
  <1> QED BY <1>1, ConstantsAssumption DEF CurrentView, NoAnswer, Answer, Reasons

LEMMA KeepReasonType ==
  ASSUME TypeOK, NEW t \in RpcThreads
  PROVE  KeepReason(t) \in Reasons
  BY DEF TypeOK, ServerTypeOK, KeepReason, Pending

LEMMA ObjectionTypes ==
  ASSUME NEW it
  PROVE  /\ MigrationObjection(it) \in Reasons /\ AddReplicaObjection(it) \in Reasons
         /\ ReplicaObjection(it) \in Reasons /\ QueryObjection(it) \in Reasons
  BY DEF MigrationObjection, AddReplicaObjection, ReplicaObjection, QueryObjection,
         ListsObjection, Reasons

LEMMA TableKeysType ==
  ASSUME TypeOK
  PROVE  TableKeys \in [Tables -> SUBSET Key]
  BY DEF TypeOK, ServerTypeOK, IsViewMap, TableKeys, Tables

LEMMA AddViewSteps ==
  ASSUME TypeInv, NEW t \in RpcThreads, NEW d \in Dirs, AddView(t, d)
  PROVE  HandlerStep(t)
  <1> DEFINE m == AddMethod[d]
  <1>0. m \in Methods /\ m \in ViewMethods
    BY DEF ViewMethods, Methods
  <1>1. CASE /\ Handling(t, "loop", m) /\ MoreItems(t)
             /\ Skip(t, KeepReason(t))
    BY <1>1, KeepReasonType DEF TypeInv, Handling, HandlerStep, SkipStep
  <1>2. CASE /\ Handling(t, "loop", m) /\ MoreItems(t) /\ ~ Present(t, d)
             /\ Throw(t, IdMsg(m, ItemKey(t), t), reply_[t])
    <2>1. Thrown(t) = IdMsg(m, ItemKey(t), t)
      BY <1>2, MethodNames DEF Thrown, Handling, Dirs, QueryMethods
    <2>2. CheckHolds(t)
      BY <1>2, MethodNames DEF CheckHolds, Handling, Present, Dirs
    <2>3. reply_[t] \in Pending
      BY DEF TypeInv, TypeOK, ServerTypeOK
    <2> QED BY <1>2, <2>1, <2>2, <2>3 DEF Handling, HandlerStep, ThrowStep
  <1>3. CASE /\ Handling(t, "wait", m) /\ GotReply(t)
             /\ \E old \in Mac :
                  viewlist' = IF Accepted
                      THEN [viewlist EXCEPT ![d] =
                              MapInsert(@, ItemKey(t), view_rpc2local(old, TheItem(t).view))]
                      ELSE viewlist
             /\ UNCHANGED <<replicalist, reply_>>
    <2>1. InCall(t) /\ MoreItems(t) /\ TypeOK
      BY <1>3 DEF TypeInv, WaitingHasItem, Handling, InCall
    <2>2. PICK old \in Mac :
            viewlist' = IF Accepted
                THEN [viewlist EXCEPT ![d] =
                        MapInsert(@, ItemKey(t), view_rpc2local(old, TheItem(t).view))]
                ELSE viewlist
      BY <1>3
    <2> DEFINE v == view_rpc2local(old, TheItem(t).view)
    <2>3. v \in Local_view /\ ItemKey(t) \in Key
      BY <2>1, ItemType, Rpc2LocalType
    <2>4. DOMAIN viewlist = Dirs /\ (\A e \in Dirs : IsViewMap(viewlist[e])) /\ IsViewMap(replicalist)
      BY <2>1 DEF TypeOK, ServerTypeOK
    <2>5. /\ IsViewMap(MapInsert(viewlist[d], ItemKey(t), v))
          /\ DOMAIN MapInsert(viewlist[d], ItemKey(t), v) = DOMAIN viewlist[d] \cup {ItemKey(t)}
      BY <2>3, <2>4, MapInsertType
    <2>6. /\ DOMAIN viewlist' = Dirs
          /\ \A e \in Dirs : IsViewMap(viewlist'[e])
          /\ \A e \in Dirs : DOMAIN viewlist'[e] =
               IF Accepted /\ e = d THEN DOMAIN viewlist[e] \cup {ItemKey(t)}
                                    ELSE DOMAIN viewlist[e]
      BY <2>2, <2>4, <2>5
    <2>7. Thrown(t).action = m /\ ToInt(Thrown(t).worker_id) = ItemKey(t)
      BY <1>3, <2>1, ThrownType DEF Handling
    <2>8. TableKeys' = IF Accepted THEN Accept(Thrown(t), TableKeys) ELSE TableKeys
      <3>1. Accept(Thrown(t), TableKeys) =
              [b \in Tables |-> IF b = d THEN TableKeys[b] \cup {ItemKey(t)} ELSE TableKeys[b]]
        BY <2>7, AcceptAdd
      <3> QED BY <1>3, <2>6, <3>1 DEF TableKeys, Tables, Dirs
    <2> QED BY <1>3, <2>1, <2>4, <2>6, <2>8
            DEF Handling, HandlerStep, TakeStep, TypeOK, ServerTypeOK
  <1>4. CASE Handling(t, "loop", m) /\ ~ MoreItems(t) /\ FinishWithViews(t)
    BY <1>4, CurrentViewType DEF TypeInv, Handling, FinishWithViews, HandlerStep, FinishStep
  <1> QED BY <1>1, <1>2, <1>3, <1>4 DEF AddView

LEMMA DeleteViewSteps ==
  ASSUME TypeInv, NEW t \in RpcThreads, NEW d \in Dirs, DeleteView(t, d)
  PROVE  HandlerStep(t)
  <1> DEFINE m == DeleteMethod[d]
  <1>1. CASE /\ Handling(t, "loop", m) /\ MoreItems(t)
             /\ Skip(t, KeepReason(t))
    BY <1>1, KeepReasonType DEF TypeInv, Handling, HandlerStep, SkipStep
  <1>2. CASE /\ Handling(t, "loop", m) /\ MoreItems(t) /\ Present(t, d)
             /\ Throw(t, IdMsg(m, ItemKey(t), t), reply_[t])
    <2>1. Thrown(t) = IdMsg(m, ItemKey(t), t)
      BY <1>2, MethodNames DEF Thrown, Handling, Dirs, QueryMethods
    <2>2. CheckHolds(t)
      BY <1>2, MethodNames DEF CheckHolds, Handling, Present, Dirs
    <2>3. reply_[t] \in Pending
      BY DEF TypeInv, TypeOK, ServerTypeOK
    <2> QED BY <1>2, <2>1, <2>2, <2>3 DEF Handling, HandlerStep, ThrowStep
  <1>3. CASE /\ Handling(t, "wait", m) /\ GotReply(t)
             /\ viewlist' = IF Accepted
                            THEN [viewlist EXCEPT ![d] = MapErase(@, ItemKey(t))]
                            ELSE viewlist
             /\ UNCHANGED <<replicalist, reply_>>
    <2>1. InCall(t) /\ MoreItems(t) /\ TypeOK
      BY <1>3 DEF TypeInv, WaitingHasItem, Handling, InCall
    <2>2. ItemKey(t) \in Key
      BY <2>1, ItemType
    <2>3. DOMAIN viewlist = Dirs /\ (\A e \in Dirs : IsViewMap(viewlist[e])) /\ IsViewMap(replicalist)
      BY <2>1 DEF TypeOK, ServerTypeOK
    <2>4. /\ IsViewMap(MapErase(viewlist[d], ItemKey(t)))
          /\ DOMAIN MapErase(viewlist[d], ItemKey(t)) = DOMAIN viewlist[d] \ {ItemKey(t)}
      BY <2>2, <2>3, MapEraseType
    <2>5. /\ DOMAIN viewlist' = Dirs
          /\ \A e \in Dirs : IsViewMap(viewlist'[e])
          /\ \A e \in Dirs : DOMAIN viewlist'[e] =
               IF Accepted /\ e = d THEN DOMAIN viewlist[e] \ {ItemKey(t)}
                                    ELSE DOMAIN viewlist[e]
      BY <1>3, <2>3, <2>4
    <2>6. Thrown(t).action = m /\ ToInt(Thrown(t).worker_id) = ItemKey(t)
      BY <1>3, <2>1, ThrownType DEF Handling
    <2>7. TableKeys' = IF Accepted THEN Accept(Thrown(t), TableKeys) ELSE TableKeys
      <3>1. Accept(Thrown(t), TableKeys) =
              [b \in Tables |-> IF b = d THEN TableKeys[b] \ {ItemKey(t)} ELSE TableKeys[b]]
        BY <2>6, AcceptDelete
      <3> QED BY <1>3, <2>5, <3>1 DEF TableKeys, Tables, Dirs
    <2> QED BY <1>3, <2>1, <2>3, <2>5, <2>7
            DEF Handling, HandlerStep, TakeStep, TypeOK, ServerTypeOK
  <1>4. CASE Handling(t, "loop", m) /\ ~ MoreItems(t) /\ FinishWithViews(t)
    BY <1>4, CurrentViewType DEF TypeInv, Handling, FinishWithViews, HandlerStep, FinishStep
  <1> QED BY <1>1, <1>2, <1>3, <1>4 DEF DeleteView

\* A reply that leaves all tables alone.
LEMMA QuietReply ==
  ASSUME TypeInv, NEW t \in RpcThreads, pc[t] = "wait", GotReply(t),
         Req(t).method \in QueryMethods \cup {"SetMigrationTarget"},
         UNCHANGED <<viewlist, replicalist>>,
         reply_' \in [RpcThreads -> Pending],
         \A u \in RpcThreads \ {t} : reply_'[u] = reply_[u]
  PROVE  TakeStep(t)
  <1>1. InCall(t) /\ MoreItems(t) /\ TypeOK
    BY DEF TypeInv, WaitingHasItem, InCall
  <1>2. Accept(Thrown(t), TableKeys) = TableKeys
    <2>1. Accept(Thrown(t), TableKeys) = [b \in Tables |-> TableKeys[b]]
      BY <1>1, ThrownType, AcceptOther
    <2> QED BY <2>1 DEF TableKeys
  <1>3. TableKeys' = TableKeys
    BY DEF TableKeys
  <1> QED BY <1>1, <1>2, <1>3 DEF TakeStep, TypeOK, ServerTypeOK

LEMMA MigrationSteps ==
  ASSUME TypeInv, NEW t \in RpcThreads, SetMigrationTarget(t)
  PROVE  HandlerStep(t)
  <1> DEFINE m == "SetMigrationTarget"
  <1> USE DEF Handling
  <1>0. reply_ \in [RpcThreads -> Pending] /\ TypeOK
    BY DEF TypeInv, TypeOK, ServerTypeOK
  <1>1. CASE /\ Handling(t, "loop", m) /\ MoreItems(t)
             /\ Skip(t, MigrationObjection(TheItem(t)))
    BY <1>1, ObjectionTypes DEF HandlerStep, SkipStep
  <1>2. CASE /\ Handling(t, "loop", m) /\ MoreItems(t)
             /\ MigrationObjection(TheItem(t)) = ""
             /\ Throw(t, ListsMsg(t, Req(t).quota),
                      [reply_[t] EXCEPT !.succeed = TRUE, !.quota = Req(t).quota])
    <2>1. Thrown(t) = ListsMsg(t, Req(t).quota) /\ CheckHolds(t)
      BY <1>2, MethodNames DEF Thrown, CheckHolds, Dirs, QueryMethods, MigrationObjection
    <2>2. Req(t).quota \in Quotas
      BY <1>0, <1>2, ReqType DEF InCall, Request
    <2>3. [reply_[t] EXCEPT !.succeed = TRUE, !.quota = Req(t).quota] \in Pending
      BY <1>0, <2>2 DEF Pending
    <2> QED BY <1>2, <2>1, <2>3 DEF HandlerStep, ThrowStep
  <1>3. CASE /\ Handling(t, "wait", m) /\ GotReply(t)
             /\ UNCHANGED <<viewlist, replicalist, reply_>>
    BY <1>0, <1>3, QuietReply DEF HandlerStep
  <1>4. CASE Handling(t, "loop", m) /\ ~ MoreItems(t) /\ Finish(t, PlainAnswer(t))
    BY <1>0, <1>4, PlainAnswerType DEF HandlerStep, FinishStep
  <1> QED BY <1>1, <1>2, <1>3, <1>4 DEF SetMigrationTarget

LEMMA QuerySteps ==
  ASSUME TypeInv, NEW t \in RpcThreads, NEW m \in QueryMethods, NEW succeed \in BOOLEAN,
         Query(t, m, succeed)
  PROVE  HandlerStep(t)
  <1> USE DEF Handling
  <1>0. reply_ \in [RpcThreads -> Pending] /\ TypeOK
    BY DEF TypeInv, TypeOK, ServerTypeOK
  <1>1. CASE /\ Handling(t, "loop", m) /\ MoreItems(t)
             /\ Skip(t, QueryObjection(TheItem(t)))
    BY <1>1, ObjectionTypes DEF HandlerStep, SkipStep
  <1>2. CASE /\ Handling(t, "loop", m) /\ MoreItems(t)
             /\ Throw(t, IdMsg(m, TheItem(t).view.worker_id, t), reply_[t])
    <2>1. Thrown(t) = IdMsg(m, TheItem(t).view.worker_id, t) /\ CheckHolds(t)
      BY <1>2, MethodNames DEF Thrown, CheckHolds, Dirs, QueryMethods
    <2> QED BY <1>0, <1>2, <2>1 DEF HandlerStep, ThrowStep
  <1>3. CASE /\ Handling(t, "wait", m) /\ GotReply(t)
             /\ reply_' = IF Accepted
                          THEN [reply_ EXCEPT ![t] = [NoPending EXCEPT !.succeed = succeed]]
                          ELSE reply_
             /\ UNCHANGED <<viewlist, replicalist>>
    <2>1. [NoPending EXCEPT !.succeed = succeed] \in Pending
      BY ConstantsAssumption DEF NoPending, Pending, Reasons
    <2>2. /\ reply_' \in [RpcThreads -> Pending]
          /\ \A u \in RpcThreads \ {t} : reply_'[u] = reply_[u]
      BY <1>0, <1>3, <2>1
    <2> QED BY <1>3, <2>2, QuietReply DEF HandlerStep
  <1>4. CASE Handling(t, "loop", m) /\ ~ MoreItems(t) /\ Finish(t, PlainAnswer(t))
    BY <1>0, <1>4, PlainAnswerType DEF HandlerStep, FinishStep
  <1> QED BY <1>1, <1>2, <1>3, <1>4 DEF Query

\* ok_flag is the only part of reply_ a replica handler's reply can change.
LEMMA AcknowledgeType ==
  ASSUME TypeOK, NEW t \in RpcThreads, Acknowledge(t)
  PROVE  /\ reply_' \in [RpcThreads -> Pending]
         /\ \A u \in RpcThreads \ {t} : reply_'[u] = reply_[u]
  BY DEF TypeOK, ServerTypeOK, Acknowledge, Pending

LEMMA AddReplicasSteps ==
  ASSUME TypeInv, NEW t \in RpcThreads, AddReplicas(t)
  PROVE  HandlerStep(t)
  <1> DEFINE m == "AddReplicas"
  <1> USE DEF Handling
  <1>0. reply_ \in [RpcThreads -> Pending] /\ TypeOK
    BY DEF TypeInv, TypeOK, ServerTypeOK
  <1>1. CASE /\ Handling(t, "loop", m) /\ MoreItems(t)
             /\ Skip(t, AddReplicaObjection(TheItem(t)))
    BY <1>1, ObjectionTypes DEF HandlerStep, SkipStep
  <1>2. CASE /\ Handling(t, "loop", m) /\ MoreItems(t)
             /\ AddReplicaObjection(TheItem(t)) = ""
             /\ Throw(t, ListsMsg(t, 0), reply_[t])
    <2>1. Thrown(t) = ListsMsg(t, 0)
      BY <1>2, MethodNames DEF Thrown, QueryMethods
    <2>2. /\ ItemKey(t) \notin DOMAIN replicalist /\ TheItem(t).view.worker_id # MyId
          /\ ListsObjection(TheItem(t)) = ""
      BY <1>2 DEF AddReplicaObjection, ItemKey
    <2>3. CheckHolds(t)
      BY <1>2, <2>2, MethodNames DEF CheckHolds, Dirs
    <2> QED BY <1>0, <1>2, <2>1, <2>3 DEF HandlerStep, ThrowStep
  <1>3. CASE /\ Handling(t, "wait", m) /\ GotReply(t)
             /\ \E old \in Mac :
                  replicalist' = IF Accepted
                                 THEN MapInsert(replicalist, ItemKey(t),
                                                view_rpc2local(old, TheItem(t).view))
                                 ELSE replicalist
             /\ Acknowledge(t)
             /\ UNCHANGED viewlist
    <2>1. InCall(t) /\ MoreItems(t) /\ TypeOK
      BY <1>3 DEF TypeInv, WaitingHasItem, InCall
    <2>2. PICK old \in Mac :
            replicalist' = IF Accepted
                           THEN MapInsert(replicalist, ItemKey(t),
                                          view_rpc2local(old, TheItem(t).view))
                           ELSE replicalist
      BY <1>3
    <2>3. view_rpc2local(old, TheItem(t).view) \in Local_view /\ ItemKey(t) \in Key
      BY <2>1, ItemType, Rpc2LocalType
    <2>4. DOMAIN viewlist = Dirs /\ (\A e \in Dirs : IsViewMap(viewlist[e])) /\ IsViewMap(replicalist)
      BY <2>1 DEF TypeOK, ServerTypeOK
    <2>5. /\ IsViewMap(replicalist')
          /\ DOMAIN replicalist' = IF Accepted THEN DOMAIN replicalist \cup {ItemKey(t)}
                                               ELSE DOMAIN replicalist
      BY <2>2, <2>3, <2>4, MapInsertType
    <2>6. Thrown(t).action = m /\ ToInt(Thrown(t).worker_id) = ItemKey(t)
      BY <1>3, <2>1, ThrownType
    <2>7. TableKeys' = IF Accepted THEN Accept(Thrown(t), TableKeys) ELSE TableKeys
      <3>1. Accept(Thrown(t), TableKeys) =
              [b \in Tables |-> IF b = "replica" THEN TableKeys[b] \cup {ItemKey(t)}
                                                 ELSE TableKeys[b]]
        BY <2>6, AcceptAddReplica
      <3> QED BY <1>3, <2>5, <3>1 DEF TableKeys, Tables, Dirs
    <2> QED BY <1>3, <2>1, <2>4, <2>5, <2>7, AcknowledgeType DEF HandlerStep, TakeStep
  <1>4. CASE Handling(t, "loop", m) /\ ~ MoreItems(t) /\ FinishWithReplicas(t)
    <2>1. PICK addr \in Byte :
            Finish(t, [PlainAnswer(t) EXCEPT !.replicas = Encoded(addr, replicalist)])
      BY <1>4 DEF FinishWithReplicas
    <2>2. Encoded(addr, replicalist) \in SUBSET AnsweredView
      BY <1>0, EncodedType DEF TypeOK, ServerTypeOK
    <2>3. [PlainAnswer(t) EXCEPT !.replicas = Encoded(addr, replicalist)] \in Answer
      BY <1>0, <2>2, PlainAnswerType DEF Answer
    <2> QED BY <1>4, <2>1, <2>3 DEF HandlerStep, FinishStep
  <1> QED BY <1>1, <1>2, <1>3, <1>4 DEF AddReplicas

\* The two handlers that take a replica off the list.
LEMMA DroppedReplica ==
  ASSUME TypeInv, NEW t \in RpcThreads, pc[t] = "wait", GotReply(t),
         Req(t).method \in {"DeleteReplicas", "Recover"},
         replicalist' = IF Accepted THEN MapErase(replicalist, ItemKey(t)) ELSE replicalist,
         Acknowledge(t), UNCHANGED viewlist
  PROVE  TakeStep(t)
  <1>1. InCall(t) /\ MoreItems(t) /\ TypeOK
    BY DEF TypeInv, WaitingHasItem, InCall
  <1>2. ItemKey(t) \in Key
    BY <1>1, ItemType
  <1>3. DOMAIN viewlist = Dirs /\ (\A e \in Dirs : IsViewMap(viewlist[e])) /\ IsViewMap(replicalist)
    BY <1>1 DEF TypeOK, ServerTypeOK
  <1>4. /\ IsViewMap(replicalist')
        /\ DOMAIN replicalist' = IF Accepted THEN DOMAIN replicalist \ {ItemKey(t)}
                                             ELSE DOMAIN replicalist
    BY <1>2, <1>3, MapEraseType
  <1>5. TableKeys' = IF Accepted THEN Accept(Thrown(t), TableKeys) ELSE TableKeys
    <2>1. Accept(Thrown(t), TableKeys) =
            [b \in Tables |-> IF b = "replica" THEN TableKeys[b] \ {ItemKey(t)}
                                               ELSE TableKeys[b]]
      BY <1>1, ThrownType, AcceptDropReplica
    <2> QED BY <1>4, <2>1 DEF TableKeys, Tables, Dirs
  <1> QED BY <1>1, <1>3, <1>4, <1>5, AcknowledgeType DEF TakeStep

LEMMA DeleteReplicasSteps ==
  ASSUME TypeInv, NEW t \in RpcThreads, DeleteReplicas(t)
  PROVE  HandlerStep(t)
  <1> DEFINE m == "DeleteReplicas"
  <1> USE DEF Handling
  <1>0. reply_ \in [RpcThreads -> Pending] /\ TypeOK
    BY DEF TypeInv, TypeOK, ServerTypeOK
  <1>1. CASE /\ Handling(t, "loop", m) /\ MoreItems(t)
             /\ Skip(t, ReplicaObjection(TheItem(t)))
    BY <1>1, ObjectionTypes DEF HandlerStep, SkipStep
  <1>2. CASE /\ Handling(t, "loop", m) /\ MoreItems(t)
             /\ ReplicaObjection(TheItem(t)) = ""
             /\ Throw(t, ListsMsg(t, 0), reply_[t])
    <2>1. Thrown(t) = ListsMsg(t, 0)
      BY <1>2, MethodNames DEF Thrown, QueryMethods
    <2>2. ItemKey(t) \in DOMAIN replicalist
      BY <1>2 DEF ReplicaObjection, ItemKey
    <2>3. CheckHolds(t)
      BY <1>2, <2>2, MethodNames DEF CheckHolds, Dirs
    <2> QED BY <1>0, <1>2, <2>1, <2>3 DEF HandlerStep, ThrowStep
  <1>3. CASE /\ Handling(t, "wait", m) /\ GotReply(t)
             /\ replicalist' = IF Accepted THEN MapErase(replicalist, ItemKey(t))
                                           ELSE replicalist
             /\ Acknowledge(t)
             /\ UNCHANGED viewlist
    BY <1>3, DroppedReplica DEF HandlerStep
  <1>4. CASE Handling(t, "loop", m) /\ ~ MoreItems(t) /\ FinishWithReplicas(t)
    <2>1. PICK addr \in Byte :
            Finish(t, [PlainAnswer(t) EXCEPT !.replicas = Encoded(addr, replicalist)])
      BY <1>4 DEF FinishWithReplicas
    <2>2. Encoded(addr, replicalist) \in SUBSET AnsweredView
      BY <1>0, EncodedType DEF TypeOK, ServerTypeOK
    <2>3. [PlainAnswer(t) EXCEPT !.replicas = Encoded(addr, replicalist)] \in Answer
      BY <1>0, <2>2, PlainAnswerType DEF Answer
    <2> QED BY <1>4, <2>1, <2>3 DEF HandlerStep, FinishStep
  <1> QED BY <1>1, <1>2, <1>3, <1>4 DEF DeleteReplicas

LEMMA RecoverSteps ==
  ASSUME TypeInv, NEW t \in RpcThreads, Recover(t)
  PROVE  HandlerStep(t)
  <1> DEFINE m == "Recover"
  <1> USE DEF Handling
  <1>0. reply_ \in [RpcThreads -> Pending] /\ TypeOK
    BY DEF TypeInv, TypeOK, ServerTypeOK
  <1>1. CASE /\ Handling(t, "loop", m) /\ MoreItems(t)
             /\ Skip(t, ReplicaObjection(TheItem(t)))
    BY <1>1, ObjectionTypes DEF HandlerStep, SkipStep
  <1>2. CASE /\ Handling(t, "loop", m) /\ MoreItems(t)
             /\ ReplicaObjection(TheItem(t)) = ""
             /\ Throw(t, IdMsg(m, ItemKey(t), t), reply_[t])
    <2>1. Thrown(t) = IdMsg(m, ItemKey(t), t)
      BY <1>2, MethodNames DEF Thrown, QueryMethods
    <2>2. ItemKey(t) \in DOMAIN replicalist
      BY <1>2 DEF ReplicaObjection, ItemKey
    <2>3. CheckHolds(t)
      BY <1>2, <2>2, MethodNames DEF CheckHolds, Dirs
    <2> QED BY <1>0, <1>2, <2>1, <2>3 DEF HandlerStep, ThrowStep
  <1>3. CASE /\ Handling(t, "wait", m) /\ GotReply(t)
             /\ \E high \in {0, 1} :
                  replicalist' = IF Accepted
                    THEN MapErase(replicalist, ToInt(UnionAsUint64(ItemKey(t), high)))
                    ELSE replicalist
             /\ Acknowledge(t)
             /\ UNCHANGED viewlist
    <2>1. InCall(t) /\ MoreItems(t) /\ TypeOK
      BY <1>3 DEF TypeInv, WaitingHasItem, InCall
    <2>2. \A high \in {0, 1} : ToInt(UnionAsUint64(ItemKey(t), high)) = ItemKey(t)
      BY <2>1, ItemType, ToIntKeeps
    <2>3. replicalist' = IF Accepted THEN MapErase(replicalist, ItemKey(t)) ELSE replicalist
      BY <1>3, <2>2
    <2> QED BY <1>3, <2>3, DroppedReplica DEF HandlerStep
  <1>4. CASE Handling(t, "loop", m) /\ ~ MoreItems(t) /\ Finish(t, PlainAnswer(t))
    BY <1>0, <1>4, PlainAnswerType DEF HandlerStep, FinishStep
  <1> QED BY <1>1, <1>2, <1>3, <1>4 DEF Recover

LEMMA ProceedSteps ==
  ASSUME TypeInv, NEW t \in RpcThreads, Proceed(t)
  PROVE  HandlerStep(t)
  <1>0. runtimeinfo \in BOOLEAN /\ runtimestat \in BOOLEAN
    BY DEF TypeInv, TypeOK, WorkerTypeOK
  <1>1. CASE AddInputView(t) \/ AddOutputView(t)
    BY <1>1, AddViewSteps DEF AddInputView, AddOutputView, Dirs
  <1>2. CASE DeleteInputView(t) \/ DeleteOutputView(t)
    BY <1>2, DeleteViewSteps DEF DeleteInputView, DeleteOutputView, Dirs
  <1>3. CASE QueryRuntimeInfo(t) \/ QueryRuntimeStat(t)
    BY <1>0, <1>3, QuerySteps DEF QueryRuntimeInfo, QueryRuntimeStat, QueryMethods
  <1>4. CASE LivenessCheck(t)
    <2>1. [PlainAnswer(t) EXCEPT !.succeed = TRUE] \in Answer
      BY PlainAnswerType DEF TypeInv, Answer
    <2> QED BY <1>4, <2>1 DEF LivenessCheck, Handling, HandlerStep, FinishStep
  <1> QED BY <1>1, <1>2, <1>3, <1>4, MigrationSteps, AddReplicasSteps,
             DeleteReplicasSteps, RecoverSteps DEF Proceed

----------------------------------------------------------------------------
(* Type correctness, and that a call is in one pair of hands. *)

LEMMA Defaults ==
  /\ NoRequest \in Request /\ NoAnswer \in Answer /\ NoPending \in Pending
  /\ NoSnapshot \in [Tables -> SUBSET Key]
  BY ConstantsAssumption
     DEF NoRequest, Request, NoAnswer, Answer, NoPending, Pending, NoSnapshot, Methods,
         Reasons, Item

LEMMA InitTypeInv == Init => TypeInv
  <1> SUFFICES ASSUME Init PROVE TypeInv
    OBVIOUS
  <1> USE DEF Init
  <1>1. RingsTypeOK
    BY DEF RingsInit, RingsTypeOK
  <1>2. WorkerTypeOK
    BY DEF WorkerInit, WorkerTypeOK
  <1>3. GrpcTypeOK
    BY Defaults DEF GrpcInit, GrpcTypeOK, NoCall, Call, CallStates
  <1>4. ServerTypeOK
    BY Defaults, EmptyMapType DEF ServerInit, ServerTypeOK
  <1>5. OneHandlerPerCall
    BY DEF ServerInit, GrpcInit, OneHandlerPerCall, HandlersRun, HandlersDistinct,
            EventsQueued, EventsDistinct, InCall, ProcessEvents
  <1>6. WaitingHasItem
    BY DEF ServerInit, WaitingHasItem
  <1> QED BY <1>1, <1>2, <1>3, <1>4, <1>5, <1>6 DEF TypeInv, TypeOK

LEMMA SkipKeepsType ==
  ASSUME TypeInv, NEW t \in RpcThreads, SkipStep(t), UNCHANGED workerVars
  PROVE  TypeInv'
  <1> PICK why \in Reasons : Skip(t, why)
    BY DEF SkipStep
  <1> USE DEF Skip, ringVars, workerVars, grpcVars
  <1>1. TypeOK'
    <2>1. RingsTypeOK' /\ WorkerTypeOK' /\ GrpcTypeOK'
      BY DEF TypeInv, TypeOK, RingsTypeOK, WorkerTypeOK, GrpcTypeOK
    <2>2. reply_' \in [RpcThreads -> Pending]
      BY DEF TypeInv, TypeOK, ServerTypeOK, Pending
    <2>3. item' \in [RpcThreads -> Nat \ {0}]
      BY DEF TypeInv, TypeOK, ServerTypeOK
    <2>4. ServerTypeOK'
      BY <2>2, <2>3 DEF TypeInv, TypeOK, ServerTypeOK, IsViewMap
    <2> QED BY <2>1, <2>4 DEF TypeOK
  <1>2. OneHandlerPerCall'
    BY DEF TypeInv, OneHandlerPerCall, HandlersRun, HandlersDistinct,
            EventsQueued, EventsDistinct, InCall, ProcessEvents
  <1>3. WaitingHasItem'
    BY DEF TypeInv, TypeOK, ServerTypeOK, WaitingHasItem, MoreItems, Req, SkipStep
  <1> QED BY <1>1, <1>2, <1>3 DEF TypeInv

LEMMA ThrowKeepsType ==
  ASSUME TypeInv, NEW t \in RpcThreads, ThrowStep(t), UNCHANGED workerVars
  PROVE  TypeInv'
  <1> PICK p \in Pending : Throw(t, Thrown(t), p)
    BY DEF ThrowStep
  <1>0. Thrown(t) \in RequestMsg(RpcThreads)
    BY ThrownType DEF TypeInv, ThrowStep, CheckHolds, InCall
  <1> USE DEF Throw, workerVars, grpcVars
  <1>1. TypeOK'
    <2>1. RingsTypeOK'
      <3>1. PICK ok \in EnqueueResults :
              rte_ring_request' = [rte_ring_request EXCEPT ![t] =
                                     IF ok THEN Append(@, Thrown(t)) ELSE @]
        BY DEF ThrowRequest
      <3>2. rte_ring_request \in [RpcThreads -> Seq(RequestMsg(RpcThreads))]
        BY DEF TypeInv, TypeOK, RingsTypeOK
      <3>3. CASE ok
        BY <1>0, <3>1, <3>2, <3>3 DEF ThrowRequest, TypeInv, TypeOK, RingsTypeOK
      <3>4. CASE ~ ok
        BY <3>1, <3>2, <3>4 DEF ThrowRequest, TypeInv, TypeOK, RingsTypeOK
      <3> QED BY <3>3, <3>4
    <2>2. WorkerTypeOK' /\ GrpcTypeOK'
      BY DEF TypeInv, TypeOK, WorkerTypeOK, GrpcTypeOK
    <2>3. ServerTypeOK'
      BY DEF TypeInv, TypeOK, ServerTypeOK, IsViewMap, ThrowStep
    <2> QED BY <2>1, <2>2, <2>3 DEF TypeOK
  <1>2. OneHandlerPerCall'
    BY DEF TypeInv, TypeOK, ServerTypeOK, OneHandlerPerCall, HandlersRun, HandlersDistinct,
            EventsQueued, EventsDistinct, InCall, ProcessEvents, ThrowStep
  <1>3. WaitingHasItem'
    BY DEF TypeInv, TypeOK, ServerTypeOK, WaitingHasItem, MoreItems, Req, ThrowStep, CheckHolds
  <1> QED BY <1>1, <1>2, <1>3 DEF TypeInv

LEMMA TakeKeepsType ==
  ASSUME TypeInv, NEW t \in RpcThreads, TakeStep(t), UNCHANGED workerVars
  PROVE  TypeInv'
  <1> USE DEF TakeStep, GotReply, TakeReply, workerVars, grpcVars
  <1>1. TypeOK'
    <2>1. RingsTypeOK'
      BY DEF TypeInv, TypeOK, RingsTypeOK
    <2>2. WorkerTypeOK' /\ GrpcTypeOK'
      BY DEF TypeInv, TypeOK, WorkerTypeOK, GrpcTypeOK
    <2>3. ServerTypeOK'
      BY DEF TypeInv, TypeOK, ServerTypeOK, IsViewMap
    <2> QED BY <2>1, <2>2, <2>3 DEF TypeOK
  <1>2. OneHandlerPerCall'
    BY DEF TypeInv, TypeOK, ServerTypeOK, OneHandlerPerCall, HandlersRun, HandlersDistinct,
            EventsQueued, EventsDistinct, InCall, ProcessEvents
  <1>3. WaitingHasItem'
    BY DEF TypeInv, TypeOK, ServerTypeOK, WaitingHasItem, MoreItems, Req
  <1> QED BY <1>1, <1>2, <1>3 DEF TypeInv

\* What moving a call on does to the calls.
LEMMA CallMoves ==
  ASSUME call \in [Clients -> Call], NEW c \in Clients, NEW s \in CallStates
  PROVE  LET n == [call EXCEPT ![c].st = s] IN
         /\ n \in [Clients -> Call]
         /\ n[c].st = s /\ n[c].req = call[c].req
         /\ \A b \in Clients \ {c} : n[b] = call[b]
  BY DEF Call

LEMMA CallAnswered ==
  ASSUME call \in [Clients -> Call], NEW c \in Clients, NEW a \in Answer
  PROVE  LET n == [call EXCEPT ![c].st = "answered", ![c].answer = a] IN
         /\ n \in [Clients -> Call]
         /\ n[c].st = "answered" /\ n[c].req = call[c].req
         /\ \A b \in Clients \ {c} : n[b] = call[b]
  BY DEF Call, CallStates

\* The facts about calls that the steps of the event loop preserve, for a
\* step after which the handlers and the events are some of those before it.
LEMMA FewerHands ==
  ASSUME TypeInv, NEW c \in Clients,
         \A b \in Clients \ {c} : call'[b] = call[b],
         \A u \in RpcThreads : InCall(u)' =>
           InCall(u) /\ cur'[u] = cur[u] /\ (cur[u] = c => call'[c].st = "running"),
         \A i \in ProcessEvents' :
           i \in ProcessEvents /\ cq'[i] = cq[i] /\ cq[i].client # c
  PROVE  OneHandlerPerCall'
  <1>1. \A u \in RpcThreads : InCall(u) => cur[u] \in Clients
    BY DEF TypeInv, TypeOK, ServerTypeOK, InCall
  <1>2. \A i \in ProcessEvents : cq[i].client \in Clients
    <2>1. cq \in Seq(Event)
      BY DEF TypeInv, TypeOK, GrpcTypeOK
    <2>2. \A i \in DOMAIN cq : cq[i] \in Event
      BY <2>1
    <2> QED BY <2>2 DEF ProcessEvents, Event
  <1>3. HandlersRun'
    BY <1>1 DEF TypeInv, OneHandlerPerCall, HandlersRun
  <1>4. HandlersDistinct'
    BY DEF TypeInv, OneHandlerPerCall, HandlersDistinct
  <1>5. EventsQueued'
    BY <1>2 DEF TypeInv, OneHandlerPerCall, EventsQueued
  <1>6. EventsDistinct'
    BY DEF TypeInv, OneHandlerPerCall, EventsDistinct
  <1> QED BY <1>3, <1>4, <1>5, <1>6 DEF OneHandlerPerCall

LEMMA FinishKeepsType ==
  ASSUME TypeInv, NEW t \in RpcThreads, FinishStep(t), UNCHANGED workerVars
  PROVE  TypeInv'
  <1> PICK a \in Answer : Finish(t, a)
    BY DEF FinishStep
  <1> DEFINE c == cur[t]
             e == [kind |-> "FINISH", client |-> c, method |-> Req(t).method]
  <1>0. /\ c \in Clients /\ InCall(t) /\ e \in Event
        /\ call \in [Clients -> Call] /\ cq \in Seq(Event) /\ cq' = Append(cq, e)
    BY ReqType DEF Finish, FinishStep, TypeInv, TypeOK, GrpcTypeOK, InCall, Event, Request
  <1>1. /\ call' \in [Clients -> Call] /\ call'[c].req = call[c].req
        /\ \A b \in Clients \ {c} : call'[b] = call[b]
    BY <1>0, CallAnswered DEF Finish
  <1>2. TypeOK'
    <2> USE DEF Finish, ringVars, workerVars
    <2>1. RingsTypeOK' /\ WorkerTypeOK'
      BY DEF TypeInv, TypeOK, RingsTypeOK, WorkerTypeOK
    <2>2. GrpcTypeOK'
      <3>1. cq' \in Seq(Event)
        BY <1>0
      <3> QED BY <1>1, <3>1 DEF TypeInv, TypeOK, GrpcTypeOK
    <2>3. ServerTypeOK'
      BY Defaults DEF TypeInv, TypeOK, ServerTypeOK, IsViewMap
    <2> QED BY <2>1, <2>2, <2>3 DEF TypeOK
  <1>3. OneHandlerPerCall'
    <2>1. \A u \in RpcThreads : InCall(u)' => InCall(u) /\ cur'[u] = cur[u] /\ cur[u] # c
      BY <1>0 DEF Finish, TypeInv, TypeOK, ServerTypeOK, OneHandlerPerCall, HandlersDistinct, InCall
    <2>2. \A i \in ProcessEvents' : i \in ProcessEvents /\ cq'[i] = cq[i]
      BY <1>0 DEF ProcessEvents
    <2>3. \A i \in ProcessEvents : cq[i].client # c
      BY <1>0 DEF TypeInv, OneHandlerPerCall, HandlersRun, EventsQueued
    <2> QED BY <1>0, <1>1, <2>1, <2>2, <2>3, FewerHands
  <1>4. WaitingHasItem'
    <2> SUFFICES ASSUME NEW u \in RpcThreads, pc'[u] = "wait" PROVE MoreItems(u)'
      BY DEF WaitingHasItem
    <2>1. u # t /\ pc[u] = "wait" /\ item'[u] = item[u] /\ cur'[u] = cur[u]
      BY DEF Finish, TypeInv, TypeOK, ServerTypeOK
    <2>2. cur[u] \in Clients /\ MoreItems(u)
      BY <2>1 DEF TypeInv, TypeOK, ServerTypeOK, WaitingHasItem
    <2>3. call'[cur[u]].req = call[cur[u]].req
      BY <1>0, <1>1, <2>2
    <2> QED BY <2>1, <2>2, <2>3 DEF MoreItems, Req
  <1> QED BY <1>2, <1>3, <1>4 DEF TypeInv

LEMMA BootKeepsType ==
  ASSUME TypeInv, NEW t \in RpcThreads, BootAcceptors(t), UNCHANGED workerVars
  PROVE  TypeInv'
  <1> USE DEF BootAcceptors, ringVars, workerVars
  <1>1. TypeOK'
    <2>1. RingsTypeOK' /\ WorkerTypeOK'
      BY DEF TypeInv, TypeOK, RingsTypeOK, WorkerTypeOK
    <2>2. GrpcTypeOK'
      BY DEF TypeInv, TypeOK, GrpcTypeOK
    <2>3. ServerTypeOK'
      BY DEF TypeInv, TypeOK, ServerTypeOK, IsViewMap
    <2> QED BY <2>1, <2>2, <2>3 DEF TypeOK
  <1>2. OneHandlerPerCall'
    BY DEF TypeInv, TypeOK, ServerTypeOK, OneHandlerPerCall, HandlersRun, HandlersDistinct,
            EventsQueued, EventsDistinct, InCall, ProcessEvents
  <1>3. WaitingHasItem'
    BY DEF TypeInv, TypeOK, ServerTypeOK, WaitingHasItem, MoreItems, Req
  <1> QED BY <1>1, <1>2, <1>3 DEF TypeInv

\* Taking the first event off the completion queue.
LEMMA PopEvent ==
  ASSUME TypeOK, cq # <<>>, cq' = Tail(cq)
  PROVE  /\ Head(cq) \in Event /\ Head(cq) = cq[1] /\ 1 \in DOMAIN cq /\ cq' \in Seq(Event)
         /\ \A i \in DOMAIN cq' : i + 1 \in DOMAIN cq /\ cq'[i] = cq[i + 1] /\ i \in Nat
  <1>1. cq \in Seq(Event)
    BY DEF TypeOK, GrpcTypeOK
  <1> QED BY <1>1

LEMMA DeleteKeepsType ==
  ASSUME TypeInv, NEW t \in RpcThreads, DeleteCallData(t), UNCHANGED workerVars
  PROVE  TypeInv'
  <1>0. TypeOK /\ cq # <<>> /\ cq' = Tail(cq) /\ UNCHANGED <<call, pc, cur, item>>
    BY DEF TypeInv, DeleteCallData, serverVars
  <1>1. TypeOK'
    <2> USE DEF DeleteCallData, ringVars, workerVars, serverVars
    <2>1. RingsTypeOK' /\ WorkerTypeOK'
      BY DEF TypeInv, TypeOK, RingsTypeOK, WorkerTypeOK
    <2>2. GrpcTypeOK'
      BY <1>0, PopEvent DEF TypeOK, GrpcTypeOK, Event
    <2>3. ServerTypeOK'
      BY DEF TypeInv, TypeOK, ServerTypeOK, IsViewMap
    <2> QED BY <2>1, <2>2, <2>3 DEF TypeOK
  <1>2. OneHandlerPerCall'
    <2>1. \A i \in ProcessEvents' : i + 1 \in ProcessEvents /\ cq'[i] = cq[i + 1] /\ i \in Nat
      BY <1>0, PopEvent DEF ProcessEvents
    <2>2. EventsDistinct'
      <3> SUFFICES ASSUME NEW i \in ProcessEvents', NEW j \in ProcessEvents',
                          cq'[i].client = cq'[j].client
                   PROVE  i = j
        BY DEF EventsDistinct
      <3>1. i + 1 = j + 1
        BY <2>1 DEF TypeInv, OneHandlerPerCall, EventsDistinct
      <3> QED BY <2>1, <3>1
    <2>3. EventsQueued'
      BY <1>0, <2>1 DEF TypeInv, OneHandlerPerCall, EventsQueued
    <2> QED BY <1>0, <2>2, <2>3
            DEF TypeInv, OneHandlerPerCall, HandlersRun, HandlersDistinct, InCall
  <1>3. WaitingHasItem'
    BY <1>0 DEF TypeInv, WaitingHasItem, MoreItems, Req
  <1> QED BY <1>1, <1>2, <1>3 DEF TypeInv

LEMMA BeginKeepsType ==
  ASSUME TypeInv, NEW t \in RpcThreads, BeginCall(t), UNCHANGED workerVars
  PROVE  TypeInv'
  <1> DEFINE c == Head(cq).client
  <1>0. /\ TypeOK /\ cq # <<>> /\ cq' = Tail(cq) /\ Head(cq).kind = "PROCESS"
        /\ call' = [call EXCEPT ![c].st = "running"]
        /\ pc[t] = "next" /\ pc' = [pc EXCEPT ![t] = "loop"]
        /\ cur' = [cur EXCEPT ![t] = c] /\ item' = item
        /\ pc \in [RpcThreads -> {"boot", "next", "loop", "wait"}]
        /\ cur \in [RpcThreads -> Clients \cup {None}]
    BY DEF TypeInv, TypeOK, ServerTypeOK, BeginCall
  <1>1. /\ 1 \in ProcessEvents /\ Head(cq) = cq[1] /\ Head(cq) \in Event /\ c \in Clients
    BY <1>0, PopEvent DEF ProcessEvents, Event
  <1>2. call[c].st = "queued"
    BY <1>1 DEF TypeInv, OneHandlerPerCall, EventsQueued
  <1>3. \A i \in ProcessEvents' :
          /\ i + 1 \in ProcessEvents /\ cq'[i] = cq[i + 1] /\ i \in Nat
          /\ cq[i + 1].client \in Clients \ {c}
    <2> SUFFICES ASSUME NEW i \in ProcessEvents'
                 PROVE  /\ i + 1 \in ProcessEvents /\ cq'[i] = cq[i + 1] /\ i \in Nat
                        /\ cq[i + 1].client \in Clients \ {c}
      OBVIOUS
    <2>1. i + 1 \in ProcessEvents /\ cq'[i] = cq[i + 1] /\ i \in DOMAIN cq' /\ cq' \in Seq(Event)
      BY <1>0, PopEvent DEF ProcessEvents
    <2>2. i \in Nat /\ i + 1 # 1 /\ cq'[i] \in Event
      BY <2>1
    <2>3. cq[i + 1].client \in Clients
      BY <2>1, <2>2 DEF Event
    <2>4. cq[i + 1].client # c
      BY <1>1, <2>1, <2>2 DEF TypeInv, OneHandlerPerCall, EventsDistinct
    <2> QED BY <2>1, <2>2, <2>3, <2>4
  <1>4. /\ call' \in [Clients -> Call] /\ call'[c].st = "running" /\ call'[c].req = call[c].req
        /\ \A b \in Clients \ {c} : call'[b] = call[b]
    <2>1. call \in [Clients -> Call] /\ "running" \in CallStates
      BY <1>0 DEF TypeOK, GrpcTypeOK, CallStates
    <2> QED BY <1>0, <1>1, <2>1, CallMoves
  <1>5. \A u \in RpcThreads : InCall(u) => u # t /\ cur[u] \in Clients \ {c}
    BY <1>0, <1>2 DEF TypeInv, TypeOK, ServerTypeOK, OneHandlerPerCall, HandlersRun, InCall
  <1>6. TypeOK'
    <2> USE DEF BeginCall, NewAcceptor, ringVars, workerVars
    <2>1. RingsTypeOK' /\ WorkerTypeOK'
      BY DEF TypeInv, TypeOK, RingsTypeOK, WorkerTypeOK
    <2>2. GrpcTypeOK'
      BY <1>0, <1>1, <1>4, PopEvent DEF TypeOK, GrpcTypeOK, Event
    <2>3. ServerTypeOK'
      BY <1>0, <1>1, TableKeysType DEF TypeOK, ServerTypeOK, IsViewMap
    <2> QED BY <2>1, <2>2, <2>3 DEF TypeOK
  <1>7. OneHandlerPerCall'
    <2>1. \A u \in RpcThreads : u # t => (InCall(u)' <=> InCall(u)) /\ cur'[u] = cur[u]
      BY <1>0 DEF InCall
    <2>2. cur'[t] = c
      BY <1>0
    <2>3. HandlersRun'
      BY <1>4, <1>5, <2>1, <2>2 DEF TypeInv, OneHandlerPerCall, HandlersRun
    <2>4. HandlersDistinct'
      BY <1>5, <2>1, <2>2 DEF TypeInv, OneHandlerPerCall, HandlersDistinct
    <2>5. EventsQueued'
      BY <1>3, <1>4 DEF TypeInv, OneHandlerPerCall, EventsQueued
    <2>6. EventsDistinct'
      <3> SUFFICES ASSUME NEW i \in ProcessEvents', NEW j \in ProcessEvents',
                          cq'[i].client = cq'[j].client
                   PROVE  i = j
        BY DEF EventsDistinct
      <3>1. i + 1 = j + 1
        BY <1>3 DEF TypeInv, OneHandlerPerCall, EventsDistinct
      <3> QED BY <1>3, <3>1
    <2> QED BY <2>3, <2>4, <2>5, <2>6 DEF OneHandlerPerCall
  <1>8. WaitingHasItem'
    <2> SUFFICES ASSUME NEW u \in RpcThreads, pc'[u] = "wait" PROVE MoreItems(u)'
      BY DEF WaitingHasItem
    <2>1. pc[u] = "wait" /\ item'[u] = item[u] /\ cur'[u] = cur[u]
      BY <1>0
    <2>2. call'[cur[u]].req = call[cur[u]].req
      BY <1>4, <1>5, <2>1 DEF InCall
    <2> QED BY <2>1, <2>2 DEF TypeInv, WaitingHasItem, MoreItems, Req
  <1> QED BY <1>6, <1>7, <1>8 DEF TypeInv

LEMMA MatchKeepsType ==
  ASSUME TypeInv, NEW c \in Clients, Transport(c)
  PROVE  TypeInv'
  <1> DEFINE m == call[c].req.method
             e == [kind |-> "PROCESS", client |-> c, method |-> m]
  <1>0. /\ call \in [Clients -> Call] /\ call[c].st = "sent" /\ m \in Methods /\ e \in Event
        /\ cq \in Seq(Event) /\ cq' = Append(cq, e) /\ call' = [call EXCEPT ![c].st = "queued"]
        /\ UNCHANGED <<pc, cur, item>>
    BY DEF Transport, GrpcMatch, TypeInv, TypeOK, GrpcTypeOK, Call, Request, Event, serverVars
  <1>1. "queued" \in CallStates
    BY DEF CallStates
  <1>2. /\ call' \in [Clients -> Call] /\ call'[c].st = "queued" /\ call'[c].req = call[c].req
        /\ \A b \in Clients \ {c} : call'[b] = call[b]
    BY <1>0, <1>1, CallMoves
  <1>3. \A u \in RpcThreads : InCall(u) => cur[u] \in Clients \ {c}
    BY <1>0 DEF TypeInv, TypeOK, ServerTypeOK, OneHandlerPerCall, HandlersRun, InCall
  <1>4. TypeOK'
    <2> USE DEF Transport, GrpcMatch, ringVars, workerVars, serverVars
    <2>1. RingsTypeOK' /\ WorkerTypeOK'
      BY DEF TypeInv, TypeOK, RingsTypeOK, WorkerTypeOK
    <2>2. GrpcTypeOK'
      <3>1. cq' \in Seq(Event)
        BY <1>0
      <3>2. armed' \in [Methods -> Nat]
        BY <1>0 DEF TypeInv, TypeOK, GrpcTypeOK
      <3> QED BY <1>2, <3>1, <3>2 DEF TypeInv, TypeOK, GrpcTypeOK
    <2>3. ServerTypeOK'
      BY DEF TypeInv, TypeOK, ServerTypeOK, IsViewMap
    <2> QED BY <2>1, <2>2, <2>3 DEF TypeOK
  <1>5. OneHandlerPerCall'
    <2>1. \A i \in ProcessEvents' :
            \/ i \in ProcessEvents /\ cq'[i] = cq[i]
            \/ i = Len(cq) + 1 /\ cq'[i] = e
      BY <1>0 DEF ProcessEvents
    <2>2. \A i \in ProcessEvents : cq[i].client \in Clients \ {c} /\ i \in DOMAIN cq
      <3>1. \A i \in DOMAIN cq : cq[i] \in Event
        BY <1>0
      <3> QED BY <1>0, <3>1 DEF ProcessEvents, Event, TypeInv, OneHandlerPerCall, EventsQueued
    <2>3. HandlersRun'
      BY <1>0, <1>2, <1>3 DEF TypeInv, OneHandlerPerCall, HandlersRun, InCall
    <2>4. HandlersDistinct'
      BY <1>0 DEF TypeInv, OneHandlerPerCall, HandlersDistinct, InCall
    <2>5. EventsQueued'
      BY <1>2, <2>1, <2>2 DEF TypeInv, OneHandlerPerCall, EventsQueued
    <2>6. EventsDistinct'
      BY <2>1, <2>2 DEF TypeInv, OneHandlerPerCall, EventsDistinct
    <2> QED BY <2>3, <2>4, <2>5, <2>6 DEF OneHandlerPerCall
  <1>6. WaitingHasItem'
    BY <1>0, <1>2, <1>3 DEF TypeInv, WaitingHasItem, InCall, MoreItems, Req
  <1> QED BY <1>4, <1>5, <1>6 DEF TypeInv

\* A client touches only a call that no event and no handler holds.
LEMMA ControllerKeepsType ==
  ASSUME TypeInv, NEW c \in Clients, Controller(c)
  PROVE  TypeInv'
  <1>0. /\ call \in [Clients -> Call] /\ call[c].st \in {"idle", "answered"}
        /\ UNCHANGED <<cq, pc, cur, item>>
    BY DEF Controller, CallRpc, ReturnRpc, TypeInv, TypeOK, GrpcTypeOK, serverVars
  <1>1. PICK n \in Call : call' = [call EXCEPT ![c] = n]
    <2>1. NoCall \in Call
      BY Defaults DEF NoCall, Call, CallStates
    <2>2. \A r \in Requests : [st |-> "sent", req |-> r, answer |-> NoAnswer] \in Call
      BY Defaults, RequestsAssumption DEF Call, CallStates
    <2> QED BY <2>1, <2>2 DEF Controller, CallRpc, ReturnRpc
  <1>2. call' \in [Clients -> Call] /\ \A b \in Clients \ {c} : call'[b] = call[b]
    BY <1>0, <1>1
  <1>3. \A u \in RpcThreads : InCall(u) => cur[u] \in Clients \ {c}
    BY <1>0 DEF TypeInv, TypeOK, ServerTypeOK, OneHandlerPerCall, HandlersRun, InCall
  <1>4. \A i \in ProcessEvents : cq[i].client # c
    BY <1>0 DEF TypeInv, OneHandlerPerCall, EventsQueued
  <1>5. TypeOK'
    <2> USE DEF Controller, CallRpc, ReturnRpc, ringVars, workerVars, serverVars
    <2>1. RingsTypeOK' /\ WorkerTypeOK'
      BY DEF TypeInv, TypeOK, RingsTypeOK, WorkerTypeOK
    <2>2. GrpcTypeOK'
      BY <1>2 DEF TypeInv, TypeOK, GrpcTypeOK
    <2>3. ServerTypeOK'
      BY DEF TypeInv, TypeOK, ServerTypeOK, IsViewMap
    <2> QED BY <2>1, <2>2, <2>3 DEF TypeOK
  <1>6. OneHandlerPerCall'
    <2>1. \A i \in ProcessEvents' : i \in ProcessEvents /\ cq'[i] = cq[i]
      BY <1>0 DEF ProcessEvents
    <2> QED BY <1>0, <1>2, <1>3, <1>4, <2>1, FewerHands DEF InCall
  <1>7. WaitingHasItem'
    BY <1>0, <1>2, <1>3 DEF TypeInv, WaitingHasItem, InCall, MoreItems, Req
  <1> QED BY <1>5, <1>6, <1>7 DEF TypeInv

LEMMA WorkerKeepsType ==
  ASSUME TypeInv, WorkerThread
  PROVE  TypeInv'
  <1>0. /\ rte_ring_request \in [RpcThreads -> Seq(RequestMsg(RpcThreads))]
        /\ rte_ring_reply \in Seq(ReplyMsg(RpcThreads)) /\ WorkerTypeOK
        /\ UNCHANGED <<grpcVars, serverVars>>
    BY DEF TypeInv, TypeOK, RingsTypeOK, WorkerThread
  <1>1. ASSUME \E t \in RpcThreads : ChildTake(t)
        PROVE  RingsTypeOK' /\ WorkerTypeOK'
    <2> PICK t \in RpcThreads : ChildTake(t)
      BY <1>1
    <2>1. Head(rte_ring_request[t]) \in RequestMsg(RpcThreads)
      BY <1>0 DEF ChildTake, TakeRequest
    <2> QED BY <1>0, <2>1 DEF ChildTake, TakeRequest, RingsTypeOK, WorkerTypeOK
  <1>2. ASSUME ChildReply
        PROVE  RingsTypeOK' /\ WorkerTypeOK'
    <2> PICK verdict \in Verdicts :
          /\ PutReply(ReplyTo(child_request, verdict))
          /\ acknowledged' = IF verdict THEN Accept(child_request, acknowledged)
                                        ELSE acknowledged
      BY <1>2 DEF ChildReply
    <2>1. child_request \in RequestMsg(RpcThreads)
      BY <1>0, <1>2 DEF ChildReply, WorkerTypeOK
    <2>2. ReplyTo(child_request, verdict) \in ReplyMsg(RpcThreads)
      BY <2>1, ReplyType, VerdictsAssumption
    <2>3. acknowledged' \in [Tables -> SUBSET Key]
      BY <1>0, <2>1, AcceptType DEF WorkerTypeOK
    <2>4. RingsTypeOK'
      <3>1. PICK ok \in EnqueueResults :
              rte_ring_reply' = IF ok THEN Append(rte_ring_reply, ReplyTo(child_request, verdict))
                                      ELSE rte_ring_reply
        BY DEF PutReply
      <3>2. UNCHANGED rte_ring_request
        BY DEF PutReply
      <3> QED BY <1>0, <2>2, <3>1, <3>2 DEF RingsTypeOK
    <2>5. runtimeinfo' \in BOOLEAN /\ runtimestat' \in BOOLEAN /\ child_request' = None
      BY <1>2 DEF ChildReply
    <2> QED BY <2>3, <2>4, <2>5 DEF WorkerTypeOK
  <1>3. RingsTypeOK' /\ WorkerTypeOK'
    BY <1>1, <1>2 DEF WorkerThread, child
  <1>4. GrpcTypeOK' /\ ServerTypeOK'
    BY <1>0 DEF TypeInv, TypeOK, GrpcTypeOK, ServerTypeOK, IsViewMap, grpcVars, serverVars
  <1>5. OneHandlerPerCall'
    BY <1>0 DEF TypeInv, OneHandlerPerCall, HandlersRun, HandlersDistinct, EventsQueued,
            EventsDistinct, ProcessEvents, InCall, grpcVars, serverVars
  <1>6. WaitingHasItem'
    BY <1>0 DEF TypeInv, WaitingHasItem, MoreItems, Req, grpcVars, serverVars
  <1> QED BY <1>3, <1>4, <1>5, <1>6 DEF TypeInv, TypeOK

LEMMA StutterKeepsType ==
  ASSUME TypeInv, UNCHANGED vars
  PROVE  TypeInv'
  <1> USE DEF vars, ringVars, workerVars, grpcVars, serverVars
  <1>1. RingsTypeOK' /\ WorkerTypeOK' /\ GrpcTypeOK' /\ ServerTypeOK'
    BY DEF TypeInv, TypeOK, RingsTypeOK, WorkerTypeOK, GrpcTypeOK, ServerTypeOK, IsViewMap
  <1>2. OneHandlerPerCall' /\ WaitingHasItem'
    BY DEF TypeInv, OneHandlerPerCall, HandlersRun, HandlersDistinct, EventsQueued,
           EventsDistinct, ProcessEvents, InCall, WaitingHasItem, MoreItems, Req
  <1> QED BY <1>1, <1>2 DEF TypeInv, TypeOK

LEMMA NextTypeInv == TypeInv /\ [Next]_vars => TypeInv'
  <1> SUFFICES ASSUME TypeInv, [Next]_vars PROVE TypeInv'
    OBVIOUS
  <1>1. CASE \E t \in RpcThreads : HandleRpcs(t)
    <2> PICK t \in RpcThreads : HandleRpcs(t)
      BY <1>1
    <2>1. CASE Proceed(t)
      <3>1. HandlerStep(t)
        BY <2>1, ProceedSteps
      <3> QED BY <3>1, SkipKeepsType, ThrowKeepsType, TakeKeepsType, FinishKeepsType
              DEF HandlerStep, HandleRpcs
    <2> QED BY <2>1, BootKeepsType, BeginKeepsType, DeleteKeepsType DEF HandleRpcs
  <1>2. CASE WorkerThread
    BY <1>2, WorkerKeepsType
  <1>3. CASE \E c \in Clients : Controller(c) \/ Transport(c)
    BY <1>3, ControllerKeepsType, MatchKeepsType
  <1>4. CASE UNCHANGED vars
    BY <1>4, StutterKeepsType
  <1> QED BY <1>1, <1>2, <1>3, <1>4 DEF Next

LEMMA TypeInvHolds == Spec => []TypeInv
  BY InitTypeInv, NextTypeInv, PTL DEF Spec

(* Every variable keeps its type: every key stored, acknowledged or sent   *)
(* fits an int, every answer is a well-formed one, and a handler at work   *)
(* has a call; for any number of threads.                                  *)
THEOREM TypeCorrect == Spec => []TypeOK
  BY TypeInvHolds, PTL DEF TypeInv

(* However many threads run HandleRpcs, two of them never work on the same *)
(* call, and a call is in at most one event of the completion queue.       *)
THEOREM CallsInOneHand == Spec => []OneHandlerPerCall
  BY TypeInvHolds, PTL DEF TypeInv

----------------------------------------------------------------------------
(* One thread: the rings run in lock step with the handlers, and so the    *)
(* checks handlers make before they wait are still good afterwards.  Where *)
(* a message may be lost, a handler may wait with nothing under way.       *)

OneThread == \A t, u \in RpcThreads : t = u

EnqueuesSucceed == EnqueueResults = {TRUE}

\* Where the worker stands relative to the tables: level with them, or ahead
\* by the one message whose reply is under way.
WorkerAhead ==
  /\ ListsAgreeWithWorker
  /\ \A t \in RpcThreads :
       pc[t] = "wait" /\ rte_ring_reply # <<>> =>
         acknowledged = IF Accepted THEN Accept(Thrown(t), TableKeys) ELSE TableKeys

SafeInv == TypeInv /\ RingProtocol /\ CheckStillHolds /\ WorkerAhead

LEMMA ThrownKept ==
  ASSUME NEW t \in RpcThreads, Req(t)' = Req(t), item'[t] = item[t]
  PROVE  Thrown(t)' = Thrown(t)
  BY DEF Thrown, ListsMsg, IdMsg, TheItem, ItemKey

LEMMA CheckKept ==
  ASSUME NEW t \in RpcThreads, Req(t)' = Req(t), item'[t] = item[t],
         UNCHANGED <<viewlist, replicalist>>, CheckHolds(t)
  PROVE  CheckHolds(t)'
  BY DEF CheckHolds, TheItem, ItemKey, MoreItems, ListsObjection

LEMMA InitSafeInv == Init => SafeInv
  <1> SUFFICES ASSUME Init PROVE SafeInv
    OBVIOUS
  <1> USE DEF Init, RingsInit, WorkerInit, ServerInit
  <1>1. RingProtocol /\ CheckStillHolds
    BY DEF RingProtocol, AtRest, CheckStillHolds
  <1>2. TableKeys = [b \in Tables |-> {}]
    BY EmptyMapType DEF TableKeys, Tables
  <1>3. WorkerAhead
    BY <1>2 DEF WorkerAhead, ListsAgreeWithWorker
  <1> QED BY <1>1, <1>3, InitTypeInv DEF SafeInv

\* A step at whose ends no handler waits, and which leaves rings, worker and
\* tables alone.
LEMMA QuietStep ==
  ASSUME SafeInv, OneThread, TypeInv', NEW t \in RpcThreads, pc[t] # "wait", pc'[t] # "wait",
         UNCHANGED <<ringVars, workerVars, viewlist, replicalist>>
  PROVE  SafeInv'
  <1>1. \A u \in RpcThreads : u = t
    BY DEF OneThread
  <1> USE DEF ringVars, workerVars
  <1>2. RingProtocol'
    BY <1>1 DEF SafeInv, RingProtocol, AtRest
  <1>3. CheckStillHolds'
    BY <1>1 DEF CheckStillHolds
  <1>4. TableKeys' = TableKeys
    BY DEF TableKeys
  <1>5. WorkerAhead'
    BY <1>1, <1>4 DEF SafeInv, WorkerAhead, ListsAgreeWithWorker
  <1> QED BY <1>2, <1>3, <1>5 DEF SafeInv

\* A step that leaves rings, worker and server alone and the requests of the
\* calls being handled.
LEMMA OutsideStep ==
  ASSUME SafeInv, TypeInv', UNCHANGED <<ringVars, workerVars, serverVars>>,
         \A t \in RpcThreads : InCall(t) => Req(t)' = Req(t)
  PROVE  SafeInv'
  <1> USE DEF ringVars, workerVars, serverVars
  <1>1. \A t \in RpcThreads : pc[t] = "wait" => Thrown(t)' = Thrown(t)
    BY ThrownKept DEF InCall
  <1>2. RingProtocol'
    BY <1>1 DEF SafeInv, RingProtocol, AtRest, AtRequestRing, AtWorker, AtReplyRing
  <1>3. CheckStillHolds'
    BY CheckKept DEF SafeInv, CheckStillHolds, InCall
  <1>4. TableKeys' = TableKeys
    BY DEF TableKeys
  <1>5. WorkerAhead'
    BY <1>1, <1>4 DEF SafeInv, WorkerAhead, ListsAgreeWithWorker, Accept, Accepted
  <1> QED BY <1>2, <1>3, <1>5 DEF SafeInv

LEMMA ThrowKeepsSafe ==
  ASSUME SafeInv, OneThread, EnqueuesSucceed, TypeInv',
         NEW t \in RpcThreads, ThrowStep(t), UNCHANGED workerVars
  PROVE  SafeInv'
  <1> PICK p \in Pending : Throw(t, Thrown(t), p)
    BY DEF ThrowStep
  <1>1. \A u \in RpcThreads : u = t
    BY DEF OneThread
  <1>2. /\ rte_ring_request' = [rte_ring_request EXCEPT ![t] = Append(@, Thrown(t))]
        /\ rte_ring_request \in [RpcThreads -> Seq(RequestMsg(RpcThreads))]
        /\ UNCHANGED <<rte_ring_reply, child_request, acknowledged>>
        /\ UNCHANGED <<viewlist, replicalist>> /\ Req(t)' = Req(t) /\ item'[t] = item[t]
        /\ pc[t] = "loop" /\ pc'[t] = "wait"
    BY DEF SafeInv, TypeInv, TypeOK, ServerTypeOK, RingsTypeOK, ThrowStep, Throw, ThrowRequest,
           EnqueuesSucceed, Req, workerVars, grpcVars
  <1>3. AtRest(t)
    BY <1>2 DEF SafeInv, RingProtocol
  <1>4. Thrown(t)' = Thrown(t)
    BY <1>2, ThrownKept
  <1>5. AtRequestRing(t)'
    <2>1. Thrown(t) \in RequestMsg(RpcThreads)
      BY ThrownType DEF SafeInv, TypeInv, ThrowStep, CheckHolds, InCall
    <2>2. rte_ring_request'[t] = <<Thrown(t)>>
      BY <1>2, <1>3, <2>1 DEF AtRest
    <2> QED BY <1>2, <1>3, <1>4, <2>2 DEF AtRequestRing, AtRest
  <1>6. RingProtocol'
    BY <1>1, <1>2, <1>5 DEF RingProtocol
  <1>7. CheckStillHolds'
    BY <1>1, <1>2, CheckKept DEF CheckStillHolds, ThrowStep
  <1>8. TableKeys' = TableKeys
    BY <1>2 DEF TableKeys
  <1>9. WorkerAhead'
    BY <1>2, <1>3, <1>8 DEF SafeInv, WorkerAhead, ListsAgreeWithWorker, AtRest
  <1> QED BY <1>6, <1>7, <1>9 DEF SafeInv

LEMMA TakeKeepsSafe ==
  ASSUME SafeInv, OneThread, TypeInv', NEW t \in RpcThreads, TakeStep(t), UNCHANGED workerVars
  PROVE  SafeInv'
  <1>1. \A u \in RpcThreads : u = t
    BY DEF OneThread
  <1>2. /\ rte_ring_reply # <<>> /\ rte_ring_reply' = Tail(rte_ring_reply)
        /\ UNCHANGED <<rte_ring_request, child_request, acknowledged>>
        /\ pc[t] = "wait" /\ pc'[t] = "loop"
    BY DEF SafeInv, TypeInv, TypeOK, ServerTypeOK, TakeStep, GotReply, TakeReply, workerVars
  <1>3. AtReplyRing(t)
    BY <1>2 DEF SafeInv, RingProtocol, AtRequestRing, AtWorker
  <1>4. AtRest(t)'
    BY <1>2, <1>3 DEF AtReplyRing, AtRest
  <1>5. acknowledged' = TableKeys'
    BY <1>2 DEF TakeStep, SafeInv, WorkerAhead
  <1>6. RingProtocol' /\ CheckStillHolds'
    BY <1>1, <1>2, <1>4 DEF RingProtocol, CheckStillHolds
  <1>7. WorkerAhead'
    BY <1>1, <1>2, <1>5 DEF WorkerAhead, ListsAgreeWithWorker
  <1> QED BY <1>6, <1>7 DEF SafeInv

LEMMA WorkerKeepsSafe ==
  ASSUME SafeInv, OneThread, EnqueuesSucceed, TypeInv', WorkerThread
  PROVE  SafeInv'
  <1>0. /\ UNCHANGED <<viewlist, replicalist, pc, item>>
        /\ \A t \in RpcThreads : Req(t)' = Req(t)
        /\ TableKeys' = TableKeys
    BY DEF WorkerThread, serverVars, grpcVars, Req, TableKeys
  <1>1. \A t \in RpcThreads : Thrown(t)' = Thrown(t)
    BY <1>0, ThrownKept
  <1>2. CheckStillHolds'
    BY <1>0, CheckKept DEF SafeInv, CheckStillHolds
  <1>3. ASSUME NEW t \in RpcThreads, ChildTake(t)
        PROVE  RingProtocol' /\ WorkerAhead'
    <2>1. \A u \in RpcThreads : u = t
      BY DEF OneThread
    <2>2. /\ rte_ring_request[t] # <<>> /\ child_request' = Head(rte_ring_request[t])
          /\ rte_ring_request' = [rte_ring_request EXCEPT ![t] = Tail(@)]
          /\ rte_ring_request \in [RpcThreads -> Seq(RequestMsg(RpcThreads))]
          /\ UNCHANGED <<rte_ring_reply, acknowledged>>
      BY <1>3 DEF ChildTake, TakeRequest, SafeInv, TypeInv, TypeOK, RingsTypeOK
    <2>3. pc[t] = "wait" /\ AtRequestRing(t)
      BY <2>2 DEF SafeInv, RingProtocol, AtRest, AtWorker, AtReplyRing
    <2>4. AtWorker(t)'
      BY <1>1, <2>2, <2>3 DEF AtRequestRing, AtWorker
    <2>5. RingProtocol'
      BY <1>0, <2>1, <2>3, <2>4 DEF RingProtocol
    <2>6. WorkerAhead'
      BY <1>0, <2>2, <2>3 DEF SafeInv, WorkerAhead, ListsAgreeWithWorker, AtRequestRing
    <2> QED BY <2>5, <2>6
  <1>4. ASSUME ChildReply
        PROVE  RingProtocol' /\ WorkerAhead'
    <2>1. child_request \in RequestMsg(RpcThreads)
      BY <1>4 DEF ChildReply, SafeInv, TypeInv, TypeOK, WorkerTypeOK
    <2>2. PICK t \in RpcThreads : child_request.from = t
      BY <2>1 DEF RequestMsg
    <2>3. \A u \in RpcThreads : u = t
      BY DEF OneThread
    <2>4. pc[t] = "wait" /\ AtWorker(t)
      BY <1>4 DEF ChildReply, SafeInv, RingProtocol, AtRest, AtRequestRing, AtReplyRing
    <2>5. PICK verdict \in Verdicts :
            /\ PutReply(ReplyTo(child_request, verdict))
            /\ acknowledged' = IF verdict THEN Accept(child_request, acknowledged)
                                          ELSE acknowledged
      BY <1>4 DEF ChildReply
    <2>6. rte_ring_reply' = <<ReplyTo(Thrown(t), verdict)>> /\ rte_ring_request' = rte_ring_request
      BY <2>4, <2>5 DEF PutReply, EnqueuesSucceed, AtWorker
    <2>7. child_request' = None
      BY <1>4 DEF ChildReply
    <2>8. ReplyTo(Thrown(t), verdict)' = ReplyTo(Thrown(t), verdict)
      BY <1>1 DEF ReplyTo
    <2>9. AtReplyRing(t)'
      BY <2>4, <2>6, <2>7, <2>8 DEF AtReplyRing, AtWorker
    <2>10. RingProtocol'
      BY <1>0, <2>3, <2>4, <2>9 DEF RingProtocol
    <2>11. Accepted' = verdict
      BY <2>6 DEF Accepted, ReplyTo
    <2>12. acknowledged' = IF Accepted' THEN Accept(Thrown(t), TableKeys) ELSE TableKeys
      BY <2>4, <2>5, <2>11 DEF AtWorker, SafeInv, WorkerAhead, ListsAgreeWithWorker
    <2>13. Accept(Thrown(t), TableKeys)' = Accept(Thrown(t), TableKeys)
      BY <1>0, <1>1 DEF Accept
    <2>14. WorkerAhead'
      BY <1>0, <2>3, <2>6, <2>12, <2>13 DEF WorkerAhead, ListsAgreeWithWorker
    <2> QED BY <2>10, <2>14
  <1> QED BY <1>2, <1>3, <1>4 DEF WorkerThread, child, SafeInv

LEMMA NextSafeInv == OneThread /\ EnqueuesSucceed /\ SafeInv /\ [Next]_vars => SafeInv'
  <1> SUFFICES ASSUME OneThread, EnqueuesSucceed, SafeInv, [Next]_vars PROVE SafeInv'
    OBVIOUS
  <1>0. TypeInv /\ TypeInv'
    BY NextTypeInv DEF SafeInv
  <1>1. ASSUME NEW t \in RpcThreads, HandleRpcs(t) PROVE SafeInv'
    <2>0. pc \in [RpcThreads -> {"boot", "next", "loop", "wait"}] /\ UNCHANGED workerVars
      BY <1>0, <1>1 DEF TypeInv, TypeOK, ServerTypeOK, HandleRpcs
    <2>1. CASE BootAcceptors(t)
      BY <1>0, <2>0, <2>1, QuietStep DEF BootAcceptors
    <2>2. CASE BeginCall(t)
      BY <1>0, <2>0, <2>2, QuietStep DEF BeginCall
    <2>3. CASE DeleteCallData(t)
      BY <1>0, <2>0, <2>3, QuietStep DEF DeleteCallData, serverVars
    <2>4. CASE Proceed(t)
      <3>1. CASE SkipStep(t)
        BY <1>0, <2>0, <3>1, QuietStep DEF SkipStep, Skip
      <3>2. CASE ThrowStep(t)
        BY <1>0, <2>0, <3>2, ThrowKeepsSafe
      <3>3. CASE TakeStep(t)
        BY <1>0, <2>0, <3>3, TakeKeepsSafe
      <3>4. CASE FinishStep(t)
        BY <1>0, <2>0, <3>4, QuietStep DEF FinishStep, Finish
      <3> QED BY <1>0, <2>4, <3>1, <3>2, <3>3, <3>4, ProceedSteps DEF HandlerStep
    <2> QED BY <1>1, <2>1, <2>2, <2>3, <2>4 DEF HandleRpcs
  <1>2. CASE WorkerThread
    BY <1>0, <1>2, WorkerKeepsSafe
  <1>3. ASSUME NEW c \in Clients, Controller(c) \/ Transport(c) PROVE SafeInv'
    <2>1. UNCHANGED <<ringVars, workerVars, serverVars>>
      BY <1>3 DEF Controller, Transport
    <2>2. call[c].st # "running" /\ \A b \in Clients \ {c} : call'[b] = call[b]
      BY <1>0, <1>3 DEF Controller, Transport, CallRpc, ReturnRpc, GrpcMatch, TypeInv, TypeOK,
                        GrpcTypeOK
    <2>3. \A t \in RpcThreads : InCall(t) => Req(t)' = Req(t)
      BY <1>0, <2>1, <2>2 DEF TypeInv, TypeOK, ServerTypeOK, OneHandlerPerCall, HandlersRun,
                              InCall, Req, serverVars
    <2> QED BY <1>0, <2>1, <2>3, OutsideStep
  <1>4. CASE UNCHANGED vars
    <2>1. \A t \in RpcThreads : Req(t)' = Req(t)
      BY <1>4 DEF vars, grpcVars, serverVars, Req
    <2> QED BY <1>0, <1>4, <2>1, OutsideStep DEF vars
  <1> QED BY <1>1, <1>2, <1>3, <1>4 DEF Next

LEMMA SafeInvHolds == ASSUME OneThread, EnqueuesSucceed PROVE Spec => []SafeInv
  BY InitSafeInv, NextSafeInv, PTL DEF Spec

(* With one thread a message and its reply are in one place at a time, and *)
(* the reply a handler takes is the reply to the message it has just       *)
(* thrown, although no handler looks at the tag or the id of a reply.      *)
THEOREM RingsInLockStep == ASSUME OneThread, EnqueuesSucceed PROVE Spec => []RingProtocol
  BY SafeInvHolds, PTL DEF SafeInv

(* With one thread what a handler checked before it waited still holds     *)
(* when it applies the reply: no invalid iterator or end() is erased.      *)
THEOREM ChecksHold == ASSUME OneThread, EnqueuesSucceed PROVE Spec => []CheckStillHolds
  BY SafeInvHolds, PTL DEF SafeInv

(* With one thread the tables of the RPC thread and what the worker has    *)
(* accepted are the same whenever no reply is under way.                   *)
THEOREM TablesAgree == ASSUME OneThread, EnqueuesSucceed PROVE Spec => []ListsAgreeWithWorker
  BY SafeInvHolds, PTL DEF SafeInv, WorkerAhead

----------------------------------------------------------------------------
(* The replica list. *)

\* No id is changed by the truncation to int.
NarrowIds == WorkerIds \subseteq Key

LEMMA TakeKeepsReplicas ==
  ASSUME NarrowIds, SafeInv, NoSelfReplica, NEW t \in RpcThreads, TakeStep(t)
  PROVE  NoSelfReplica'
  <1>1. InCall(t) /\ CheckHolds(t) /\ TypeOK
    BY DEF TakeStep, SafeInv, TypeInv, CheckStillHolds, InCall
  <1>2. Thrown(t).action = Req(t).method /\ ToInt(Thrown(t).worker_id) = ItemKey(t)
    BY <1>1, ThrownType DEF CheckHolds
  <1>3. Req(t).method = "AddReplicas" => ItemKey(t) # MyId
    <2>1. TheItem(t).view.worker_id \in Key
      BY <1>1, ItemType DEF CheckHolds, View, NarrowIds
    <2>2. ItemKey(t) = TheItem(t).view.worker_id
      BY <2>1, ToIntTwice DEF ItemKey
    <2> QED BY <1>1, <2>2 DEF CheckHolds
  <1>4. MyId \notin TableKeys["replica"]
    BY DEF NoSelfReplica, TableKeys, Tables, Dirs
  <1>5. MyId \notin Accept(Thrown(t), TableKeys)["replica"]
    BY <1>2, <1>3, <1>4, MethodNames DEF Accept, Tables, Dirs
  <1>6. MyId \notin TableKeys'["replica"]
    BY <1>4, <1>5 DEF TakeStep
  <1> QED BY <1>6 DEF NoSelfReplica, TableKeys, Tables, Dirs

(* When every id of a request fits into an int, no runtime becomes its own *)
(* replica, although the test and the table look at the id in two ways.    *)
THEOREM NeverOwnReplica ==
  ASSUME OneThread, EnqueuesSucceed, NarrowIds
  PROVE  Spec => []NoSelfReplica
  <1>1. Init => NoSelfReplica
    BY EmptyMapType DEF Init, ServerInit, NoSelfReplica
  <1>2. ASSUME SafeInv, NoSelfReplica, [Next]_vars PROVE NoSelfReplica'
    <2>1. CASE UNCHANGED replicalist
      BY <1>2, <2>1 DEF NoSelfReplica
    <2>2. CASE \E t \in RpcThreads : TakeStep(t)
      BY <1>2, <2>2, TakeKeepsReplicas
    <2>3. ASSUME NEW t \in RpcThreads, HandleRpcs(t)
          PROVE  UNCHANGED replicalist \/ TakeStep(t)
      <3>1. CASE BootAcceptors(t) \/ BeginCall(t) \/ DeleteCallData(t)
        BY <3>1 DEF BootAcceptors, BeginCall, DeleteCallData, serverVars
      <3>2. CASE Proceed(t)
        BY <1>2, <3>2, ProceedSteps
           DEF SafeInv, HandlerStep, SkipStep, Skip, ThrowStep, Throw, FinishStep, Finish
      <3> QED BY <2>3, <3>1, <3>2 DEF HandleRpcs
    <2>4. UNCHANGED replicalist \/ \E t \in RpcThreads : HandleRpcs(t)
      BY <1>2 DEF Next, WorkerThread, Controller, Transport, vars, serverVars
    <2> QED BY <2>1, <2>2, <2>3, <2>4
  <1> QED BY <1>1, <1>2, SafeInvHolds, PTL DEF Spec

----------------------------------------------------------------------------
(* What a target or a replica is compared with. *)

\* No list of views in a request names one key twice.
Distinct(ids) == \A i, j \in DOMAIN ids : ToInt(ids[i]) = ToInt(ids[j]) => i = j

DistinctLists ==
  \A r \in Requests : \A i \in DOMAIN r.items :
    Distinct(r.items[i].inputs) /\ Distinct(r.items[i].outputs)

\* What a call asks for is one of the requests.
AskedFor == \A c \in Clients : call[c].req \in Requests \cup {NoRequest}

\* As many distinct ids as a table has keys, all of them in the table, are
\* all of the table: the pigeonhole principle.
LEMMA SameSize ==
  ASSUME NEW ids \in Seq(WorkerIds), Distinct(ids), NEW D \in SUBSET Key,
         Len(ids) = Cardinality(D), Keys(ids) \subseteq D
  PROVE  Keys(ids) = D
  <1> DEFINE S == 1 .. Len(ids)
             f == [i \in S |-> ToInt(ids[i])]
  <1>1. IsFiniteSet(Key) /\ IsFiniteSet(D)
    <2>1. IsFiniteSet(Key)
      BY FS_Interval, ConstantsAssumption DEF Key
    <2> QED BY <2>1, FS_Subset
  <1>2. IsFiniteSet(S) /\ Cardinality(S) = Len(ids)
    BY FS_Interval
  <1>3. \A i \in S : f[i] \in Keys(ids)
    BY DEF Keys
  <1>4. f \in Injection(S, D)
    BY <1>3 DEF Injection, IsInjective, Distinct
  <1>5. f \in Surjection(S, D)
    BY <1>1, <1>2, <1>4, FS_Injection
  <1>6. D \subseteq Keys(ids)
    BY <1>3, <1>5 DEF Surjection
  <1> QED BY <1>6

LEMMA AskedForHolds == Spec => []AskedFor
  <1>1. Init => AskedFor
    BY DEF Init, GrpcInit, NoCall, AskedFor
  <1>2. ASSUME TypeInv, AskedFor, [Next]_vars PROVE AskedFor'
    <2>0. call \in [Clients -> Call]
      BY <1>2 DEF TypeInv, TypeOK, GrpcTypeOK
    <2>1. ASSUME NEW c \in Clients, Controller(c) \/ Transport(c) PROVE AskedFor'
      <3>1. CASE ReturnRpc(c)
        BY <1>2, <2>0, <3>1 DEF ReturnRpc, NoCall, AskedFor
      <3>2. CASE \E r \in Requests : CallRpc(c, r)
        BY <1>2, <2>0, <3>2 DEF CallRpc, AskedFor
      <3>3. ASSUME GrpcMatch(c) PROVE AskedFor'
        <4>1. call' = [call EXCEPT ![c].st = "queued"]
          BY <3>3 DEF GrpcMatch
        <4>2. \A b \in Clients : call'[b].req = call[b].req
          BY <2>0, <4>1 DEF Call
        <4> QED BY <1>2, <4>2 DEF AskedFor
      <3> QED BY <2>1, <3>1, <3>2, <3>3 DEF Controller, Transport
    <2>2. ASSUME NEW t \in RpcThreads, HandleRpcs(t) PROVE AskedFor'
      <3>1. CASE BootAcceptors(t) \/ DeleteCallData(t)
        BY <1>2, <3>1 DEF BootAcceptors, DeleteCallData, AskedFor
      <3>2. CASE BeginCall(t)
        BY <1>2, <2>0, <3>2 DEF BeginCall, AskedFor
      <3>3. CASE Proceed(t)
        <4>1. HandlerStep(t)
          BY <1>2, <3>3, ProceedSteps
        <4>2. UNCHANGED call \/ FinishStep(t)
          BY <4>1 DEF HandlerStep, SkipStep, Skip, ThrowStep, Throw, TakeStep, GotReply, grpcVars
        <4>3. ASSUME FinishStep(t) PROVE AskedFor'
          <5>1. PICK a \in Answer : Finish(t, a)
            BY <4>3 DEF FinishStep
          <5>2. call' = [call EXCEPT ![cur[t]].st = "answered", ![cur[t]].answer = a]
            BY <5>1 DEF Finish
          <5>3. \A c \in Clients : call'[c].req = call[c].req
            BY <2>0, <5>2 DEF Call
          <5> QED BY <1>2, <5>3 DEF AskedFor
        <4> QED BY <1>2, <4>2, <4>3 DEF AskedFor
      <3> QED BY <2>2, <3>1, <3>2, <3>3 DEF HandleRpcs
    <2>3. CASE UNCHANGED call
      BY <1>2, <2>3 DEF AskedFor
    <2> QED BY <1>2, <2>1, <2>2, <2>3 DEF Next, WorkerThread, vars, grpcVars
  <1> QED BY <1>1, <1>2, TypeInvHolds, PTL DEF Spec

LEMMA ComparedWhole ==
  ASSUME OneThread, DistinctLists, SafeInv, AskedFor
  PROVE  NegotiatedOnOwnLists
  <1> SUFFICES ASSUME NEW m \in InFlight, m.action \in {"SetMigrationTarget", "AddReplicas"}
               PROVE  m.inputs = DOMAIN viewlist["input"] /\ m.outputs = DOMAIN viewlist["output"]
    BY DEF NegotiatedOnOwnLists
  <1>1. PICK t \in RpcThreads : pc[t] = "wait" /\ m = Thrown(t)
    <2>1. CASE m = child_request /\ m # None
      BY <2>1 DEF SafeInv, RingProtocol, TypeInv, TypeOK, WorkerTypeOK, RequestMsg,
                  AtRest, AtRequestRing, AtWorker, AtReplyRing
    <2>2. ASSUME NEW t \in RpcThreads, m \in Sent(t)
          PROVE  pc[t] = "wait" /\ m = Thrown(t)
      BY <2>2 DEF Sent, SafeInv, RingProtocol, AtRest, AtRequestRing, AtWorker, AtReplyRing
    <2> QED BY <2>1, <2>2 DEF InFlight
  <1>2. CheckHolds(t) /\ MoreItems(t) /\ InCall(t) /\ TypeOK
    BY <1>1 DEF SafeInv, TypeInv, CheckStillHolds, CheckHolds, InCall
  <1>3. Req(t).method \in {"SetMigrationTarget", "AddReplicas"}
    BY <1>1, <1>2, ThrownType
  <1>4. m.inputs = Keys(TheItem(t).inputs) /\ m.outputs = Keys(TheItem(t).outputs)
    BY <1>1, <1>3 DEF Thrown, ListsMsg, QueryMethods
  <1>5. ListsObjection(TheItem(t)) = ""
    BY <1>2, <1>3 DEF CheckHolds
  <1>6. /\ Len(TheItem(t).inputs) = Cardinality(DOMAIN viewlist["input"])
        /\ Len(TheItem(t).outputs) = Cardinality(DOMAIN viewlist["output"])
        /\ Keys(TheItem(t).inputs) \subseteq DOMAIN viewlist["input"]
        /\ Keys(TheItem(t).outputs) \subseteq DOMAIN viewlist["output"]
    BY <1>5 DEF ListsObjection
  <1>7. Distinct(TheItem(t).inputs) /\ Distinct(TheItem(t).outputs)
    <2>1. Req(t) \in Request /\ item[t] \in Nat \ {0} /\ cur[t] \in Clients
      BY <1>2, ReqType DEF TypeOK, ServerTypeOK
    <2>2. item[t] \in DOMAIN Req(t).items
      BY <1>2, <2>1 DEF MoreItems, Request
    <2>3. Req(t) \in Requests
      BY <2>1, <2>2 DEF AskedFor, NoRequest, Req
    <2> QED BY <2>2, <2>3 DEF DistinctLists, TheItem
  <1>8. TheItem(t).inputs \in Seq(WorkerIds) /\ TheItem(t).outputs \in Seq(WorkerIds)
    BY <1>2, ItemType DEF Item
  <1>9. DOMAIN viewlist["input"] \in SUBSET Key /\ DOMAIN viewlist["output"] \in SUBSET Key
    BY <1>2 DEF TypeOK, ServerTypeOK, IsViewMap, Dirs
  <1> QED BY <1>4, <1>6, <1>7, <1>8, <1>9, SameSize

(* When no list names a view twice, the comparison of the sizes and of the *)
(* received ids is a comparison of the lists: the worker is given exactly  *)
(* the keys of the two view lists, and they stay so until it has replied.  *)
THEOREM ComparedWithOwnLists ==
  ASSUME OneThread, EnqueuesSucceed, DistinctLists
  PROVE  Spec => []NegotiatedOnOwnLists
  BY ComparedWhole, SafeInvHolds, AskedForHolds, PTL
=============================================================================
