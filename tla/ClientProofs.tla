---------------------------- MODULE ClientProofs ----------------------------
(***************************************************************************)
(* What the runtime's clients meet, and what they do to it.                *)
(* Clients that go away: as long as the process runs it takes the steps of *)
(* NfaRuntime, and with one thread no call is being handled when the       *)
(* assertion on ok is evaluated; afterwards only the clients take steps.   *)
(* The test client: to its clients the runtime is a ControlPlane, so what  *)
(* the script is answered is proved from the steps of the control plane    *)
(* and the position in the script.                                         *)
(***************************************************************************)
EXTENDS ClientLoss, MainScript, NfaCallProofs

----------------------------------------------------------------------------
(* Clients that go away. *)

\* A call that runs is in the hands of a handler.
RunningHandled ==
  \A c \in Clients : call[c].st = "running" => \E t \in RpcThreads : InCall(t) /\ cur[t] = c

\* A step in which the call of one client changes, and no handler.
LEMMA OutsideKeepsHandled ==
  ASSUME RunningHandled, UNCHANGED <<pc, cur>>, NEW c \in Clients,
         \A b \in Clients \ {c} : call'[b] = call[b], call'[c].st # "running"
  PROVE  RunningHandled'
  BY DEF RunningHandled, InCall

LEMMA NextHandled == TypeInv /\ RunningHandled /\ [Next]_vars => RunningHandled'
  <1> SUFFICES ASSUME TypeInv, RunningHandled, [Next]_vars PROVE RunningHandled'
    OBVIOUS
  <1>0. /\ call \in [Clients -> Call] /\ pc \in [RpcThreads -> {"boot", "next", "loop", "wait"}]
        /\ cur \in [RpcThreads -> Clients \cup {None}]
    BY DEF TypeInv, TypeOK, GrpcTypeOK, ServerTypeOK
  <1>1. ASSUME NEW t \in RpcThreads, HandleRpcs(t) PROVE RunningHandled'
    <2>1. CASE BootAcceptors(t)
      BY <1>0, <2>1 DEF BootAcceptors, RunningHandled, InCall
    <2>2. CASE BeginCall(t)
      <3>1. PICK e \in Event : /\ e = Head(cq)
                               /\ call' = [call EXCEPT ![e.client].st = "running"]
                               /\ cur' = [cur EXCEPT ![t] = e.client]
        BY <2>2, PopEvent DEF BeginCall, TypeInv
      <3>2. e.client \in Clients /\ pc[t] = "next" /\ pc' = [pc EXCEPT ![t] = "loop"]
        BY <2>2 DEF BeginCall, Event
      <3>3. InCall(t)' /\ cur'[t] = e.client
        BY <1>0, <3>1, <3>2 DEF InCall
      <3>4. \A c \in Clients \ {e.client} : call'[c] = call[c]
        BY <1>0, <3>1, <3>2
      <3>5. \A u \in RpcThreads : InCall(u) => InCall(u)' /\ cur'[u] = cur[u]
        BY <1>0, <3>1, <3>2 DEF InCall
      <3> QED BY <3>2, <3>3, <3>4, <3>5 DEF RunningHandled
    <2>3. CASE DeleteCallData(t)
      BY <2>3 DEF DeleteCallData, serverVars, RunningHandled, InCall
    <2>4. CASE SkipStep(t) \/ ThrowStep(t) \/ TakeStep(t)
      <3>1. UNCHANGED <<call, cur>> /\ InCall(t) /\ InCall(t)'
        BY <1>0, <2>4 DEF SkipStep, Skip, ThrowStep, Throw, TakeStep, GotReply, InCall, grpcVars
      <3>2. \A u \in RpcThreads \ {t} : pc'[u] = pc[u]
        BY <1>0, <2>4 DEF SkipStep, Skip, ThrowStep, Throw, TakeStep, GotReply
      <3> QED BY <3>1, <3>2 DEF RunningHandled, InCall
    <2>5. CASE FinishStep(t)
      <3>1. PICK a \in Answer : Finish(t, a)
        BY <2>5 DEF FinishStep
      <3>2. InCall(t) /\ cur[t] \in Clients
        BY <2>5 DEF FinishStep, InCall, TypeInv, TypeOK, ServerTypeOK
      <3>3. call'[cur[t]].st = "answered" /\ \A b \in Clients \ {cur[t]} : call'[b] = call[b]
        BY <1>0, <3>1, <3>2, CallAnswered DEF Finish
      <3>4. \A u \in RpcThreads \ {t} : pc'[u] = pc[u] /\ cur'[u] = cur[u]
        BY <1>0, <3>1 DEF Finish
      <3> QED BY <3>2, <3>3, <3>4 DEF RunningHandled, InCall
    <2> QED BY <1>1, <2>1, <2>2, <2>3, <2>4, <2>5, ProceedSteps DEF HandleRpcs, HandlerStep
  <1>2. CASE WorkerThread
    BY <1>2 DEF WorkerThread, grpcVars, serverVars, RunningHandled, InCall
  <1>3. ASSUME NEW c \in Clients, Controller(c) \/ Transport(c) PROVE RunningHandled'
    <2>1. UNCHANGED <<pc, cur>>
      BY <1>3 DEF Controller, Transport, serverVars
    <2>2. call'[c].st # "running" /\ \A b \in Clients \ {c} : call'[b] = call[b]
      BY <1>0, <1>3 DEF Controller, Transport, CallRpc, ReturnRpc, GrpcMatch, NoCall, Call
    <2> QED BY <2>1, <2>2, OutsideKeepsHandled
  <1>4. CASE UNCHANGED vars
    BY <1>4 DEF vars, grpcVars, serverVars, RunningHandled, InCall
  <1> QED BY <1>1, <1>2, <1>3, <1>4 DEF Next

----------------------------------------------------------------------------
(* The process, and its end. *)

\* No call is in the middle of its handler when the process has ended.
EndsBetweenCalls == aborted => \A c \in Clients : call[c].st # "running"

LossInv == /\ ~ aborted => TypeInv /\ RunningHandled
           /\ EndsBetweenCalls
           /\ DOMAIN call = Clients
           /\ aborted \in BOOLEAN

LEMMA InitLossInv == LossInit => LossInv
  <1> SUFFICES ASSUME LossInit PROVE LossInv
    OBVIOUS
  <1>1. Init /\ aborted = FALSE
    BY DEF LossInit
  <1>2. RunningHandled
    BY <1>1 DEF Init, GrpcInit, RunningHandled, NoCall
  <1> QED BY <1>1, <1>2, InitTypeInv DEF LossInv, EndsBetweenCalls, Init, GrpcInit

\* A step of NfaRuntime, and the process goes on.
LEMMA RunningStep ==
  ASSUME LossInv, ~ aborted, [Next]_vars, aborted' = aborted
  PROVE  LossInv'
  <1>1. TypeInv' /\ RunningHandled'
    BY NextTypeInv, NextHandled DEF LossInv
  <1> QED BY <1>1 DEF LossInv, EndsBetweenCalls, TypeInv, TypeOK, GrpcTypeOK

\* A step after the end: a client fails, returns or asks.
LEMMA StepAfterEnd ==
  ASSUME LossInv, aborted, aborted' = aborted, DOMAIN call' = Clients,
         \A c \in Clients : call'[c].st = "running" => call[c].st = "running"
  PROVE  LossInv'
  BY DEF LossInv, EndsBetweenCalls

LEMMA AbortIsBetweenCalls ==
  ASSUME OneThread, LossInv, NEW t \in RpcThreads, Abort(t)
  PROVE  LossInv'
  <1>1. /\ RunningHandled /\ pc[t] = "next" /\ aborted' = TRUE /\ UNCHANGED call
    BY DEF Abort, LossInv, vars, grpcVars
  <1>2. \A u \in RpcThreads : ~ InCall(u)
    BY <1>1 DEF OneThread, InCall
  <1> QED BY <1>1, <1>2 DEF LossInv, EndsBetweenCalls, RunningHandled

LEMMA NextLossInv ==
  ASSUME OneThread, LossInv, [LossNext]_<<vars, lossVars>>
  PROVE  LossInv'
  <1>0. DOMAIN call = Clients
    BY DEF LossInv
  <1>1. ASSUME NEW t \in RpcThreads, Serve(t) PROVE LossInv'
    BY <1>1, RunningStep DEF Serve, Next
  <1>2. ASSUME NEW t \in RpcThreads, Abort(t) PROVE LossInv'
    BY <1>2, AbortIsBetweenCalls
  <1>3. CASE Work
    BY <1>3, RunningStep DEF Work, Next, lossVars
  <1>4. ASSUME UNCHANGED vars, aborted' = aborted PROVE LossInv'
    <2>1. CASE aborted
      BY <1>0, <1>4, <2>1, StepAfterEnd DEF vars, grpcVars
    <2>2. CASE ~ aborted
      BY <1>4, <2>2, RunningStep
    <2> QED BY <2>1, <2>2
  <1>5. ASSUME NEW c \in Clients, aborted' = aborted,
               ReturnRpc(c) \/ \E r \in Requests : CallRpc(c, r),
               UNCHANGED <<ringVars, workerVars, serverVars>>
        PROVE  LossInv'
    <2>1. CASE aborted
      <3>1. call'[c].st # "running" /\ \A b \in Clients \ {c} : call'[b] = call[b]
        <4>1. CASE ReturnRpc(c)
          BY <1>0, <4>1 DEF ReturnRpc, NoCall
        <4>2. ASSUME NEW r \in Requests, CallRpc(c, r)
              PROVE  call'[c].st # "running" /\ \A b \in Clients \ {c} : call'[b] = call[b]
          BY <1>0, <4>2 DEF CallRpc
        <4> QED BY <1>5, <4>1, <4>2
      <3>2. \A b \in Clients : call'[b].st = "running" => call[b].st = "running"
        BY <3>1
      <3>3. DOMAIN call' = Clients
        BY <1>0, <1>5 DEF ReturnRpc, CallRpc
      <3> QED BY <1>5, <2>1, <3>2, <3>3, StepAfterEnd
    <2>2. CASE ~ aborted
      BY <1>5, <2>2, RunningStep DEF Next, Controller
    <2> QED BY <2>1, <2>2
  <1>6. ASSUME NEW c \in Clients, FailRpc(c) PROVE LossInv'
    <2>1. /\ DOMAIN call' = Clients
          /\ \A b \in Clients : call'[b].st = "running" => call[b].st = "running"
      BY <1>0, <1>6 DEF FailRpc, NoCall
    <2> QED BY <1>6, <2>1, StepAfterEnd DEF FailRpc, lossVars
  <1>7. ASSUME NEW c \in Clients, Deliver(c) PROVE LossInv'
    BY <1>7, RunningStep DEF Deliver, Next
  <1>8. ASSUME NEW c \in Clients, GoAway(c) \/ Stay(c) \/ Ask(c) PROVE LossInv'
    BY <1>4, <1>5, <1>6, <1>8 DEF GoAway, Stay, Ask, lossVars
  <1> QED BY <1>1, <1>2, <1>3, <1>4, <1>7, <1>8 DEF LossNext, lossVars

\* The end of a call is its answer, as long as the process runs.
LEMMA RunningKept ==
  ASSUME TypeInv, [Next]_vars, NEW c \in Clients, call[c].st = "running"
  PROVE  call'[c].st \in {"running", "answered"}
  <1>0. call \in [Clients -> Call]
    BY DEF TypeInv, TypeOK, GrpcTypeOK
  <1>1. ASSUME NEW t \in RpcThreads, BeginCall(t) PROVE call'[c].st = "running"
    <2>1. PICK e \in Event : call' = [call EXCEPT ![e.client].st = "running"]
      BY <1>1, PopEvent DEF BeginCall, TypeInv
    <2> QED BY <1>0, <2>1 DEF Event, Call
  <1>2. ASSUME NEW t \in RpcThreads, FinishStep(t) PROVE call'[c].st \in {"running", "answered"}
    <2>1. PICK a \in Answer : Finish(t, a)
      BY <1>2 DEF FinishStep
    <2>2. cur[t] \in Clients
      BY <1>2 DEF FinishStep, TypeInv, TypeOK, ServerTypeOK
    <2>3. call'[cur[t]].st = "answered" /\ \A b \in Clients \ {cur[t]} : call'[b] = call[b]
      BY <1>0, <2>1, <2>2, CallAnswered DEF Finish
    <2> QED BY <2>3
  <1>3. ASSUME NEW b \in Clients, Controller(b) \/ Transport(b) PROVE call'[c] = call[c]
    BY <1>0, <1>3 DEF Controller, Transport, CallRpc, ReturnRpc, GrpcMatch
  <1>4. \/ UNCHANGED call
        \/ \E b \in Clients : Controller(b) \/ Transport(b)
        \/ \E t \in RpcThreads : BeginCall(t) \/ FinishStep(t)
    <2>1. ASSUME NEW t \in RpcThreads, Proceed(t) PROVE UNCHANGED call \/ FinishStep(t)
      BY <2>1, ProceedSteps DEF HandlerStep, SkipStep, Skip, ThrowStep, Throw, TakeStep,
                                GotReply, grpcVars
    <2> QED BY <2>1 DEF Next, HandleRpcs, BootAcceptors, DeleteCallData, WorkerThread, vars,
                        grpcVars
  <1> QED BY <1>1, <1>2, <1>3, <1>4

(* A call a handler has begun stays its handler's until it is answered:    *)
(* it does not fail for its client, is not dropped and not begun anew,     *)
(* whoever goes away and whether or not the process ends.                  *)
NotCutOff ==
  [][\A c \in Clients :
       call[c].st = "running" => call'[c].st \in {"running", "answered"}]_<<vars, lossVars>>

(* With one thread the assertion on ok, which ends the process when an     *)
(* answer could not be sent, never cuts off another call, for it is        *)
(* evaluated between two calls.                                            *)
THEOREM ProcessEndsBetweenCalls == ASSUME OneThread PROVE LossSpec => NotCutOff
  <1>1. LossInv /\ [LossNext]_<<vars, lossVars>> => LossInv'
    BY NextLossInv
  <1>2. LossInv /\ [LossNext]_<<vars, lossVars>> =>
          [\A c \in Clients :
             call[c].st = "running" => call'[c].st \in {"running", "answered"}]_<<vars, lossVars>>
    <2> SUFFICES ASSUME LossInv, LossNext, NEW c \in Clients, call[c].st = "running"
                 PROVE  call'[c].st \in {"running", "answered"}
      OBVIOUS
    <2>1. ~ aborted /\ TypeInv
      BY DEF LossInv, EndsBetweenCalls
    <2>2. [Next]_vars
      BY <2>1 DEF LossNext, Serve, Abort, Work, GoAway, Stay, Ask, Deliver, FailRpc, Next,
                        Controller, vars
    <2> QED BY <2>1, <2>2, RunningKept
  <1> QED BY <1>1, <1>2, InitLossInv, PTL DEF LossSpec, NotCutOff

----------------------------------------------------------------------------
(* The test client. *)

\* The other clients leave the tables alone: they do not touch the view
\* lists, and name no replica but this runtime, which every handler refuses.
QuietOthers ==
  \A r \in OtherRequests :
    /\ r.method \notin ViewMethods
    /\ r.method \in ReplicaMethods =>
         \A i \in DOMAIN r.items : ToInt(r.items[i].view.worker_id) = MyId

Served == cur[Server] = Tester

Answered == ShownCall[Tester].st = "answered"

\* The first call of the script that has not been carried out to its end.
Position ==
  IF Answered \/ (Served /\ ItemDecided > Len(Script[line].items)) THEN line + 1 ELSE line

\* The replica list between the calls before l and l.
ReplicasBefore(l) == IF l \in {6, 7, 10} THEN {3} ELSE {}

\* Who is served, and what has been asked.
CallsOK ==
  /\ cur[Server] \in Clients \cup {None}
  /\ cur[Server] \in Clients => ShownCall[cur[Server]].st = "asked"
  /\ cur[Server] = None => ItemDecided = 1 /\ ~ Succeeded
  /\ ItemDecided \in Nat \ {0}
  /\ \A c \in Clients \ {Tester} : ShownCall[c].st # "idle" => ShownCall[c].req \in OtherRequests
  /\ ShownCall[Tester].st # "idle" => line \in 1 .. 14 /\ ShownCall[Tester].req = Script[line]

\* The tables follow from the position in the script.  The view lists may
\* hold the script's views already, from the time before.
HeldOK ==
  /\ acknowledged["replica"] = ReplicasBefore(Position)
  /\ acknowledged["input"] \subseteq {2, 3}
  /\ Position > 2 => acknowledged["input"] = {2, 3}
  /\ acknowledged["output"] \subseteq {3, 5}
  /\ Position > 3 => acknowledged["output"] = {3, 5}
  /\ Served => \A i \in {1, 2} : i < ItemDecided =>
       /\ line = 2 => InputViews[i] \in acknowledged["input"]
       /\ line = 3 => OutputViews[i] \in acknowledged["output"]

\* What the answer to the script's call will say, and what it says.
SucceededOK ==
  /\ Served /\ line > 3 => (Succeeded <=> ItemDecided > 1 /\ Expected[line])
  /\ Answered /\ line \notin {2, 3} => (ShownCall[Tester].answer.succeed <=> Expected[line])

ResultsOK ==
  /\ line \in 1 .. 15
  /\ results \in Seq(BOOLEAN) /\ Len(results) = line - 1
  /\ ExpectedResults

ScriptInv == CallsOK /\ HeldOK /\ SucceededOK /\ ResultsOK

\* The script, call by call.
LEMMA TheScript ==
  /\ DOMAIN Script = 1 .. 14 /\ Len(Script) = 14
  /\ Script[1] = NoRequest
  /\ Script[2] = ViewList("AddInputView", InputViews)
  /\ Script[3] = ViewList("AddOutputView", OutputViews)
  /\ Script[4] = WithLists("SetMigrationTarget", 1)
  /\ \A l \in {5, 6, 9} : Script[l] = WithLists("AddReplicas", 3)
  /\ \A l \in {7, 8} : Script[l] = WithLists("DeleteReplicas", 3)
  /\ Script[10] = ById("Recover", 3)
  /\ Script[11] = ById("QueryRuntimeInfo", 1) /\ Script[12] = ById("QueryRuntimeInfo", 2)
  /\ Script[13] = ById("QueryRuntimeStat", 1) /\ Script[14] = ById("QueryRuntimeStat", 2)
  BY DEF Script

LEMMA TheResults ==
  \A l \in 1 .. 14 : Expected[l] \in BOOLEAN /\ (Expected[l] <=> l \notin {6, 8, 12, 14})
  <1> DEFINE T == TRUE
             F == FALSE
  <1>1. Expected = <<T, T, T, T, T, F, T, F, T, T, T, F, T, F>>
    BY Zenon DEF Expected
  <1> HIDE DEF T, F
  <1>2. \A l \in 1 .. 14 : Expected[l] = IF l \in {6, 8, 12, 14} THEN F ELSE T
    BY <1>1
  <1>3. (\A l \in 1 .. 14 : l \in {6, 8, 12, 14} => Expected[l] = FALSE)
          /\ \A l \in 1 .. 14 : l \notin {6, 8, 12, 14} => Expected[l] = TRUE
    BY <1>2, Zenon DEF T, F
  <1> QED BY <1>3

LEMMA ListCalls ==
  ASSUME NEW method, NEW id
  PROVE  LET r == WithLists(method, id) IN
         /\ r.method = method /\ DOMAIN r.items = {1} /\ Len(r.items) = 1
         /\ r.items[1].view.worker_id = id
         /\ r.items[1].inputs = InputViews /\ r.items[1].outputs = OutputViews
  BY DEF WithLists, View_

LEMMA IdCalls ==
  ASSUME NEW method, NEW id
  PROVE  LET r == ById(method, id) IN
         /\ r.method = method /\ DOMAIN r.items = {1} /\ Len(r.items) = 1
         /\ r.items[1].view.worker_id = id
  BY DEF ById, Plain, View_

LEMMA ViewCalls ==
  ASSUME NEW method
  PROVE  /\ InputViews[1] = 2 /\ InputViews[2] = 3 /\ OutputViews[1] = 5 /\ OutputViews[2] = 3
         /\ \A ids \in {InputViews, OutputViews} :
              LET r == ViewList(method, ids) IN
              /\ r.method = method /\ DOMAIN r.items = {1, 2} /\ Len(r.items) = 2
              /\ \A i \in {1, 2} : r.items[i].view.worker_id = ids[i]
  BY DEF ViewList, InputViews, OutputViews, Plain, View_

\* How many items the calls have.
LEMMA ItemCounts ==
  \A l \in 1 .. 14 :
    Len(Script[l].items) = IF l = 1 THEN 0 ELSE IF l \in {2, 3} THEN 2 ELSE 1
  <1>1. Len(Script[1].items) = 0
    BY TheScript DEF NoRequest
  <1>2. \A l \in {2, 3} : Len(Script[l].items) = 2
    BY TheScript, ViewCalls
  <1>3. \A l \in 4 .. 9 : Len(Script[l].items) = 1
    BY TheScript, ListCalls
  <1>4. \A l \in 10 .. 14 : Len(Script[l].items) = 1
    BY TheScript, IdCalls
  <1> TAKE l \in 1 .. 14
  <1>5. l = 1 \/ l \in {2, 3} \/ l \in 4 .. 9 \/ l \in 10 .. 14
    OBVIOUS
  <1> QED BY <1>1, <1>2, <1>3, <1>4, <1>5

\* Which calls are with views, and which the liveness check.
LEMMA ScriptMethods ==
  \A l \in 1 .. 14 : /\ Script[l].method \in ViewMethods <=> l \in {2, 3}
                     /\ Script[l].method = "LivenessCheck" <=> l = 1
  <1>1. /\ \A l \in {2, 3} : Script[l].method \in {"AddInputView", "AddOutputView"}
        /\ Script[1].method = "LivenessCheck"
    BY TheScript, ViewCalls DEF NoRequest
  <1>2. \A l \in 4 .. 9 :
          Script[l].method \in {"SetMigrationTarget", "AddReplicas", "DeleteReplicas"}
    BY TheScript, ListCalls
  <1>3. \A l \in 10 .. 14 :
          Script[l].method \in {"Recover", "QueryRuntimeInfo", "QueryRuntimeStat"}
    BY TheScript, IdCalls
  <1>4. /\ {"AddInputView", "AddOutputView"} \subseteq ViewMethods
        /\ \A m \in {"LivenessCheck", "SetMigrationTarget", "AddReplicas", "DeleteReplicas",
                     "Recover", "QueryRuntimeInfo", "QueryRuntimeStat"} : m \notin ViewMethods
    BY MethodNames DEF ViewMethods, Dirs
  <1> TAKE l \in 1 .. 14
  <1>5. l = 1 \/ l \in {2, 3} \/ l \in 4 .. 9 \/ l \in 10 .. 14
    OBVIOUS
  <1> QED BY <1>1, <1>2, <1>3, <1>4, <1>5

\* The ids in the script are their own keys.
LEMMA ScriptKeys ==
  /\ \A k \in 1 .. 5 : ToInt(k) = k
  /\ Keys(InputViews) = {2, 3} /\ Keys(OutputViews) = {3, 5}
  <1>1. \A k \in 1 .. 5 : ToInt(k) = k
    <2>1. \A k \in 1 .. 5 : k \in Key
      BY TesterAssumption, ConstantsAssumption DEF Key
    <2> QED BY <2>1, ToIntTwice
  <1>2. Keys(InputViews) = {ToInt(2), ToInt(3)} /\ Keys(OutputViews) = {ToInt(3), ToInt(5)}
    BY DEF Keys, InputViews, OutputViews
  <1>3. ToInt(2) = 2 /\ ToInt(3) = 3 /\ ToInt(5) = 5
    BY <1>1
  <1>4. Keys(InputViews) = {2, 3} /\ Keys(OutputViews) = {3, 5}
    BY <1>2, <1>3, Zenon
  <1> QED BY <1>1, <1>4

\* What a call of one item does to what is held, and whether it can.
LEMMA OneItem ==
  ASSUME NEW m \in Methods \ ViewMethods, NEW it, NEW k, ToInt(it.view.worker_id) = k
  PROVE  /\ Plane!Objectionable(m, it) <=>
              \/ m \in {"SetMigrationTarget"} \cup QueryMethods /\ k # MyId
              \/ m \in ReplicaMethods /\ k = MyId
              \/ m = "AddReplicas" /\ k \in acknowledged["replica"]
              \/ m \in {"DeleteReplicas", "Recover"} /\ k \notin acknowledged["replica"]
              \/ /\ m \in {"SetMigrationTarget", "AddReplicas"}
                 /\ ~ (/\ Keys(it.inputs) = acknowledged["input"]
                       /\ Keys(it.outputs) = acknowledged["output"])
         /\ \A d \in Dirs : Plane!Changed(m, it, d) = acknowledged[d]
         /\ Plane!Changed(m, it, "replica") =
              IF m = "AddReplicas" THEN acknowledged["replica"] \cup {k}
              ELSE IF m \in {"DeleteReplicas", "Recover"} THEN acknowledged["replica"] \ {k}
              ELSE acknowledged["replica"]
  <1>1. \A d \in Dirs : m # AddMethod[d] /\ m # DeleteMethod[d]
    BY DEF ViewMethods
  <1>2. Plane!KeyOf(it) = k
    BY SameData DEF Plane!KeyOf
  <1>3. "replica" \notin Dirs
    BY DEF Dirs
  <1>4. \A d \in Dirs : Plane!Changed(m, it, d) = acknowledged[d]
    BY <1>1, <1>3, SameData DEF Plane!Changed
  <1>5. Plane!Changed(m, it, "replica") =
          IF m = "AddReplicas" THEN acknowledged["replica"] \cup {k}
          ELSE IF m \in {"DeleteReplicas", "Recover"} THEN acknowledged["replica"] \ {k}
          ELSE acknowledged["replica"]
    BY <1>1, <1>2, <1>3, SameData DEF Plane!Changed
  <1> QED BY <1>1, <1>4, <1>5, PlaneObjects

\* A call of the script with one item changes the replica list as it is
\* expected to, if it is expected to succeed, and is objected to if not.
LEMMA LineDecision ==
  ASSUME NEW l \in 4 .. 14, acknowledged["replica"] = ReplicasBefore(l),
         acknowledged["input"] = {2, 3}, acknowledged["output"] = {3, 5}
  PROVE  LET r == Script[l]  it == r.items[1] IN
         /\ Len(r.items) = 1 /\ r.method \in Methods \ ViewMethods /\ r.method # "LivenessCheck"
         /\ Plane!Objectionable(r.method, it) <=> ~ Expected[l]
         /\ \A d \in Dirs : Plane!Changed(r.method, it, d) = acknowledged[d]
         /\ ReplicasBefore(l + 1) = IF Expected[l] THEN Plane!Changed(r.method, it, "replica")
                                                   ELSE acknowledged["replica"]
  <1> DEFINE r == Script[l]
             m == r.method
             it == r.items[1]
  <1> PICK k \in 1 .. 3 : k = IF l \in {4, 11, 13} THEN 1 ELSE IF l \in {12, 14} THEN 2 ELSE 3
    OBVIOUS
  <1>1. /\ Len(r.items) = 1 /\ it.view.worker_id = k
        /\ m = IF l = 4 THEN "SetMigrationTarget" ELSE IF l \in {5, 6, 9} THEN "AddReplicas"
               ELSE IF l \in {7, 8} THEN "DeleteReplicas" ELSE IF l = 10 THEN "Recover"
               ELSE IF l \in {11, 12} THEN "QueryRuntimeInfo" ELSE "QueryRuntimeStat"
        /\ l \in {4, 5, 6, 9} => it.inputs = InputViews /\ it.outputs = OutputViews
    <2>1. CASE l \in 4 .. 9
      BY <2>1, TheScript, ListCalls
    <2>2. CASE l \in 10 .. 14
      BY <2>2, TheScript, IdCalls
    <2> QED BY <2>1, <2>2
  <1>2. m \in Methods \ ViewMethods /\ m # "LivenessCheck"
    BY <1>1, MethodNames DEF ViewMethods, Dirs
  <1>3. ToInt(k) = k /\ ToInt(it.view.worker_id) = k
    BY <1>1, ScriptKeys
  <1>4. l \in {4, 5, 6, 9} => Keys(it.inputs) = {2, 3} /\ Keys(it.outputs) = {3, 5}
    BY <1>1, ScriptKeys, Zenon
  <1> HIDE DEF r, m, it
  <1>5. MyId = 1
    BY TesterAssumption
  <1>6. Plane!Objectionable(m, it) <=> l \in {6, 8, 12, 14}
    <2>1. Plane!Objectionable(m, it) <=>
            \/ m \in {"SetMigrationTarget"} \cup QueryMethods /\ k # 1
            \/ m \in ReplicaMethods /\ k = 1
            \/ m = "AddReplicas" /\ k \in ReplicasBefore(l)
            \/ m \in {"DeleteReplicas", "Recover"} /\ k \notin ReplicasBefore(l)
            \/ /\ m \in {"SetMigrationTarget", "AddReplicas"}
               /\ ~ (Keys(it.inputs) = {2, 3} /\ Keys(it.outputs) = {3, 5})
      BY <1>2, <1>3, <1>5, OneItem
    <2>2. CASE l = 4
      BY <1>1, <1>4, <2>1, <2>2 DEF QueryMethods, ReplicaMethods
    <2>3. CASE l \in {5, 6, 9}
      BY <1>1, <1>4, <2>1, <2>3 DEF ReplicasBefore, QueryMethods, ReplicaMethods
    <2>4. CASE l \in {7, 8, 10}
      BY <1>1, <2>1, <2>4 DEF ReplicasBefore, QueryMethods, ReplicaMethods
    <2>5. CASE l \in 11 .. 14
      BY <1>1, <2>1, <2>5 DEF QueryMethods, ReplicaMethods
    <2> QED BY <2>2, <2>3, <2>4, <2>5
  <1>7. l \notin {6, 8, 12, 14} =>
          Plane!Changed(m, it, "replica") = ReplicasBefore(l + 1)
    <2>1. Plane!Changed(m, it, "replica") =
            IF m = "AddReplicas" THEN ReplicasBefore(l) \cup {k}
            ELSE IF m \in {"DeleteReplicas", "Recover"} THEN ReplicasBefore(l) \ {k}
            ELSE ReplicasBefore(l)
      BY <1>2, <1>3, OneItem
    <2>2. CASE l \in {5, 9}
      BY <1>1, <2>1, <2>2 DEF ReplicasBefore
    <2>3. CASE l \in {7, 10}
      BY <1>1, <2>1, <2>3 DEF ReplicasBefore
    <2>4. CASE l \in {4, 11, 13}
      BY <1>1, <2>1, <2>4 DEF ReplicasBefore
    <2> QED BY <2>2, <2>3, <2>4
  <1>8. l \in {6, 8, 12, 14} => ReplicasBefore(l + 1) = ReplicasBefore(l)
    BY DEF ReplicasBefore
  <1>9. \A d \in Dirs : Plane!Changed(m, it, d) = acknowledged[d]
    BY <1>2, <1>3, OneItem
  <1>10. Expected[l] \in BOOLEAN /\ (Expected[l] <=> l \notin {6, 8, 12, 14})
    BY TheResults
  <1>11. ReplicasBefore(l + 1) = IF Expected[l] THEN Plane!Changed(m, it, "replica")
                                                ELSE acknowledged["replica"]
    BY <1>7, <1>8, <1>10
  <1>12. Plane!Objectionable(m, it) <=> ~ Expected[l]
    BY <1>6, <1>10
  <1> QED BY <1>1, <1>2, <1>9, <1>11, <1>12, Zenon DEF r, m, it

\* A step that changes nothing the position in the script depends on.
LEMMA QuietKeeps ==
  ASSUME ScriptInv, CallsOK', UNCHANGED <<acknowledged, line, results>>,
         Position' = Position \/ (Position = 1 /\ Position' = 2),
         Served' => \/ Served /\ ItemDecided' = ItemDecided /\ Succeeded' = Succeeded
                    \/ ItemDecided' = 1 /\ ~ Succeeded',
         Answered' => Answered /\ ShownCall'[Tester] = ShownCall[Tester]
  PROVE  ScriptInv'
  <1>1. HeldOK'
    <2>1. ReplicasBefore(Position)' = ReplicasBefore(Position)
      BY DEF ReplicasBefore
    <2> QED BY <2>1 DEF ScriptInv, HeldOK, CallsOK
  <1>2. SucceededOK'
    BY DEF ScriptInv, SucceededOK
  <1>3. ResultsOK'
    BY DEF ScriptInv, ResultsOK, ExpectedResults
  <1> QED BY <1>1, <1>2, <1>3 DEF ScriptInv

LEMMA ShownDomain == DOMAIN ShownCall = Clients
  BY DEF ShownCall

LEMMA TesterAsks ==
  ASSUME ScriptInv, line \in 1 .. 14, Plane!Ask(Tester, Script[line]), UNCHANGED scriptVars
  PROVE  ScriptInv'
  <1>0. Tester \in Clients
    BY TesterAssumption
  <1>1. /\ ShownCall[Tester].st = "idle"
        /\ ShownCall'[Tester].st = "asked" /\ ShownCall'[Tester].req = Script[line]
        /\ \A b \in Clients \ {Tester} : ShownCall'[b] = ShownCall[b]
    BY <1>0, ShownDomain DEF Plane!Ask
  <1>2. UNCHANGED <<acknowledged, cur[Server], ItemDecided, Succeeded, line, results>>
    BY DEF Plane!Ask, scriptVars
  <1>3. ~ Answered /\ ~ Answered' /\ ~ Served /\ ~ Served'
    BY <1>0, <1>1, <1>2 DEF Answered, Served, ScriptInv, CallsOK
  <1>4. Position' = Position
    BY <1>2, <1>3 DEF Position
  <1>5. CallsOK'
    BY <1>0, <1>1, <1>2 DEF ScriptInv, CallsOK
  <1> QED BY <1>2, <1>3, <1>4, <1>5, QuietKeeps

LEMMA OthersCall ==
  ASSUME ScriptInv, NEW c \in Clients \ {Tester},
         Plane!Return(c) \/ \E r \in OtherRequests : Plane!Ask(c, r), UNCHANGED scriptVars
  PROVE  ScriptInv'
  <1>0. Tester \in Clients
    BY TesterAssumption
  <1>1. /\ ShownCall[c].st # "asked"
        /\ ShownCall'[c].st # "idle" => ShownCall'[c].req \in OtherRequests
        /\ \A b \in Clients \ {c} : ShownCall'[b] = ShownCall[b]
    <2>1. CASE Plane!Return(c)
      BY <2>1, ShownDomain DEF Plane!Return, Plane!NoCall
    <2>2. ASSUME NEW r \in OtherRequests, Plane!Ask(c, r)
          PROVE  /\ ShownCall[c].st # "asked" /\ ShownCall'[c].req \in OtherRequests
                 /\ \A b \in Clients \ {c} : ShownCall'[b] = ShownCall[b]
      BY <2>2, ShownDomain DEF Plane!Ask
    <2> QED BY <2>1, <2>2
  <1>2. UNCHANGED <<acknowledged, cur[Server], ItemDecided, Succeeded, line, results>>
    BY DEF Plane!Ask, Plane!Return, scriptVars
  <1>3. ShownCall'[Tester] = ShownCall[Tester]
    BY <1>0, <1>1
  <1>4. Answered' = Answered /\ Served' = Served /\ Position' = Position
    BY <1>2, <1>3 DEF Answered, Served, Position
  <1>5. CallsOK'
    BY <1>0, <1>1, <1>2 DEF ScriptInv, CallsOK
  <1> QED BY <1>2, <1>3, <1>4, <1>5, QuietKeeps

LEMMA CallOpens ==
  ASSUME NoneIsNoClient, ScriptInv, NEW c \in Clients, Plane!Open(c), UNCHANGED scriptVars
  PROVE  ScriptInv'
  <1>0. Tester \in Clients
    BY TesterAssumption
  <1>1. /\ cur[Server] = None /\ ShownCall[c].st = "asked" /\ cur'[Server] = c
        /\ UNCHANGED <<acknowledged, ShownCall, ItemDecided, Succeeded, line, results>>
    BY DEF Plane!Open, scriptVars
  <1>2. CallsOK' /\ ItemDecided = 1 /\ ~ Succeeded
    BY <1>1 DEF ScriptInv, CallsOK
  <1>3. ~ Served /\ Answered' = Answered /\ (Served' => ~ Answered /\ line \in 1 .. 14)
    BY <1>0, <1>1 DEF NoneIsNoClient, Served, Answered, ScriptInv, CallsOK
  <1>4. Position' = Position \/ (Position = 1 /\ Position' = 2)
    <2>1. CASE Served'
      <3>1. line \in 1 .. 14 /\ Position = line
        BY <1>3, <2>1 DEF Position
      <3>2. PICK n \in 0 .. 2 : n = Len(Script[line].items) /\ (n = 0 <=> line = 1)
        BY <3>1, ItemCounts
      <3>3. Position' = IF 1 > n THEN line + 1 ELSE line
        BY <1>1, <1>2, <1>3, <2>1, <3>2 DEF Position
      <3> QED BY <3>1, <3>2, <3>3
    <2>2. CASE ~ Served'
      BY <1>1, <1>3, <2>2 DEF Position
    <2> QED BY <2>1, <2>2
  <1> QED BY <1>1, <1>2, <1>3, <1>4, QuietKeeps

\* The calls of the others change nothing that the script depends on.
LEMMA OthersServed ==
  ASSUME NoneIsNoClient, QuietOthers, TypeOK, ScriptInv, ~ Served,
         Plane!Object \/ Plane!Decide \/ Plane!Reply, UNCHANGED scriptVars
  PROVE  ScriptInv'
  <1> DEFINE c == cur[Server]
             r == ShownCall[c].req
  <1>0. Tester \in Clients
    BY TesterAssumption
  <1>1. c \in Clients \ {Tester} /\ ShownCall[c].st = "asked" /\ r \in OtherRequests
    BY DEF Plane!Object, Plane!Decide, Plane!Reply, Served, ScriptInv, CallsOK
  <1>2. CASE Plane!Object
    <2>1. /\ UNCHANGED <<acknowledged, cur[Server], ShownCall, Succeeded, line, results>>
          /\ ItemDecided' = ItemDecided + 1
      BY <1>2 DEF Plane!Object, scriptVars
    <2>2. CallsOK'
      BY <1>1, <2>1 DEF NoneIsNoClient, ScriptInv, CallsOK
    <2>3. ~ Served' /\ Answered' = Answered /\ Position' = Position
      BY <2>1 DEF Served, Answered, Position
    <2> QED BY <2>1, <2>2, <2>3, QuietKeeps
  <1>3. CASE Plane!Decide
    <2> DEFINE it == r.items[ItemDecided]
    <2>1. /\ UNCHANGED <<cur[Server], ShownCall, line, results>>
          /\ ItemDecided' = ItemDecided + 1 /\ ItemDecided <= Len(r.items)
          /\ ~ Plane!Objectionable(r.method, it)
          /\ \/ acknowledged' = acknowledged
             \/ acknowledged' = [b \in Tables |-> Plane!Changed(r.method, it, b)]
      BY <1>3, SameData DEF Plane!Decide, Plane!Method, Plane!Items, scriptVars
    <2>2. r \in Request /\ ItemDecided \in DOMAIN r.items
      <3>1. r \in Request /\ Len(r.items) \in Nat /\ DOMAIN r.items = 1 .. Len(r.items)
        BY <1>1, RequestsAssumption, ScriptAssumption DEF Request
      <3> QED BY <2>1, <3>1 DEF ScriptInv, CallsOK
    <2>3. /\ r.method \in Methods \ ViewMethods
          /\ r.method \in ReplicaMethods => ToInt(it.view.worker_id) = MyId
      BY <1>1, <2>2 DEF Request, QuietOthers
    <2>4. r.method \notin ReplicaMethods
      BY <2>1, <2>3, OneItem
    <2>5. \A b \in Tables : Plane!Changed(r.method, it, b) = acknowledged[b]
      BY <2>3, <2>4, OneItem DEF ReplicaMethods, Tables
    <2>6. acknowledged' = acknowledged
      BY <2>1, <2>5 DEF TypeOK, WorkerTypeOK
    <2>7. CallsOK'
      BY <1>1, <2>1 DEF NoneIsNoClient, ScriptInv, CallsOK
    <2>8. ~ Served' /\ Answered' = Answered /\ Position' = Position
      BY <2>1 DEF Served, Answered, Position
    <2> QED BY <2>1, <2>6, <2>7, <2>8, QuietKeeps
  <1>4. CASE Plane!Reply
    <2>1. /\ UNCHANGED <<acknowledged, line, results>>
          /\ cur'[Server] = None /\ ItemDecided' = 1 /\ ~ Succeeded'
          /\ ShownCall'[c].req = r
          /\ \A b \in Clients \ {c} : ShownCall'[b] = ShownCall[b]
      <3>1. ShownCall' = [ShownCall EXCEPT ![c].st = "answered", ![c].answer = Plane!Shown]
        BY <1>4 DEF Plane!Reply
      <3>2. UNCHANGED <<acknowledged, line, results>>
            /\ cur'[Server] = None /\ ItemDecided' = 1 /\ ~ Succeeded'
        BY <1>4 DEF Plane!Reply, scriptVars
      <3>3. \A b \in Clients \ {c} : ShownCall'[b] = ShownCall[b]
        BY <1>1, <3>1, ShownDomain
      <3>4. ShownCall'[c].req = r
        <4>1. ShownCall'[c] = [ShownCall[c] EXCEPT !.st = "answered", !.answer = Plane!Shown]
          BY <1>1, <3>1, ShownDomain
        <4>2. DOMAIN ShownCall[c] = {"st", "req", "answer"}
          BY <1>1 DEF ShownCall
        <4> HIDE DEF Plane!Shown, c
        <4> QED BY <4>1, <4>2
      <3> QED BY <3>2, <3>3, <3>4
    <2>2. ShownCall'[Tester] = ShownCall[Tester]
      BY <1>0, <1>1, <2>1
    <2>3. CallsOK'
      BY <1>0, <1>1, <2>1, <2>2 DEF NoneIsNoClient, ScriptInv, CallsOK
    <2>4. ~ Served' /\ Answered' = Answered /\ Position' = Position
      BY <1>0, <2>1, <2>2 DEF NoneIsNoClient, Served, Answered, Position
    <2> QED BY <2>1, <2>2, <2>3, <2>4, QuietKeeps
  <1> QED BY <1>2, <1>3, <1>4

\* An item of the script's call is objected to, or accepted.
LEMMA ItemDone ==
  ASSUME WorkerSaysYes, ScriptInv, Served, Plane!Object \/ Plane!Decide, UNCHANGED scriptVars
  PROVE  LET r == Script[line]  it == r.items[ItemDecided] IN
         /\ line \in 2 .. 14 /\ ItemDecided \in 1 .. Len(r.items) /\ ~ Answered
         /\ ItemDecided' = ItemDecided + 1
         /\ UNCHANGED <<cur[Server], ShownCall, line, results>>
         /\ \/ Plane!Objectionable(r.method, it) /\ UNCHANGED <<acknowledged, Succeeded>>
            \/ /\ ~ Plane!Objectionable(r.method, it)
               /\ \A b \in Tables : acknowledged'[b] = Plane!Changed(r.method, it, b)
               /\ Succeeded' <=> (Succeeded \/ r.method \notin ViewMethods)
  <1> DEFINE r == Script[line]
             it == r.items[ItemDecided]
  <1>0. Tester \in Clients
    BY TesterAssumption
  <1>1. line \in 1 .. 14 /\ ShownCall[Tester].req = r /\ ShownCall[Tester].st = "asked"
    BY <1>0 DEF Served, ScriptInv, CallsOK
  <1>2. Plane!Method = r.method /\ Plane!Items = r.items
    BY <1>1 DEF Served, Plane!Method, Plane!Items
  <1>3. /\ ItemDecided <= Len(r.items) /\ ItemDecided' = ItemDecided + 1
        /\ UNCHANGED <<cur[Server], ShownCall, line, results>>
    BY <1>2 DEF Plane!Object, Plane!Decide, scriptVars
  <1>4. line \in 2 .. 14 /\ ItemDecided \in 1 .. Len(r.items)
    <2>1. PICK n \in 0 .. 2 : n = Len(r.items) /\ (n = 0 <=> line = 1)
      BY <1>1, ItemCounts
    <2> QED BY <1>1, <1>3, <2>1 DEF ScriptInv, CallsOK
  <1>5. CASE Plane!Object
    BY <1>1, <1>2, <1>3, <1>4, <1>5 DEF Plane!Object, Answered
  <1>6. CASE Plane!Decide
    <2>1. PICK verdict \in Verdicts :
            /\ acknowledged' = IF verdict THEN [b \in Plane!Tables |-> Plane!Changed(r.method, it, b)]
                                          ELSE acknowledged
            /\ Succeeded' = (Succeeded \/ (verdict /\ r.method \notin Plane!ViewMethods))
      BY <1>2, <1>6 DEF Plane!Decide
    <2>2. verdict = TRUE
      BY DEF WorkerSaysYes
    <2>3. /\ acknowledged' = [b \in Tables |-> Plane!Changed(r.method, it, b)]
          /\ Succeeded' <=> (Succeeded \/ r.method \notin ViewMethods)
      BY <2>1, <2>2, SameData
    <2>4. ~ Plane!Objectionable(r.method, it)
      BY <1>2, <1>6 DEF Plane!Decide
    <2> QED BY <1>1, <1>3, <1>4, <2>3, <2>4 DEF Answered
  <1> QED BY <1>5, <1>6

\* A view of the script is in the list already, or comes into it.
LEMMA ViewDecision ==
  ASSUME NEW d \in Dirs, NEW it, NEW k, ToInt(it.view.worker_id) = k
  PROVE  /\ Plane!Objectionable(AddMethod[d], it) <=> k \in acknowledged[d]
         /\ Plane!Changed(AddMethod[d], it, d) = acknowledged[d] \cup {k}
         /\ \A b \in Tables \ {d} : Plane!Changed(AddMethod[d], it, b) = acknowledged[b]
  <1>1. Plane!KeyOf(it) = k
    BY SameData DEF Plane!KeyOf
  <1>2. /\ AddMethod[d] \notin {"SetMigrationTarget"} \cup QueryMethods \cup ReplicaMethods
        /\ \A b \in Dirs : AddMethod[d] # DeleteMethod[b] /\ (AddMethod[d] = AddMethod[b] => b = d)
    BY MethodNames DEF Dirs, QueryMethods, ReplicaMethods
  <1>3. Plane!Objectionable(AddMethod[d], it) <=> k \in acknowledged[d]
    BY <1>2, PlaneObjects DEF ReplicaMethods
  <1>4. ASSUME NEW b \in Tables
        PROVE  Plane!Changed(AddMethod[d], it, b) =
                 IF b = d THEN acknowledged[b] \cup {k} ELSE acknowledged[b]
    BY <1>1, <1>2, SameData DEF Plane!Changed, Tables, ReplicaMethods
  <1>5. d \in Tables
    BY DEF Tables
  <1> QED BY <1>3, <1>4, <1>5

\* An item of one of the two calls with views.
LEMMA ViewDone ==
  ASSUME NoneIsNoClient, WorkerSaysYes, ScriptInv, Served, Plane!Object \/ Plane!Decide,
         UNCHANGED scriptVars, line \in {2, 3}
  PROVE  ScriptInv'
  <1> DEFINE d == IF line = 2 THEN "input" ELSE "output"
             ids == IF line = 2 THEN InputViews ELSE OutputViews
             r == Script[line]
             it == r.items[ItemDecided]
             k == ids[ItemDecided]
  <1>1. /\ ItemDecided \in {1, 2} /\ ~ Answered
        /\ ItemDecided' = ItemDecided + 1
        /\ UNCHANGED <<cur[Server], ShownCall, line, results>>
        /\ \/ Plane!Objectionable(r.method, it) /\ UNCHANGED <<acknowledged, Succeeded>>
           \/ /\ ~ Plane!Objectionable(r.method, it)
              /\ \A b \in Tables : acknowledged'[b] = Plane!Changed(r.method, it, b)
    <2>1. /\ ItemDecided \in 1 .. Len(r.items) /\ ~ Answered
          /\ ItemDecided' = ItemDecided + 1
          /\ UNCHANGED <<cur[Server], ShownCall, line, results>>
          /\ \/ Plane!Objectionable(r.method, it) /\ UNCHANGED <<acknowledged, Succeeded>>
             \/ /\ ~ Plane!Objectionable(r.method, it)
                /\ \A b \in Tables : acknowledged'[b] = Plane!Changed(r.method, it, b)
      BY ItemDone
    <2>2. Len(r.items) = 2
      BY ItemCounts
    <2>3. ItemDecided \in {1, 2}
      BY <2>1, <2>2
    <2> QED BY <2>1, <2>3
  <1>2. r.method = AddMethod[d] /\ it.view.worker_id = k /\ d \in Dirs
    BY <1>1, TheScript, ViewCalls, MethodNames DEF Dirs
  <1>3. ToInt(it.view.worker_id) = k
    BY <1>1, <1>2, ScriptKeys, ViewCalls
  <1>4. /\ acknowledged'[d] = acknowledged[d] \cup {k}
        /\ \A b \in Tables \ {d} : acknowledged'[b] = acknowledged[b]
    <2> PICK dd \in Dirs, kk \in {2, 3, 5} : dd = d /\ kk = k
      BY <1>1, <1>2, ViewCalls
    <2> HIDE DEF d, ids, r, it, k
    <2>1. /\ Plane!Objectionable(AddMethod[dd], it) <=> kk \in acknowledged[dd]
          /\ Plane!Changed(AddMethod[dd], it, dd) = acknowledged[dd] \cup {kk}
          /\ \A b \in Tables \ {dd} : Plane!Changed(AddMethod[dd], it, b) = acknowledged[b]
      <3>1. ToInt(it.view.worker_id) = kk
        BY <1>3
      <3> QED BY <3>1, ViewDecision
    <2>2. dd \in Tables
      BY DEF Tables
    <2> QED BY <1>1, <1>2, <2>1, <2>2
  <1>5. /\ Len(r.items) = 2 /\ Position = line
        /\ Position' = IF ItemDecided = 2 THEN line + 1 ELSE line
    <2>1. Len(r.items) = 2
      BY ItemCounts
    <2> QED BY <1>1, <2>1 DEF Position, Served, Answered
  <1>6. CallsOK'
    BY <1>1, TesterAssumption DEF NoneIsNoClient, ScriptInv, CallsOK, Served
  <1>7. HeldOK'
    <2>1. acknowledged'["replica"] = ReplicasBefore(Position')
      BY <1>1, <1>4, <1>5 DEF ScriptInv, HeldOK, ReplicasBefore, Tables, Dirs
    <2>2. CASE line = 2
      BY <1>1, <1>4, <1>5, <2>1, <2>2, ViewCalls DEF ScriptInv, HeldOK, Tables, Dirs, Served
    <2>3. CASE line = 3
      BY <1>1, <1>4, <1>5, <2>1, <2>3, ViewCalls DEF ScriptInv, HeldOK, Tables, Dirs, Served
    <2> QED BY <2>2, <2>3
  <1>8. SucceededOK'
    BY <1>1 DEF SucceededOK, Answered
  <1>9. ResultsOK'
    BY <1>1 DEF ScriptInv, ResultsOK, ExpectedResults
  <1> QED BY <1>6, <1>7, <1>8, <1>9 DEF ScriptInv

\* The item of one of the other calls.
LEMMA OneItemDone ==
  ASSUME NoneIsNoClient, WorkerSaysYes, ScriptInv, Served, Plane!Object \/ Plane!Decide,
         UNCHANGED scriptVars, line \in 4 .. 14
  PROVE  ScriptInv'
  <1> PICK l \in 4 .. 14 : l = line
    OBVIOUS
  <1> DEFINE r == Script[l]
             it == r.items[1]
  <1>1. /\ ItemDecided = 1 /\ ~ Answered /\ ItemDecided' = 2
        /\ UNCHANGED <<cur[Server], ShownCall, line, results>>
        /\ \/ Plane!Objectionable(r.method, it) /\ UNCHANGED <<acknowledged, Succeeded>>
           \/ /\ ~ Plane!Objectionable(r.method, it)
              /\ \A b \in Tables : acknowledged'[b] = Plane!Changed(r.method, it, b)
              /\ Succeeded' <=> (Succeeded \/ r.method \notin ViewMethods)
    <2> DEFINE s == Script[line]
               is == s.items[ItemDecided]
    <2>1. /\ line \in 2 .. 14 /\ ItemDecided \in 1 .. Len(s.items) /\ ~ Answered
          /\ ItemDecided' = ItemDecided + 1
          /\ UNCHANGED <<cur[Server], ShownCall, line, results>>
          /\ \/ Plane!Objectionable(s.method, is) /\ UNCHANGED <<acknowledged, Succeeded>>
             \/ /\ ~ Plane!Objectionable(s.method, is)
                /\ \A b \in Tables : acknowledged'[b] = Plane!Changed(s.method, is, b)
                /\ Succeeded' <=> (Succeeded \/ s.method \notin ViewMethods)
      BY ItemDone
    <2>2. ItemDecided = 1
      <3>1. Len(s.items) = 1
        BY ItemCounts
      <3> QED BY <2>1, <3>1
    <2>3. s = r /\ is = it
      BY <2>2
    <2> HIDE DEF s, is, r, it
    <2> QED BY <2>1, <2>2, <2>3
  <1>2. Position = l /\ Position' = l + 1
    <2>1. Len(r.items) = 1
      BY ItemCounts
    <2> QED BY <1>1, <2>1 DEF Position, Served, Answered
  <1>3. /\ acknowledged["replica"] = ReplicasBefore(l)
        /\ acknowledged["input"] = {2, 3} /\ acknowledged["output"] = {3, 5}
    BY <1>2 DEF ScriptInv, HeldOK
  <1>4. /\ r.method \notin ViewMethods
        /\ Plane!Objectionable(r.method, it) <=> ~ Expected[l]
        /\ \A d \in Dirs : Plane!Changed(r.method, it, d) = acknowledged[d]
        /\ ReplicasBefore(l + 1) = IF Expected[l] THEN Plane!Changed(r.method, it, "replica")
                                                  ELSE acknowledged["replica"]
    BY <1>3, LineDecision
  <1>5. ~ Succeeded
    BY <1>1 DEF ScriptInv, SucceededOK
  <1> HIDE DEF r, it
  <1>6. /\ acknowledged'["replica"] = ReplicasBefore(l + 1)
        /\ acknowledged'["input"] = {2, 3} /\ acknowledged'["output"] = {3, 5}
    BY <1>1, <1>3, <1>4 DEF Tables, Dirs
  <1>7. Succeeded' <=> Expected[l]
    BY <1>1, <1>4, <1>5
  <1>8. CallsOK'
    BY <1>1, TesterAssumption DEF NoneIsNoClient, ScriptInv, CallsOK, Served
  <1>9. HeldOK'
    BY <1>1, <1>2, <1>6 DEF HeldOK
  <1>10. SucceededOK'
    BY <1>1, <1>7 DEF SucceededOK, Answered
  <1>11. ResultsOK'
    BY <1>1 DEF ScriptInv, ResultsOK, ExpectedResults
  <1> QED BY <1>8, <1>9, <1>10, <1>11 DEF ScriptInv

\* The script's call is answered.
LEMMA TesterReplied ==
  ASSUME NoneIsNoClient, ScriptInv, Served, Plane!Reply, UNCHANGED scriptVars
  PROVE  ScriptInv'
  <1> PICK l \in 1 .. 14 : l = line
    BY TesterAssumption DEF Served, ScriptInv, CallsOK
  <1>0. Tester \in Clients /\ cur[Server] = Tester
    BY TesterAssumption DEF Served
  <1>1. /\ ShownCall[Tester].st = "asked" /\ ShownCall[Tester].req = Script[l]
        /\ ~ Answered
    BY <1>0 DEF ScriptInv, CallsOK, Answered
  <1>2. Plane!Method = Script[l].method /\ Plane!Items = Script[l].items
    BY <1>0, <1>1 DEF Plane!Method, Plane!Items
  <1>3. /\ UNCHANGED <<acknowledged, line, results>>
        /\ cur'[Server] = None /\ ItemDecided' = 1 /\ ~ Succeeded'
        /\ ShownCall' = [ShownCall EXCEPT ![Tester].st = "answered", ![Tester].answer = Plane!Shown]
    BY <1>0 DEF Plane!Reply, scriptVars
  <1>4. /\ ShownCall'[Tester].st = "answered" /\ ShownCall'[Tester].req = Script[l]
        /\ ShownCall'[Tester].answer = Plane!Shown
        /\ \A b \in Clients \ {Tester} : ShownCall'[b] = ShownCall[b]
    <2>1. /\ \A b \in Clients \ {Tester} : ShownCall'[b] = ShownCall[b]
          /\ ShownCall'[Tester] = [ShownCall[Tester] EXCEPT !.st = "answered", !.answer = Plane!Shown]
      BY <1>0, <1>3, ShownDomain
    <2>2. DOMAIN ShownCall[Tester] = {"st", "req", "answer"}
      BY <1>0 DEF ShownCall
    <2> HIDE DEF Plane!Shown
    <2> QED BY <1>1, <2>1, <2>2
  <1>5. PICK n \in 0 .. 2 : n = Len(Script[l].items)
                            /\ n = IF l = 1 THEN 0 ELSE IF l \in {2, 3} THEN 2 ELSE 1
    BY ItemCounts
  <1>6. l # 1 => Script[l].method # "LivenessCheck"
    BY ScriptMethods
  <1>7. ItemDecided > n
    <2>1. ItemDecided > n \/ Script[l].method = "LivenessCheck"
      BY <1>2, <1>5 DEF Plane!Reply
    <2>2. ItemDecided \in Nat \ {0}
      BY DEF ScriptInv, CallsOK
    <2> QED BY <1>5, <1>6, <2>1, <2>2
  <1>8. Served /\ ~ Served' /\ Answered' /\ Position = l + 1 /\ Position' = l + 1
    <2>1. Position = l + 1
      BY <1>5, <1>7 DEF Position
    <2>2. Answered' /\ Position' = l + 1
      BY <1>3, <1>4 DEF Position, Answered
    <2> QED BY <1>0, <1>3, <2>1, <2>2 DEF Served, NoneIsNoClient
  <1>9. Plane!Shown.succeed <=> (Succeeded \/ Script[l].method = "LivenessCheck")
    BY <1>2 DEF Plane!Shown
  <1>10. l \notin {2, 3} => (Plane!Shown.succeed <=> Expected[l])
    <2>1. CASE l = 1
      BY <1>9, <2>1, TheScript, TheResults DEF NoRequest
    <2>2. CASE l \in 4 .. 14
      <3>1. Succeeded <=> Expected[l]
        BY <1>5, <1>7, <2>2 DEF ScriptInv, SucceededOK
      <3> QED BY <1>6, <1>9, <2>2, <3>1
    <2> QED BY <2>1, <2>2
  <1>11. CallsOK'
    <2>1. /\ \A c \in Clients \ {Tester} :
               ShownCall'[c].st # "idle" => ShownCall'[c].req \in OtherRequests
          /\ ShownCall'[Tester].req = Script[line'] /\ line' \in 1 .. 14
      BY <1>3, <1>4 DEF ScriptInv, CallsOK
    <2>2. cur'[Server] = None /\ None \notin Clients /\ ItemDecided' = 1 /\ ~ Succeeded'
      BY <1>3 DEF NoneIsNoClient
    <2> QED BY <2>1, <2>2 DEF CallsOK
  <1>12. HeldOK'
    BY <1>3, <1>8 DEF ScriptInv, HeldOK
  <1>13. SucceededOK'
    BY <1>3, <1>4, <1>8, <1>10 DEF SucceededOK
  <1>14. ResultsOK'
    BY <1>3 DEF ScriptInv, ResultsOK, ExpectedResults
  <1> QED BY <1>11, <1>12, <1>13, <1>14 DEF ScriptInv

\* The script takes the answer.
LEMMA TesterReturns ==
  ASSUME TypeInv, ScriptInv, Plane!Return(Tester), line' = line + 1,
         results' = Append(results, ClientResult(call[Tester].req, call[Tester].answer))
  PROVE  ScriptInv'
  <1> DEFINE b == ClientResult(call[Tester].req, call[Tester].answer)
  <1> PICK l \in 1 .. 14 : l = line
    BY TesterAssumption DEF Plane!Return, ScriptInv, CallsOK
  <1>0. Tester \in Clients
    BY TesterAssumption
  <1>1. /\ ShownCall[Tester].st = "answered" /\ ShownCall[Tester].req = Script[l]
        /\ ShownCall'[Tester].st = "idle"
        /\ \A c \in Clients \ {Tester} : ShownCall'[c] = ShownCall[c]
    BY <1>0, ShownDomain DEF Plane!Return, Plane!NoCall, ScriptInv, CallsOK
  <1>2. UNCHANGED <<acknowledged, cur[Server], ItemDecided, Succeeded>>
    BY DEF Plane!Return
  <1>3. Answered /\ ~ Answered' /\ ~ Served /\ ~ Served'
    BY <1>0, <1>1, <1>2 DEF Answered, Served, ScriptInv, CallsOK
  <1>4. Position = l + 1 /\ Position' = l + 1
    BY <1>3 DEF Position
  <1>5. b <=> Expected[l]
    <2>1. call[Tester].req = Script[l]
      BY <1>0, <1>1 DEF ShownCall
    <2>2. ShownCall[Tester].answer.succeed = call[Tester].answer.succeed
      BY <1>0 DEF ShownCall, ShownAnswer
    <2>3. CASE l \in {2, 3}
      BY <2>1, <2>3, ScriptMethods, TheResults DEF ClientResult
    <2>4. CASE l \notin {2, 3}
      <3>1. ShownCall[Tester].answer.succeed <=> Expected[l]
        BY <1>3, <2>4 DEF ScriptInv, SucceededOK
      <3>2. Script[l].method \notin ViewMethods
        BY <2>4, ScriptMethods
      <3> QED BY <2>1, <2>2, <3>1, <3>2 DEF ClientResult
    <2> QED BY <2>3, <2>4
  <1>6. b \in BOOLEAN
    <2>1. call[Tester].answer.succeed \in BOOLEAN
      BY <1>0 DEF TypeInv, TypeOK, GrpcTypeOK, Call, Answer
    <2> QED BY <2>1, Zenon DEF ClientResult
  <1>7. b = Expected[l]
    BY <1>5, <1>6, TheResults, Zenon
  <1>8. CallsOK'
    BY <1>0, <1>1, <1>2, <1>3 DEF ScriptInv, CallsOK, Served
  <1>9. HeldOK'
    BY <1>2, <1>3, <1>4 DEF ScriptInv, HeldOK
  <1>10. SucceededOK'
    BY <1>3 DEF SucceededOK
  <1>11. ResultsOK'
    <2> HIDE DEF b
    <2>1. results \in Seq(BOOLEAN) /\ Len(results) = l - 1 /\ ExpectedResults
      BY DEF ScriptInv, ResultsOK
    <2>2. results' \in Seq(BOOLEAN) /\ Len(results') = l
      BY <1>6, <2>1 DEF b
    <2>3. \A i \in 1 .. l : results'[i] = IF i < l THEN results[i] ELSE b
      BY <2>1 DEF b
    <2>4. ExpectedResults'
      BY <1>7, <2>1, <2>2, <2>3 DEF ExpectedResults
    <2> QED BY <2>2, <2>4 DEF ResultsOK
  <1> QED BY <1>8, <1>9, <1>10, <1>11 DEF ScriptInv

\* The script begins anew.
LEMMA TesterRestarts ==
  ASSUME ScriptInv, UNCHANGED Plane!vars, line > Len(Script), line' = 1, results' = <<>>
  PROVE  ScriptInv'
  <1>0. Tester \in Clients /\ line = 15
    BY TesterAssumption, TheScript DEF ScriptInv, ResultsOK
  <1>1. UNCHANGED <<acknowledged, ShownCall, cur[Server], ItemDecided, Succeeded>>
    BY DEF Plane!vars
  <1>2. ShownCall[Tester].st = "idle"
    BY <1>0 DEF ScriptInv, CallsOK
  <1>3. ~ Answered /\ ~ Answered' /\ ~ Served /\ ~ Served'
    BY <1>0, <1>1, <1>2 DEF Answered, Served, ScriptInv, CallsOK
  <1>4. Position = 15 /\ Position' = 1
    BY <1>0, <1>3 DEF Position
  <1>5. CallsOK'
    BY <1>1, <1>2 DEF ScriptInv, CallsOK
  <1>6. HeldOK'
    BY <1>1, <1>3, <1>4 DEF ScriptInv, HeldOK, ReplicasBefore
  <1>7. SucceededOK'
    BY <1>3 DEF SucceededOK
  <1>8. ResultsOK'
    BY DEF ResultsOK, ExpectedResults
  <1> QED BY <1>5, <1>6, <1>7, <1>8 DEF ScriptInv

LEMMA InitScriptInv == OneServer /\ NoneIsNoClient /\ ScriptInit => ScriptInv
  <1> SUFFICES ASSUME OneServer, NoneIsNoClient, ScriptInit PROVE ScriptInv
    OBVIOUS
  <1>0. Tester \in Clients
    BY TesterAssumption
  <1>1. Plane!Init /\ line = 1 /\ results = <<>>
    BY InitShows DEF ScriptInit
  <1>2. /\ acknowledged = [b \in Tables |-> {}]
        /\ \A c \in Clients : ShownCall[c].st = "idle"
        /\ cur[Server] = None /\ ItemDecided = 1 /\ ~ Succeeded
    BY <1>1, SameData DEF Plane!Init, Plane!NoCall
  <1>3. ~ Answered /\ ~ Served /\ Position = 1
    BY <1>0, <1>1, <1>2 DEF Answered, Served, Position, NoneIsNoClient
  <1>4. CallsOK
    BY <1>0, <1>2 DEF CallsOK, NoneIsNoClient
  <1>5. HeldOK
    BY <1>2, <1>3 DEF HeldOK, ReplicasBefore, Tables, Dirs
  <1>6. SucceededOK /\ ResultsOK
    BY <1>1, <1>3 DEF SucceededOK, ResultsOK, ExpectedResults
  <1> QED BY <1>4, <1>5, <1>6 DEF ScriptInv

\* Nothing is seen to happen.
LEMMA StillShown == UNCHANGED vars => UNCHANGED Plane!vars
  <1> SUFFICES ASSUME UNCHANGED vars PROVE UNCHANGED Plane!vars
    OBVIOUS
  <1>1. UNCHANGED <<acknowledged, rte_ring_reply, call, cur, item, reply_, pc>>
    BY DEF vars, ringVars, workerVars, grpcVars, serverVars
  <1> QED BY <1>1 DEF Plane!vars, ShownCall, ItemDecided, Decided, Succeeded, InCall, Req

LEMMA NothingKeeps ==
  ASSUME ScriptInv, UNCHANGED Plane!vars, UNCHANGED scriptVars
  PROVE  ScriptInv'
  <1>1. UNCHANGED <<acknowledged, ShownCall, cur[Server], ItemDecided, Succeeded, line, results>>
    BY DEF Plane!vars, scriptVars
  <1>2. Answered' = Answered /\ Served' = Served /\ Position' = Position
    BY <1>1 DEF Answered, Served, Position
  <1>3. CallsOK'
    BY <1>1 DEF ScriptInv, CallsOK
  <1> QED BY <1>1, <1>2, <1>3, QuietKeeps

\* A step of the runtime.
LEMMA RuntimeKeeps ==
  ASSUME OneServer, NoAlias, DistinctLists, OneTarget, NoneIsNoClient, WorkerSaysYes, QuietOthers,
         PlaneInv, ScriptInv, UNCHANGED scriptVars,
         \/ \E t \in RpcThreads : HandleRpcs(t)
         \/ WorkerThread
         \/ \E c \in Clients : Transport(c)
  PROVE  ScriptInv'
  <1>1. \/ \E c \in Clients : Plane!Open(c)
        \/ Plane!Object \/ Plane!Decide \/ Plane!Reply
        \/ UNCHANGED Plane!vars
    BY RuntimeShows
  <1>2. ASSUME NEW c \in Clients, Plane!Open(c) PROVE ScriptInv'
    BY <1>2, CallOpens
  <1>3. CASE ~ Served /\ (Plane!Object \/ Plane!Decide \/ Plane!Reply)
    BY <1>3, OthersServed, ServerType DEF TypeInv
  <1>4. CASE Served /\ (Plane!Object \/ Plane!Decide)
    <2>1. line \in 2 .. 14
      BY <1>4, ItemDone
    <2>2. CASE line \in {2, 3}
      BY <1>4, <2>2, ViewDone
    <2>3. CASE line \in 4 .. 14
      BY <1>4, <2>3, OneItemDone
    <2> QED BY <2>1, <2>2, <2>3
  <1>5. CASE Served /\ Plane!Reply
    BY <1>5, TesterReplied
  <1>6. CASE UNCHANGED Plane!vars
    BY <1>6, NothingKeeps
  <1> QED BY <1>1, <1>2, <1>3, <1>4, <1>5, <1>6

LEMMA NextScriptInv ==
  ASSUME OneServer, NoAlias, DistinctLists, OneTarget, NoneIsNoClient, WorkerSaysYes, QuietOthers,
         PlaneInv, ScriptInv, [ScriptNext]_<<vars, scriptVars>>
  PROVE  ScriptInv'
  <1>0. Tester \in Clients /\ DOMAIN Script = 1 .. 14 /\ Len(Script) = 14
    BY TesterAssumption, TheScript
  <1>1. CASE ScriptCall /\ UNCHANGED <<ringVars, workerVars, serverVars>>
    <2>1. line \in 1 .. 14 /\ Script[line] \in Requests
      BY <1>0, <1>1, ScriptAssumption DEF ScriptCall, ScriptInv, ResultsOK
    <2>2. Plane!Ask(Tester, Script[line])
      BY <1>0, <1>1, <2>1, CallAsks DEF ScriptCall
    <2> QED BY <1>1, <2>1, <2>2, TesterAsks DEF ScriptCall
  <1>2. CASE ScriptReturn /\ UNCHANGED <<ringVars, workerVars, serverVars>>
    <2>1. Plane!Return(Tester)
      BY <1>0, <1>2, ReturnReturns DEF ScriptReturn
    <2> QED BY <1>2, <2>1, TesterReturns, ServerType DEF ScriptReturn
  <1>3. CASE ScriptRestart /\ UNCHANGED <<ringVars, workerVars, serverVars>>
    <2>1. UNCHANGED Plane!vars
      BY <1>3, StillShown DEF ScriptRestart, vars
    <2> QED BY <1>3, <2>1, TesterRestarts DEF ScriptRestart
  <1>4. CASE /\ \/ \E t \in RpcThreads : HandleRpcs(t)
                \/ WorkerThread
                \/ \E c \in Clients : Transport(c)
             /\ UNCHANGED scriptVars
    BY <1>4, RuntimeKeeps
  <1>5. ASSUME NEW c \in Clients \ {Tester}, OtherClient(c), UNCHANGED scriptVars
        PROVE  ScriptInv'
    <2>1. CASE ReturnRpc(c)
      BY <1>5, <2>1, ReturnReturns, OthersCall DEF OtherClient
    <2>2. ASSUME NEW r \in OtherRequests, CallRpc(c, r) PROVE ScriptInv'
      <3>1. r \in Requests
        BY ScriptAssumption
      <3>2. Plane!Ask(c, r)
        BY <1>5, <2>2, <3>1, CallAsks DEF OtherClient
      <3> QED BY <1>5, <3>2, OthersCall
    <2> QED BY <1>5, <2>1, <2>2 DEF OtherClient
  <1>6. CASE UNCHANGED <<vars, scriptVars>>
    <2>1. UNCHANGED Plane!vars
      BY <1>6, StillShown
    <2> QED BY <1>6, <2>1, NothingKeeps
  <1> QED BY <1>1, <1>2, <1>3, <1>4, <1>5, <1>6 DEF ScriptNext, ScriptStep

\* Every step of the script's specification is one of the runtime.
LineOK == line \in Nat \ {0}

LEMMA LineMoves == LineOK /\ [ScriptNext]_<<vars, scriptVars>> => LineOK' /\ [Next]_vars
  <1> SUFFICES ASSUME LineOK, [ScriptNext]_<<vars, scriptVars>> PROVE LineOK' /\ [Next]_vars
    OBVIOUS
  <1>0. Tester \in Clients /\ DOMAIN Script = 1 .. 14 /\ Len(Script) = 14
    BY TesterAssumption, TheScript
  <1>1. CASE ScriptCall /\ UNCHANGED <<ringVars, workerVars, serverVars>>
    <2>1. line \in 1 .. 14 /\ Script[line] \in Requests
      BY <1>0, <1>1, ScriptAssumption DEF ScriptCall, LineOK
    <2>2. Controller(Tester)
      BY <1>1, <2>1 DEF ScriptCall, Controller
    <2> QED BY <1>0, <1>1, <2>2 DEF ScriptCall, scriptVars, LineOK, Next
  <1>2. CASE ScriptReturn /\ UNCHANGED <<ringVars, workerVars, serverVars>>
    <2>1. Controller(Tester)
      BY <1>2 DEF ScriptReturn, Controller
    <2>2. line' = line + 1
      BY <1>2 DEF ScriptReturn
    <2> QED BY <1>0, <2>1, <2>2 DEF LineOK, Next
  <1>3. CASE ScriptRestart /\ UNCHANGED <<ringVars, workerVars, serverVars>>
    BY <1>3 DEF ScriptRestart, LineOK, vars
  <1>4. CASE /\ \/ \E t \in RpcThreads : HandleRpcs(t)
                \/ WorkerThread
                \/ \E c \in Clients : Transport(c)
             /\ UNCHANGED scriptVars
    BY <1>4 DEF scriptVars, LineOK, Next
  <1>5. ASSUME NEW c \in Clients \ {Tester}, OtherClient(c), UNCHANGED scriptVars
        PROVE  LineOK' /\ [Next]_vars
    BY <1>5, ScriptAssumption DEF OtherClient, Controller, scriptVars, LineOK, Next
  <1>6. CASE UNCHANGED <<vars, scriptVars>>
    BY <1>6 DEF scriptVars, LineOK
  <1> QED BY <1>1, <1>2, <1>3, <1>4, <1>5, <1>6 DEF ScriptNext, ScriptStep

(* The script run from its start to its end, any number of times, against  *)
(* one runtime with the worker that accepts everything, is answered what   *)
(* the comments of main expect, whatever the other clients ask in between  *)
(* that leaves the tables alone.                                           *)
THEOREM ScriptSeesExpected ==
  ASSUME OneServer, NoAlias, DistinctLists, OneTarget, NoneIsNoClient, WorkerSaysYes, QuietOthers
  PROVE  ScriptSpec => []ExpectedResults
  <1>1. ScriptInit => Init /\ LineOK /\ ScriptInv
    BY InitScriptInv DEF ScriptInit, LineOK
  <1>2. LineOK /\ [ScriptNext]_<<vars, scriptVars>> => LineOK' /\ [Next]_vars
    BY LineMoves
  <1>3. PlaneInv /\ ScriptInv /\ [ScriptNext]_<<vars, scriptVars>> => ScriptInv'
    BY NextScriptInv
  <1>4. ScriptInv => ExpectedResults
    BY DEF ScriptInv, ResultsOK
  <1> QED BY <1>1, <1>2, <1>3, <1>4, PlaneInvHolds, PTL DEF ScriptSpec, Spec
=============================================================================
