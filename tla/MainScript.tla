----------------------------- MODULE MainScript -----------------------------
(***************************************************************************)
(* The test client main.cc against a runtime: its RPC wrappers and the     *)
(* sequence of calls its main makes, with the results its comments expect. *)
(* The client is run again and again against the same runtime, and other   *)
(* clients may call in between (OtherRequests).                            *)
(***************************************************************************)
EXTENDS NfaRuntime

CONSTANTS
  Tester,      \* the client that runs main.cc
  SomeIp,      \* the rpc_ip all its views have: "192.168.1.1/30"
  OtherRequests   \* what the other clients send

ASSUME TesterAssumption ==
  /\ Tester \in Clients /\ SomeIp \in RpcIps \ LongIps /\ 80 \in RpcPorts
  /\ MyId = 1 /\ 1 .. 5 \subseteq WorkerIds /\ IntRange > 5

VARIABLES
  line,        \* the next call of the script, past its end when main returns
  results      \* the booleans its wrappers have returned

scriptVars == <<line, results>>

View_(id) ==
  [worker_id |-> id, mac |-> [i \in 1 .. MacLen |-> 0], rpc_ip |-> SomeIp, rpc_port |-> 80]

Plain(id) == [view |-> View_(id), inputs |-> <<>>, outputs |-> <<>>]

\* request and request2: worker_id 4 of its first view is set over by 5.
InputViews == <<2, 3>>

OutputViews == <<5, 3>>

ViewList(method, ids) ==
  [method |-> method, items |-> [i \in DOMAIN ids |-> Plain(ids[i])], quota |-> 0]

ById(method, id) == [method |-> method, items |-> <<Plain(id)>>, quota |-> 0]

WithLists(method, id) ==
  [method |-> method,
   items |-> <<[view |-> View_(id), inputs |-> InputViews, outputs |-> OutputViews]>>,
   quota |-> 0]

\* The calls of main, in order.
Script ==
  <<NoRequest,
    ViewList("AddInputView", InputViews),
    ViewList("AddOutputView", OutputViews),
    WithLists("SetMigrationTarget", 1),
    WithLists("AddReplicas", 3),
    WithLists("AddReplicas", 3),
    WithLists("DeleteReplicas", 3),
    WithLists("DeleteReplicas", 3),
    WithLists("AddReplicas", 3),
    ById("Recover", 3),
    ById("QueryRuntimeInfo", 1),
    ById("QueryRuntimeInfo", 2),
    ById("QueryRuntimeStat", 1),
    ById("QueryRuntimeStat", 2)>>

ASSUME ScriptAssumption ==
  OtherRequests \subseteq Requests /\ \A i \in DOMAIN Script : Script[i] \in Requests

\* "expect succeed result", "expect fail result", "expect succeed", "expect
\* fail", "add again" for the replicas; OK for the calls the comments do not
\* speak of, but for the queries to a runtime that is not this one.
Expected ==
  <<TRUE, TRUE, TRUE, TRUE, TRUE, FALSE, TRUE, FALSE, TRUE, TRUE, TRUE, FALSE, TRUE, FALSE>>

\* The wrappers for the view lists return true for any answer, the others
\* what succeed, ack or reply says.
ClientResult(r, a) == r.method \in ViewMethods \/ a.succeed

ScriptCall ==
  /\ line <= Len(Script)
  /\ CallRpc(Tester, Script[line])
  /\ UNCHANGED scriptVars

ScriptReturn ==
  /\ ReturnRpc(Tester)
  /\ results' = Append(results, ClientResult(call[Tester].req, call[Tester].answer))
  /\ line' = line + 1

\* The program has returned and is started once more.
ScriptRestart ==
  /\ line > Len(Script)
  /\ line' = 1 /\ results' = <<>>
  /\ UNCHANGED grpcVars

ScriptStep ==
  /\ ScriptCall \/ ScriptReturn \/ ScriptRestart
  /\ UNCHANGED <<ringVars, workerVars, serverVars>>

OtherClient(c) ==
  /\ ReturnRpc(c) \/ \E r \in OtherRequests : CallRpc(c, r)
  /\ UNCHANGED <<ringVars, workerVars, serverVars>>

ScriptInit == Init /\ line = 1 /\ results = <<>>

ScriptNext ==
  \/ ScriptStep
  \/ /\ \/ \E t \in RpcThreads : HandleRpcs(t)
        \/ WorkerThread
        \/ \E c \in Clients : Transport(c)
        \/ \E c \in Clients \ {Tester} : OtherClient(c)
     /\ UNCHANGED scriptVars

ScriptSpec ==
  /\ ScriptInit /\ [][ScriptNext]_<<vars, scriptVars>>
  /\ \A t \in RpcThreads : WF_vars(HandleRpcs(t) /\ UNCHANGED scriptVars)
  /\ WF_vars(WorkerThread /\ UNCHANGED scriptVars)
  /\ \A c \in Clients : SF_vars(Transport(c) /\ UNCHANGED scriptVars)
  /\ WF_<<vars, scriptVars>>(ScriptStep)

(* Every result main prints is the one expected, on a fresh runtime and on *)
(* one that has been through the script before.                            *)
ExpectedResults == \A i \in DOMAIN results : results[i] = Expected[i]

(* main returns: the test client is never left waiting.                    *)
MainReturns == line = 1 ~> line > Len(Script)
=============================================================================
