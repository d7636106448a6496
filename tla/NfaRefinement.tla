---------------------------- MODULE NfaRefinement ----------------------------
(***************************************************************************)
(* With the one RPC thread that main starts, the runtime implements the    *)
(* control plane of ControlPlane.  An item takes effect when the worker    *)
(* answers it, which is before the handler takes the answer.               *)
(***************************************************************************)
EXTENDS NfaRuntime

\* The one thread.
Server == CHOOSE t \in RpcThreads : TRUE

\* Its item has been decided, and it has not seen it yet.
Decided == pc[Server] = "wait" /\ rte_ring_reply # <<>>

ShownAnswer(a) ==
  [succeed |-> a.succeed, quota |-> a.quota,
   views |-> [d \in Dirs |-> AnsweredKeys(a.views[d])], replicas |-> AnsweredKeys(a.replicas)]

ShownState(st) == IF st \in {"sent", "queued", "running"} THEN "asked" ELSE st

ShownCall ==
  [c \in Clients |-> [st |-> ShownState(call[c].st), req |-> call[c].req,
                      answer |-> ShownAnswer(call[c].answer)]]

ItemDecided == IF Decided THEN item[Server] + 1 ELSE item[Server]

\* The reply_ of a migration says before the decision what it will be.
Succeeded ==
  \/ Decided /\ Req(Server).method \notin ViewMethods /\ Head(rte_ring_reply).reply
  \/ /\ InCall(Server) /\ reply_[Server].succeed
     /\ ~ (pc[Server] = "wait" /\ Req(Server).method = "SetMigrationTarget")

Plane == INSTANCE ControlPlane WITH
  held <- acknowledged, call <- ShownCall, open <- cur[Server],
  item <- ItemDecided, succeeded <- Succeeded

(* The runtime implements the control plane: every call looks as if it was *)
(* carried out alone, each of its items at one moment and for good, and    *)
(* what it is told, of the worker's tables too, is how things stand at the *)
(* end of it.                                                              *)
IsControlPlane == Plane!Spec
=============================================================================
