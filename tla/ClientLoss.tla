----------------------------- MODULE ClientLoss -----------------------------
(***************************************************************************)
(* The runtime with clients that may go away in the middle of a call: the  *)
(* test client is stopped, or its connection breaks.  The server does not  *)
(* ask whether a client is still there.  What it finds out is that the     *)
(* answer could not be sent: the completion of Finish comes out of the     *)
(* queue with ok false, and the assertion on ok ends the process.          *)
(***************************************************************************)
EXTENDS NfaRuntime

VARIABLES
  gone,       \* the clients that have gone away
  oks,        \* per event in the completion queue, what Next gives for ok
  aborted     \* the process of the runtime has ended

lossVars == <<gone, oks, aborted>>

LossInit == Init /\ gone = {} /\ oks = <<>> /\ aborted = FALSE

\* An event that enters the queue.  The answer to a client that has gone may
\* still have been sent.
Added(e) ==
  \E ok \in {TRUE, e.kind = "PROCESS" \/ e.client \notin gone} : oks' = Append(oks, ok)

EventsFollow ==
  \/ Len(cq') > Len(cq) /\ Added(cq'[Len(cq')])
  \/ Len(cq') < Len(cq) /\ oks' = Tail(oks)
  \/ Len(cq') = Len(cq) /\ UNCHANGED oks

\* Next gives an event and GPR_ASSERT(ok) lets it pass, or the handler that
\* is at work goes on.
Serve(t) ==
  /\ ~ aborted
  /\ pc[t] = "next" => oks # <<>> /\ Head(oks)
  /\ HandleRpcs(t)
  /\ EventsFollow /\ UNCHANGED <<gone, aborted>>

Work == ~ aborted /\ WorkerThread /\ UNCHANGED lossVars

\* GPR_ASSERT(ok)
Abort(t) ==
  /\ ~ aborted
  /\ pc[t] = "next" /\ oks # <<>> /\ ~ Head(oks)
  /\ aborted' = TRUE
  /\ UNCHANGED <<vars, gone, oks>>

GoAway(c) ==
  /\ c \notin gone /\ call[c].st \in {"sent", "queued", "running"}
  /\ gone' = gone \cup {c}
  /\ UNCHANGED <<vars, oks, aborted>>

\* "RPC failed": the runtime is not there any more.
FailRpc(c) ==
  /\ aborted /\ call[c].st # "idle"
  /\ call' = [call EXCEPT ![c] = NoCall]
  /\ UNCHANGED <<armed, allocated, cq, ringVars, workerVars, serverVars, lossVars>>

\* A client with a call under way blocks until it has its answer.
Stay(c) ==
  /\ c \notin gone
  /\ \/ ReturnRpc(c) /\ UNCHANGED <<ringVars, workerVars, serverVars, lossVars>>
     \/ FailRpc(c)

Ask(c) ==
  /\ c \notin gone
  /\ \E r \in Requests : CallRpc(c, r)
  /\ UNCHANGED <<ringVars, workerVars, serverVars, lossVars>>

Deliver(c) ==
  /\ ~ aborted /\ Transport(c)
  /\ EventsFollow /\ UNCHANGED <<gone, aborted>>

LossNext ==
  \/ \E t \in RpcThreads : Serve(t) \/ Abort(t)
  \/ Work
  \/ \E c \in Clients : GoAway(c) \/ Stay(c) \/ Ask(c) \/ Deliver(c)

LossSpec == LossInit /\ [][LossNext]_<<vars, lossVars>>

\* As in NfaRuntime; and a client that stays takes its answer.
FairLossSpec ==
  /\ LossSpec
  /\ \A t \in RpcThreads : WF_<<vars, lossVars>>(Serve(t) \/ Abort(t))
  /\ WF_<<vars, lossVars>>(Work)
  /\ \A c \in Clients : SF_<<vars, lossVars>>(c \notin gone /\ Deliver(c))
  /\ \A c \in Clients : WF_<<vars, lossVars>>(Stay(c))

----------------------------------------------------------------------------
(* Properties. *)

(* A call a handler has begun is carried out to its answer, although its   *)
(* client may have gone and an answer that could not be sent ends the      *)
(* process: none is left half done.                                        *)
BegunCallsFinish ==
  \A c \in Clients : (call[c].st = "running") ~> (call[c].st = "answered")

(* The call of a client that stays is answered or fails, whatever becomes  *)
(* of the others: a handler does not wait for a client that is not there.  *)
CallsEnd == \A c \in Clients : (call[c].st # "idle") ~> (call[c].st = "idle" \/ c \in gone)
=============================================================================
