------------------------------- MODULE Rings -------------------------------
(***************************************************************************)
(* The two rings between the RPC threads and the worker thread, each a     *)
(* moodycamel::ConcurrentQueue used through enqueue and try_dequeue only.  *)
(* Such a queue keeps one FIFO sub-queue per producing thread, and a       *)
(* dequeue takes the head of any of them: messages of one thread stay in   *)
(* order, messages of different threads do not.  A try_dequeue that finds  *)
(* nothing changes nothing; the polling loops around it just spin.  An     *)
(* enqueue that finds no memory returns false and leaves the queue alone.  *)
(***************************************************************************)
EXTENDS NfaMessages

CONSTANTS
  RpcThreads,      \* the threads that run HandleRpcs: one in main
  EnqueueResults   \* what enqueue may return: FALSE too where memory may run out

ASSUME RingsAssumption == EnqueueResults \subseteq BOOLEAN

VARIABLES
  rte_ring_request,   \* per RPC thread, the messages it has thrown
  rte_ring_reply      \* the worker thread is the only producer

ringVars == <<rte_ring_request, rte_ring_reply>>

RingsTypeOK ==
  /\ rte_ring_request \in [RpcThreads -> Seq(RequestMsg(RpcThreads))]
  /\ rte_ring_reply \in Seq(ReplyMsg(RpcThreads))

RingsInit ==
  /\ rte_ring_request = [t \in RpcThreads |-> <<>>]
  /\ rte_ring_reply = <<>>

\* The result of enqueue is ignored.
ThrowRequest(t, msg) ==
  /\ \E ok \in EnqueueResults :
       rte_ring_request' =
         [rte_ring_request EXCEPT ![t] = IF ok THEN Append(@, msg) ELSE @]
  /\ UNCHANGED rte_ring_reply

TakeRequest(t) ==
  /\ rte_ring_request[t] # <<>>
  /\ rte_ring_request' = [rte_ring_request EXCEPT ![t] = Tail(@)]

PutReply(msg) ==
  /\ \E ok \in EnqueueResults :
       rte_ring_reply' = IF ok THEN Append(rte_ring_reply, msg) ELSE rte_ring_reply
  /\ UNCHANGED rte_ring_request

TakeReply ==
  /\ rte_ring_reply # <<>>
  /\ rte_ring_reply' = Tail(rte_ring_reply)
  /\ UNCHANGED rte_ring_request
============================================================================
