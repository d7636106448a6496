-------------------------------- MODULE Grpc --------------------------------
(***************************************************************************)
(* What the program uses of gRPC's asynchronous server.  An accepting      *)
(* handler object (an "acceptor") is created per method with RequestX; a   *)
(* call that meets an acceptor of its method becomes an event in the       *)
(* completion queue, and so does the completion of responder_.Finish.  The *)
(* library is external: it is modelled from its use in nfa_rpc_server.cc   *)
(* and main.cc.  The transport neither loses nor repeats a call.           *)
(***************************************************************************)
EXTENDS NfaMessages

CONSTANTS
  Clients,     \* controller threads, each with at most one call under way
  Requests     \* the requests they choose from

ASSUME RequestsAssumption == Requests \subseteq Request

VARIABLES
  call,        \* per client, its call: where it is, request and answer
  armed,       \* per method, the acceptors that wait for a call
  allocated,   \* per method, the handler objects not deleted yet
  cq           \* the completion queue

grpcVars == <<call, armed, allocated, cq>>

CallStates == {"idle", "sent", "queued", "running", "answered"}

Call == [st : CallStates, req : Request, answer : Answer]

Event == [kind : {"PROCESS", "FINISH"}, client : Clients, method : Methods]

NoCall == [st |-> "idle", req |-> NoRequest, answer |-> NoAnswer]

GrpcTypeOK ==
  /\ call \in [Clients -> Call]
  /\ armed \in [Methods -> Nat]
  /\ allocated \in [Methods -> Int]
  /\ cq \in Seq(Event)

GrpcInit ==
  /\ call = [c \in Clients |-> NoCall]
  /\ armed = [m \in Methods |-> 0]
  /\ allocated = [m \in Methods |-> 0]
  /\ cq = <<>>

\* The blocking stub of a client sends a request.
CallRpc(c, r) ==
  /\ call[c].st = "idle"
  /\ call' = [call EXCEPT ![c] = [st |-> "sent", req |-> r, answer |-> NoAnswer]]
  /\ UNCHANGED <<armed, allocated, cq>>

\* The stub returns the answer and the client drops it.
ReturnRpc(c) ==
  /\ call[c].st = "answered"
  /\ call' = [call EXCEPT ![c] = NoCall]
  /\ UNCHANGED <<armed, allocated, cq>>

\* The server side pairs a call with an acceptor of its method.
GrpcMatch(c) ==
  LET m == call[c].req.method IN
  /\ call[c].st = "sent"
  /\ armed[m] > 0
  /\ armed' = [armed EXCEPT ![m] = @ - 1]
  /\ call' = [call EXCEPT ![c].st = "queued"]
  /\ cq' = Append(cq, [kind |-> "PROCESS", client |-> c, method |-> m])
  /\ UNCHANGED allocated
=============================================================================
