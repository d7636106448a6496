---------------------------- MODULE ControlPlane ----------------------------
(***************************************************************************)
(* What a runtime promises to the clients that call it.  Calls are carried *)
(* out one at a time, and the items of a call one after the other: each is *)
(* objected to for a reason that holds at that moment, or put before the   *)
(* worker, and then changes what the worker holds at once or not at all.   *)
(* The answer says what has happened, and shows what the worker holds.     *)
(***************************************************************************)
EXTENDS NfaMessages

CONSTANTS Clients, Requests, Verdicts

VARIABLES
  held,        \* per table, the keys in it
  call,        \* per client, its call
  open,        \* the client whose call is being carried out, or None
  item,        \* the item it is at
  succeeded    \* whether an item of it has, where the answer will say so

vars == <<held, call, open, item, succeeded>>

Tables == Dirs \cup {"replica"}

KeyOf(it) == ToInt(it.view.worker_id)

NothingShown == [succeed |-> FALSE, quota |-> 0, views |-> [d \in Dirs |-> {}], replicas |-> {}]

NoCall == [st |-> "idle", req |-> NoRequest, answer |-> NothingShown]

Init ==
  /\ held = [b \in Tables |-> {}]
  /\ call = [c \in Clients |-> NoCall]
  /\ open = None /\ item = 1 /\ succeeded = FALSE

\* A migration or a replica needs the views that both sides have.
SameLists(it) == Keys(it.inputs) = held["input"] /\ Keys(it.outputs) = held["output"]

Objectionable(m, it) ==
  \/ \E d \in Dirs : \/ m = AddMethod[d] /\ KeyOf(it) \in held[d]
                     \/ m = DeleteMethod[d] /\ KeyOf(it) \notin held[d]
  \/ m \in {"SetMigrationTarget"} \cup QueryMethods /\ KeyOf(it) # MyId
  \/ m \in ReplicaMethods /\ KeyOf(it) = MyId
  \/ m = "AddReplicas" /\ KeyOf(it) \in held["replica"]
  \/ m \in {"DeleteReplicas", "Recover"} /\ KeyOf(it) \notin held["replica"]
  \/ m \in {"SetMigrationTarget", "AddReplicas"} /\ ~ SameLists(it)

\* The keys of table b after an item of a call of m.
Changed(m, it, b) ==
  CASE m = "AddReplicas" /\ b = "replica" -> held[b] \cup {KeyOf(it)}
    [] m \in {"DeleteReplicas", "Recover"} /\ b = "replica" -> held[b] \ {KeyOf(it)}
    [] b \in Dirs /\ m = AddMethod[b] -> held[b] \cup {KeyOf(it)}
    [] b \in Dirs /\ m = DeleteMethod[b] -> held[b] \ {KeyOf(it)}
    [] OTHER -> held[b]

Ask(c, r) ==
  /\ call[c].st = "idle"
  /\ call' = [call EXCEPT ![c] = [st |-> "asked", req |-> r, answer |-> NothingShown]]
  /\ UNCHANGED <<held, open, item, succeeded>>

Open(c) ==
  /\ open = None /\ call[c].st = "asked"
  /\ open' = c
  /\ UNCHANGED <<held, call, item, succeeded>>

Method == call[open].req.method

Items == call[open].req.items

Object ==
  /\ open # None /\ item <= Len(Items)
  /\ Objectionable(Method, Items[item])
  /\ item' = item + 1
  /\ UNCHANGED <<held, call, open, succeeded>>

Decide ==
  /\ open # None /\ item <= Len(Items)
  /\ ~ Objectionable(Method, Items[item])
  /\ \E verdict \in Verdicts :
       /\ held' = IF verdict THEN [b \in Tables |-> Changed(Method, Items[item], b)] ELSE held
       /\ succeeded' = (succeeded \/ (verdict /\ Method \notin ViewMethods))
  /\ item' = item + 1
  /\ UNCHANGED <<call, open>>

\* What is shown depends on the method.
Shown ==
  [succeed |-> succeeded \/ Method = "LivenessCheck",
   quota |-> IF succeeded /\ Method = "SetMigrationTarget" THEN call[open].req.quota ELSE 0,
   views |-> [d \in Dirs |-> IF Method \in ViewMethods THEN held[d] ELSE {}],
   replicas |-> IF Method \in {"AddReplicas", "DeleteReplicas"} THEN held["replica"] ELSE {}]

Reply ==
  /\ open # None
  /\ item > Len(Items) \/ Method = "LivenessCheck"
  /\ call' = [call EXCEPT ![open].st = "answered", ![open].answer = Shown]
  /\ open' = None /\ item' = 1 /\ succeeded' = FALSE
  /\ UNCHANGED held

Return(c) ==
  /\ call[c].st = "answered"
  /\ call' = [call EXCEPT ![c] = NoCall]
  /\ UNCHANGED <<held, open, item, succeeded>>

Next ==
  \/ \E c \in Clients : Open(c) \/ Return(c) \/ \E r \in Requests : Ask(c, r)
  \/ Object \/ Decide \/ Reply

Spec == Init /\ [][Next]_vars
=============================================================================
