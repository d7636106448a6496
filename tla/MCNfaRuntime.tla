---------------------------- MODULE MCNfaRuntime ----------------------------
(* Values of the constants of NfaRuntime for TLC. *)
EXTENDS NfaRuntime, TLC

CONSTANTS c1, c2, ip, longIp

Sym == Permutations(Clients)

\* A view with a complete MAC text, and a request item for it.
V(id) == [worker_id |-> id, mac |-> [i \in 1 .. MacLen |-> 0], rpc_ip |-> ip, rpc_port |-> 80]

I(id, ins, outs) == [view |-> V(id), inputs |-> ins, outputs |-> outs]

R(m, items) == [method |-> m, items |-> items, quota |-> 0]

Ids(m, ids) == R(m, [i \in DOMAIN ids |-> I(ids[i], <<>>, <<>>)])

Migrate(id, ins, outs, q) ==
  [method |-> "SetMigrationTarget", items |-> <<I(id, ins, outs)>>, quota |-> q]

\* Lists of one and two items, present and absent, with an id that becomes
\* the key 2 when it is truncated (IntRange = 8); targets and replicas that
\* match the lists in some states and not in others.
HandlerRequests ==
  {NoRequest,
   Ids("AddInputView", <<2, 3>>), Ids("AddInputView", <<3, 10>>),
   Ids("DeleteInputView", <<3, 2>>), Ids("DeleteInputView", <<10>>),
   Ids("AddOutputView", <<3>>), Ids("DeleteOutputView", <<2, 3>>),
   Migrate(1, <<3, 2>>, <<3>>, 7), Migrate(2, <<>>, <<>>, 7), Migrate(1, <<3>>, <<>>, 7),
   R("AddReplicas", <<I(1, <<>>, <<>>), I(2, <<>>, <<>>), I(3, <<2>>, <<3>>)>>),
   R("AddReplicas", <<I(3, <<3>>, <<>>), I(2, <<2, 3>>, <<3>>)>>),
   Ids("DeleteReplicas", <<2, 1, 3>>),
   Ids("Recover", <<3>>), Ids("Recover", <<1>>),
   Ids("QueryRuntimeInfo", <<1>>), Ids("QueryRuntimeInfo", <<2>>),
   Ids("QueryRuntimeStat", <<1>>)}

\* A few requests that get into each other's way when two clients call.
ClientRequests ==
  {Ids("AddInputView", <<2>>), Ids("DeleteInputView", <<10, 2>>),
   R("AddReplicas", <<I(3, <<2>>, <<>>), I(2, <<>>, <<>>)>>),
   Ids("DeleteReplicas", <<2>>), Ids("Recover", <<3>>),
   Ids("QueryRuntimeInfo", <<1>>)}

\* One request of each kind of handler, for the runs with more behaviours.
FewRequests ==
  {NoRequest, Ids("AddInputView", <<2>>), Ids("DeleteInputView", <<10>>),
   R("AddReplicas", <<I(2, <<>>, <<>>)>>), Ids("QueryRuntimeInfo", <<1>>)}

\* Complete and incomplete MAC texts (MacLen = 2, ByteRange = 2), and an
\* address that does not fit.
MacView(id, text) == [worker_id |-> id, mac |-> text, rpc_ip |-> longIp, rpc_port |-> 81]

MacItem(id, text) == [view |-> MacView(id, text), inputs |-> <<>>, outputs |-> <<>>]

MacRequests ==
  {R("AddInputView", <<MacItem(2, <<0, 1>>), MacItem(3, <<1>>)>>),
   R("AddInputView", <<MacItem(3, <<1, 1>>)>>),
   R("DeleteInputView", <<MacItem(2, <<>>), MacItem(3, <<>>)>>),
   R("AddReplicas", <<MacItem(2, <<0>>)>>)}

\* Both.
AllRequests == HandlerRequests \cup MacRequests

\* Input lists that name one view twice.
DuplicateRequests ==
  {Ids("AddInputView", <<2, 3>>), Migrate(1, <<3, 3>>, <<>>, 7)}

\* An id that is not MyId but has its key.
WideRequests ==
  {R("AddReplicas", <<I(1, <<>>, <<>>), I(9, <<>>, <<>>)>>), Ids("AddInputView", <<2>>)}
=============================================================================
