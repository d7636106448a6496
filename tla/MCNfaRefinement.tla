-------------------------- MODULE MCNfaRefinement --------------------------
(* Values of the constants of NfaRefinement for TLC. *)
EXTENDS NfaRefinement, MCNfaRuntime

\* Requests of every kind that get into each other's way, and an empty one.
PlaneRequests ==
  {Ids("AddInputView", <<2, 10>>), Ids("DeleteInputView", <<2>>),
   Migrate(1, <<2>>, <<>>, 7), Migrate(2, <<>>, <<>>, 7),
   R("AddReplicas", <<I(3, <<2>>, <<>>), I(2, <<>>, <<>>)>>),
   R("AddReplicas", <<>>),
   Ids("DeleteReplicas", <<2>>), Ids("Recover", <<3>>), Ids("QueryRuntimeInfo", <<1>>)}
=============================================================================
