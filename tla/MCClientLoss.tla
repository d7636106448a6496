---------------------------- MODULE MCClientLoss ----------------------------
(* Values of the constants of ClientLoss for TLC. *)
EXTENDS ClientLoss, MCNfaRuntime

LossRequests == {NoRequest, Ids("AddInputView", <<2>>), Ids("QueryRuntimeInfo", <<1>>)}
=============================================================================
