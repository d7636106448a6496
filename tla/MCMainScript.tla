---------------------------- MODULE MCMainScript ----------------------------
(* Values of the constants of MainScript for TLC. *)
EXTENDS MainScript

CONSTANT ip

\* Calls of another client that leave the tables as they are.
QuietRequests ==
  {NoRequest, ById("QueryRuntimeInfo", 1), ById("Recover", 1), ById("AddReplicas", 1)}

AllRequests == QuietRequests \cup {Script[i] : i \in DOMAIN Script}
=============================================================================
