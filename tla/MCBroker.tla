------------------------------ MODULE MCBroker ------------------------------
(***************************************************************************)
(* Instances of Broker for TLC.  The bridge keeps at least 32 tombstones   *)
(* and 100 recent requests; the limits here are small enough for eviction  *)
(* to happen within MaxInvocations.                                        *)
(***************************************************************************)
EXTENDS Broker, TLC

CONSTANTS c1, c2, tool, prompt
MCConnections == {c1, c2}
MCKinds == {tool, prompt}
MCBrowserErrors == {"INVOCATION_TIMEOUT", "HANDLER_ERROR"}
MCSymmetry == Permutations(MCConnections) \cup Permutations(MCKinds)
=============================================================================
