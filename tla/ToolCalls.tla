------------------------------ MODULE ToolCalls ------------------------------
(***************************************************************************)
(* What the transports (Serve) and the handlers (EnvoyTools) have in       *)
(* common: the tool calls of a behaviour, each made once.                  *)
(***************************************************************************)
CONSTANT Calls
==============================================================================
