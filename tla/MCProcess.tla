------------------------------ MODULE MCProcess ------------------------------
(***************************************************************************)
(* A small instance of Process for TLC: the HTTP transport, and one tool.  *)
(***************************************************************************)
EXTENDS Process

MCOptions == {[transport |-> "streamable-http", version |-> FALSE]}

MCRequests == {[tool |-> "listeners"]}
==============================================================================
