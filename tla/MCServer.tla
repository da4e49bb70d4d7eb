------------------------------- MODULE MCServer -------------------------------
(***************************************************************************)
(* Small instances of Server for TLC.                                      *)
(***************************************************************************)
EXTENDS Server

\* Both transports, none, and -version.
MCOptions ==
  [transport : Transports, version : {FALSE}]
    \cup [transport : {"stdio"}, version : {TRUE}]

\* One tool of each kind: a page, a page with arguments that may be refused,
\* and the one that turns an error into an answer.
MCRequests ==
  {[tool |-> "ready"], [tool |-> "listeners"],
   [tool |-> "config_dump", type |-> "unheard-of"]}

MCStdio == {[transport |-> "stdio", version |-> FALSE]}
MCReady == {[tool |-> "ready"]}

\* A filter and a format at once.
MCStats == [tool : {"stats"}, filter : {"marked"}, format : {"prometheus"}]
==============================================================================
