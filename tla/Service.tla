-------------------------------- MODULE Service --------------------------------
(***************************************************************************)
(* What the process promises to its clients and to the supervisor that     *)
(* started it, with main, the goroutines and the handlers left out: a      *)
(* request is taken once and answered once, nobody is answered after the   *)
(* exit, and the exit status can be relied on for this much.               *)
(***************************************************************************)
EXTENDS ToolCalls

VARIABLES
  transport, \* what it was started with
  signalled, \* SIGINT or SIGTERM has come
  broken,    \* the listener, or the stream, has failed
  request,   \* request[c]: "none", "taken" or "answered"
  exit       \* "none", "clean" or "error"

vars == <<transport, signalled, broken, request, exit>>

Up     == exit = "none"
HTTP   == transport = "streamable-http"
Unused == \A c \in Calls : request[c] = "none"
AllAnswered == \A c \in Calls : request[c] # "taken"

Init ==
  /\ transport \in {"stdio", "streamable-http", "unknown"}
  /\ signalled = FALSE /\ broken = FALSE
  /\ request = [c \in Calls |-> "none"] /\ exit = "none"

Signal ==
  /\ Up /\ signalled' = TRUE
  /\ UNCHANGED <<transport, broken, request, exit>>

Break ==
  /\ Up /\ broken' = TRUE
  /\ UNCHANGED <<transport, signalled, request, exit>>

\* Also when the listener has failed: connections accepted before go on.
Take(c) ==
  /\ Up /\ request[c] = "none"
  /\ request' = [request EXCEPT ![c] = "taken"]
  /\ UNCHANGED <<transport, signalled, broken, exit>>

Answer(c) ==
  /\ Up /\ request[c] = "taken"
  /\ request' = [request EXCEPT ![c] = "answered"]
  /\ UNCHANGED <<transport, signalled, broken, exit>>

\* Success: an HTTP server that has been used was told to stop, and has
\* answered all it took; a stream has ended or was told to stop.
Succeed ==
  /\ Up /\ exit' = "clean"
  /\ IF HTTP THEN AllAnswered /\ (signalled \/ Unused) ELSE TRUE
  /\ broken => signalled
  /\ UNCHANGED <<transport, signalled, broken, request>>

\* Failure: something broke, the set-up failed, or an HTTP server that was
\* told to stop did not get its requests done in time.
Fail ==
  /\ Up /\ exit' = "error"
  /\ broken \/ Unused \/ (HTTP /\ signalled)
  /\ UNCHANGED <<transport, signalled, broken, request>>

Next == Signal \/ Break \/ (\E c \in Calls : Take(c) \/ Answer(c)) \/ Succeed \/ Fail

Spec == Init /\ [][Next]_vars
==============================================================================
