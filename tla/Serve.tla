-------------------------------- MODULE Serve --------------------------------
(***************************************************************************)
(* The process (cmd/main.go) from the moment SIGINT and SIGTERM cancel its *)
(* root context: set-up, one of the two transports, shutdown, exit status. *)
(*                                                                         *)
(* Three parties: the main goroutine, in main; the one that runs           *)
(* StdioServer.Listen or http.Server.ListenAndServe, in server; and the    *)
(* handlers of the requests, of which only this is told here: a request is *)
(* received, its handler runs, and its response is written to a client     *)
(* that may be slow to read it, or stop reading (there is no WriteTimeout). *)
(* What the handlers do meanwhile is module EnvoyTools.                    *)
(*                                                                         *)
(* Neither mcp-go nor net/http is part of the repository: Listen and       *)
(* Shutdown are modelled from how main.go uses them.  Listen may handle    *)
(* any number of requests at once and may end with some in flight; the     *)
(* connections that net/http has accepted outlive its listener, whether    *)
(* Shutdown closed that or it failed.                                      *)
(***************************************************************************)
EXTENDS ToolCalls

CONSTANT Options  \* the flags the process is started with

Transports == {"stdio", "streamable-http", "unknown"}
OptionSet  == [transport : Transports, version : BOOLEAN]

ASSUME OptionsAssumption == Options \subseteq OptionSet

VARIABLES
  options, \* how it was started
  main,    \* where run is
  ctxDone, \* the root context is cancelled, and with it every request's
  server,  \* where the serving goroutine is, and what errCh holds when it ended:
           \* "ended", or "failed" or "broken" for an error, the latter if
           \* connections were accepted before
  call,    \* call[c]: how far request c has come
  exit     \* the exit status of the process

serveVars == <<options, main, ctxDone, server, call, exit>>

Stdio == options.transport = "stdio"
HTTP  == options.transport = "streamable-http"
Up    == main # "exited"
Broke == server \in {"failed", "broken"}

ServeTypeOK ==
  /\ options \in Options
  /\ main \in {"starting", "selecting", "draining", "exited"}
  /\ ctxDone \in BOOLEAN
  /\ server \in {"none", "starting", "serving", "closing", "closed", "ended",
                 "failed", "broken"}
  /\ call \in [Calls -> {"none", "running", "writing", "answered"}]
  /\ exit \in {"none", "clean", "error"}

ServeInit ==
  /\ options \in Options
  /\ main = "starting" /\ ctxDone = FALSE
  /\ server = "none" /\ call = [c \in Calls |-> "none"] /\ exit = "none"

------------------------------------------------------------------------------
(* The main goroutine.                                                     *)

Exit(status) ==
  /\ main' = "exited" /\ exit' = status
  /\ UNCHANGED <<options, ctxDone, server, call>>

ShowVersion == main = "starting" /\ options.version /\ Exit("clean")

\* NewClient fails, or the transport is none.
SetupFails == main = "starting" /\ ~options.version /\ Exit("error")

StartServing ==
  /\ main = "starting" /\ ~options.version /\ (Stdio \/ HTTP)
  /\ main' = "selecting" /\ server' = "starting"
  /\ UNCHANGED <<options, ctxDone, call, exit>>

\* The select finds the context done.  serveStdio returns there and then;
\* serveHTTP goes on to Shutdown, which closes the listener first.
StopStdio == main = "selecting" /\ ctxDone /\ Stdio /\ Exit("clean")
BeginShutdown ==
  /\ main = "selecting" /\ ctxDone /\ HTTP
  /\ main' = "draining"
  /\ server' = CASE server = "starting" -> "closed"
                 [] server = "serving"  -> "closing"
                 [] OTHER               -> server
  /\ UNCHANGED <<options, ctxDone, call, exit>>

\* Mutant: the end of the stream is an error like any other.
SelectAnyError ==
  main = "selecting" /\ (server = "ended" \/ Broke) /\ Exit("error")

\* Mutant: what the goroutine ended with is returned as it is.
SelectAsReported ==
  main = "selecting" /\ (server = "ended" \/ Broke) /\ Exit(server)

\* The select finds the serving goroutine over.  The end of the stream, and
\* the context's error, are normal.
SelectErr ==
  /\ main = "selecting"
  /\ \/ server = "ended" /\ Exit("clean")
     \/ Broke /\ Exit("error")

\* Mutant: srv.Close() in place of Shutdown.
DrainedAtOnce == main = "draining" /\ Exit("clean")

\* Shutdown returns when no request is being handled or answered.
Drained ==
  /\ main = "draining"
  /\ \A c \in Calls : call[c] \in {"none", "answered"}
  /\ Exit("clean")

\* Mutant: Shutdown is given a context without a timeout.
NeverTimesOut == FALSE /\ Exit("error")

\* Mutant: the error of Shutdown is dropped.
TimeoutIgnored == main = "draining" /\ Exit("clean")

\* The 10 s of Shutdown are over: "graceful shutdown: ...".
ShutdownTimeout == main = "draining" /\ Exit("error")

Main ==
  \/ ShowVersion \/ SetupFails \/ StartServing
  \/ StopStdio \/ BeginShutdown \/ SelectErr \/ Drained

------------------------------------------------------------------------------
(* The rest of the world.                                                  *)

\* -version is served before NotifyContext; a signal then just kills.
Signal ==
  /\ Up /\ ~ctxDone /\ ~options.version
  /\ ctxDone' = TRUE
  /\ UNCHANGED <<options, main, server, call, exit>>

Becomes(s) ==
  Up /\ server' = s /\ UNCHANGED <<options, main, ctxDone, call, exit>>

Listening == server = "starting" /\ Becomes("serving")

\* Standard input ends, or Listen sees its context done.
StreamEnds == Stdio /\ server = "serving" /\ Becomes("ended")

\* The address is in use, the stream breaks, or no more connections can be
\* accepted: ListenAndServe returns, and those there are stay.
ServerFails ==
  \/ server = "starting" /\ Becomes("failed")
  \/ server = "serving" /\ Becomes(IF HTTP THEN "broken" ELSE "failed")

Advance(c, from, to) ==
  /\ Up /\ call[c] = from
  /\ call' = [call EXCEPT ![c] = to]
  /\ UNCHANGED <<options, main, ctxDone, server, exit>>

\* A connection accepted before the listener was closed, or failed, may still
\* bring a request.
Receive(c) ==
  server \in {"serving", "closing", "broken"} /\ Advance(c, "none", "running")
Finish(c)  == Advance(c, "running", "writing")

\* The client has read the response, or has gone.
Respond(c) == Advance(c, "writing", "answered")

World ==
  \/ Signal \/ Listening \/ StreamEnds \/ ServerFails \/ ShutdownTimeout
  \/ \E c \in Calls : Respond(c)

ServeNext == Main \/ World \/ \E c \in Calls : Receive(c) \/ Finish(c)

------------------------------------------------------------------------------
(* Properties.                                                             *)

Owed(c) == call[c] \in {"running", "writing"}

\* "Root context cancelled on SIGINT/SIGTERM so both transports shut down
\* gracefully" (main.go:71-72): after a signal the process does not report
\* success while it leaves requests without their answers.
GracefulShutdown ==
  exit = "clean" /\ ctxDone => \A c \in Calls : ~Owed(c)

\* The exit status tells a supervisor what happened: a failed listener or
\* stream is reported, unless a signal came too and the select took that
\* (main.go:188-192); and once serving, an error is that, or the timeout of an
\* HTTP shutdown: the end of the stream is none (main.go:143-147).
ExitStatusTells ==
  /\ exit = "clean" /\ Broke => ctxDone
  /\ exit = "error" => server = "none" \/ Broke \/ (HTTP /\ ctxDone)
==============================================================================
