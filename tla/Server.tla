-------------------------------- MODULE Server --------------------------------
(***************************************************************************)
(* The whole process: the transports and the life cycle of Serve, the      *)
(* handlers of EnvoyTools, and the root context that a signal cancels      *)
(* under them.  A handler starts when its request is received and returns  *)
(* when its response is handed to the transport.                           *)
(***************************************************************************)
EXTENDS Serve, EnvoyTools

vars == <<serveVars, toolVars>>

TypeOK == ServeTypeOK /\ ToolsTypeOK

Init == ServeInit /\ ToolsInit

Start(c)  == Receive(c) /\ Begin(c)
Handle(c) == Up /\ Continues(c) /\ UNCHANGED serveVars
Return(c) == Finish(c) /\ Returns(c)

\* Mutant: without BaseContext, HTTP requests do not have the root context.
CancelledInStdio(c) == ctxDone /\ Stdio /\ Finish(c) /\ GivesUp(c)

\* Requests inherit the root context, by Listen or by BaseContext.
Cancelled(c) == ctxDone /\ Finish(c) /\ GivesUp(c)

RunMain  == Main /\ UNCHANGED toolVars
TimeOut  == ShutdownTimeout /\ UNCHANGED toolVars
Outside  == World /\ UNCHANGED toolVars
Finished == ~Up /\ UNCHANGED vars

Next ==
  \/ RunMain \/ Outside \/ Finished
  \/ \E c \in Calls : Start(c) \/ Handle(c) \/ Return(c) \/ Cancelled(c)

Spec == Init /\ [][Next]_vars

\* The main goroutine runs, and so do handlers whose context is cancelled.
\* Neither a request, nor its target, nor the reader of its response, nor the
\* timer of Shutdown is owed anything here.
FairSpec == Spec /\ WF_vars(RunMain) /\ \A c \in Calls : WF_vars(Cancelled(c))

------------------------------------------------------------------------------
(* Properties.                                                             *)

\* An HTTP server that exits with success has answered every request that it
\* received, and told every tunnel to stop (main.go:195-198).
GracefulHTTP ==
  HTTP /\ exit = "clean" =>
    \A c \in Calls : ~Owed(c) /\ lease[c] # "held"

\* Module Service is what clients and supervisor may rely on, over both
\* transports: the whole process keeps to it, set-up, select, shutdown and
\* handlers together (main.go:39-200).
Contract == INSTANCE Service WITH
  transport <- options.transport,
  signalled <- ctxDone,
  broken    <- Broke,
  request   <- [c \in Calls |->
                  IF call[c] \in {"running", "writing"} THEN "taken" ELSE call[c]]
ImplementsService == Contract!Spec

\* A signal ends the process, whatever targets and clients do, given only
\* that the timer of Shutdown fires (main.go:193).
SignalEndsProcess == WF_vars(TimeOut) => (ctxDone ~> ~Up)

\* And that timer is needed only for a client that does not read its response:
\* a handler that waits for a pod, or a stream of events kept open, ends with
\* the context it has from BaseContext (main.go:177).
ShutdownWaitsForReaders ==
  ctxDone ~> ~Up \/ [](\E c \in Calls : call[c] = "writing")
==============================================================================
