------------------------------- MODULE Process -------------------------------
(***************************************************************************)
(* The process as it runs: the transports and the life cycle of Serve, the *)
(* handlers of EnvoyTools, and under each handler the admin call itself,   *)
(* with its goroutines, channels and local ports, in place of the lease    *)
(* that Server knows of it.                                                *)
(*                                                                         *)
(* All three have models of their own, whose actions are conjoined here: a *)
(* handler calls AdminClient (Ask), returns with the result of the call    *)
(* (Return), and is cancelled through the context that it hands down.      *)
(***************************************************************************)
EXTENDS ToolCalls

CONSTANTS
  Options,                                        \* of Serve
  Requests,                                       \* of EnvoyTools
  Pods, DirectURL, DefaultURL, NoTarget, Unanswered, Failed,
  LocalPorts, HasBaseURL, Nobody                  \* of AdminCall

VARIABLES
  options, main, ctxDone, server, call, exit,  \* of Serve
  request, place,                                      \* of EnvoyTools
  pc, target, cancelled, fw, fwErr, stopCh, readyCh, errCh, localPort,
  listener, conn, answer  \* of AdminCall; cancelled[c] is its ctxDone[c]

Admin == INSTANCE AdminCall WITH ctxDone <- cancelled

\* The process as Server has it, which sees the lease of a call only.
Tools == INSTANCE Server WITH
  phase <- [c \in Calls |-> Admin!Phase(c)],
  lease <- [c \in Calls |-> Admin!LeaseState(c)],
  reply <- [c \in Calls |-> Admin!Reply(c)]

\* What the three modules assume of their constants.
ASSUME ConstantsAssumption ==
  /\ Options \subseteq Tools!OptionSet /\ Requests \subseteq Tools!AllRequests
  /\ HasBaseURL \in BOOLEAN
  /\ DirectURL # DefaultURL /\ NoTarget \notin Admin!URLs /\ Unanswered # Failed
  /\ Pods \cap (Admin!URLs \cup {NoTarget, Unanswered, Failed}) = {}
  /\ Admin!URLs \cap {Unanswered, Failed} = {}
  /\ Nobody \notin Calls \cup LocalPorts \cup Admin!URLs
  /\ Calls \cap Admin!URLs = {}

serveVars   == <<options, main, ctxDone, server, call, exit>>
handlerVars == <<request, place>>
callVars    == <<pc, target, cancelled, fw, fwErr, stopCh, readyCh, errCh,
                 localPort, listener, conn, answer>>
vars        == <<serveVars, handlerVars, callVars>>

Init ==
  /\ Tools!ServeInit
  /\ request \in [Calls -> Requests]
  /\ place = [c \in Calls |-> "idle"]
  /\ Admin!Init

------------------------------------------------------------------------------
(* The main goroutine and the rest of the world.                           *)

RunMain == Tools!Main /\ UNCHANGED <<handlerVars, callVars>>
Outside == Tools!World /\ UNCHANGED <<handlerVars, callVars>>

\* Nothing else of the process runs after its exit.
Finished == ~Tools!Up /\ UNCHANGED vars

------------------------------------------------------------------------------
(* The handlers.                                                           *)

\* A request is received, and its handler called.
Start(c) ==
  /\ Tools!Receive(c)
  /\ Tools!Move(c, "idle", "target")
  /\ UNCHANGED callVars

\* envoyTarget returns an error, or the arguments are refused.
Refuse(c) ==
  /\ Tools!Finish(c)
  /\ Tools!Move(c, "target", "returned")
  /\ UNCHANGED callVars

\* envoyTarget returns a target, and AdminClient is called with it.
Ask(c, t) ==
  /\ Tools!Up /\ Tools!Valid(request[c])
  /\ Tools!Move(c, "target", "request")
  /\ Admin!Call(c, t)
  /\ UNCHANGED serveVars

Below == Tools!Up /\ UNCHANGED <<serveVars, handlerVars>>

\* The admin call goes on, its handler waiting for it.
Work(c) == Admin!Handler(c) /\ pc'[c] # "returned" /\ Below

\* Mutant: the response is written before the deferred clean-up has run.
ReturnUncleaned(c) ==
  /\ pc[c] = "cleanup" /\ pc' = [pc EXCEPT ![c] = "returned"]
  /\ UNCHANGED <<target, cancelled, fw, fwErr, stopCh, readyCh, errCh, localPort,
                 listener, conn, answer>>
  /\ Tools!Finish(c) /\ Tools!Move(c, "request", "returned")

\* It returns, and with it the handler.
Return(c) ==
  /\ Admin!Handler(c) /\ pc'[c] = "returned"
  /\ Tools!Finish(c) /\ Tools!Move(c, "request", "returned")

\* Its ForwardPorts goroutine runs on, when the call is over too.
Serve(c)  == Admin!Serve(c) /\ Below
Tunnel(c) ==
  Serve(c) \/ ((Admin!DialEnds(c) \/ Admin!LoseConnection(c)) /\ Below)

\* Mutant: without BaseContext only the stdio transport hands the root context
\* down.
InheritInStdio(c) == ctxDone /\ Tools!Stdio /\ Admin!Cancel(c) /\ Below

\* The root context is done, and so is the one derived from it.
Inherit(c) == ctxDone /\ Admin!Cancel(c) /\ Below

\* The client of this call is gone.
Disconnect(c) == Admin!Cancel(c) /\ Below

Handle(c) ==
  \/ \E t \in Tools!Targets : Ask(c, t)
  \/ Work(c) \/ Inherit(c) \/ Disconnect(c)

Next ==
  \/ RunMain \/ Outside \/ Finished
  \/ \E c \in Calls :
       Start(c) \/ Refuse(c) \/ Handle(c) \/ Return(c) \/ Tunnel(c)

Spec == Init /\ [][Next]_vars

\* The goroutines run: the main one, the handlers in their admin calls, and
\* those of the tunnels once they have dialled.  A context that is done is
\* passed on, and ends the API requests of envoyTarget.
FairSpec ==
  /\ Spec
  /\ WF_vars(RunMain)
  /\ \A c \in Calls :
       /\ WF_vars(Work(c) \/ Return(c))
       /\ WF_vars(Serve(c))
       /\ WF_vars(Inherit(c))
       /\ WF_vars(ctxDone /\ Refuse(c))

------------------------------------------------------------------------------
(* Properties.                                                             *)

\* Server is right to know no more of an admin call than its lease.
ImplementsServer == Tools!Spec

\* An HTTP server that exits with success has answered what it received, and
\* every goroutine that still holds, or may come to hold, a connection through
\* the API server has been told to stop: the deferred clean-up of AdminClient
\* runs before the handler returns, and Shutdown waits for the handlers
\* (client.go:71, main.go:195-198).
CleanExit ==
  Tools!HTTP /\ exit = "clean" =>
    \A c \in Calls : /\ call[c] \in {"none", "answered"}
                     /\ Admin!Running(c) => stopCh[c] = "closed"

\* A signal ends every call, down to the select of ForwardPod with a dial that
\* hangs: without the timer of Shutdown, only a client that does not read its
\* response can keep the process (main.go:177, portforward.go:49).
ShutdownWaitsForReaders ==
  ctxDone ~> ~Tools!Up \/ [](\E c \in Calls : call[c] = "writing")
==============================================================================
