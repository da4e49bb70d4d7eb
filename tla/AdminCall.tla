------------------------------ MODULE AdminCall ------------------------------
(***************************************************************************)
(* One request to a localhost-bound HTTP server inside a pod, as every     *)
(* envoy_* tool and get_contour_dag make it: resolve the target            *)
(* (internal/envoy/client.go), open a port-forward tunnel to the pod       *)
(* (internal/k8s/portforward.go), GET through it, tear the tunnel down.    *)
(*                                                                         *)
(* Two goroutines per call: the handler's own, whose place is pc[c], and   *)
(* the one ForwardPod starts to run client-go's ForwardPorts, whose place  *)
(* is fw[c].  They share the channels stopCh, readyCh and errCh.  Calls    *)
(* run concurrently and share one thing, the kernel's local ports.         *)
(***************************************************************************)
EXTENDS Naturals

CONSTANTS
  Calls,        \* the tool calls of a run, each made once
  Pods,         \* the pods a call may name as its target
  LocalPorts,   \* the local ports the kernel hands out for "0:<port>"
  HasBaseURL,   \* whether the server was started with -envoy-admin-url
  DirectURL,    \* Target.URL, and the endpoint it names
  DefaultURL,   \* AdminClient.baseURL, and the endpoint it names
  NoTarget,     \* the empty Target
  Nobody,       \* no listener, no connection, no local port
  Unanswered,   \* the call has no result yet
  Failed        \* the call's result is an error

URLs    == {DirectURL, DefaultURL}
Targets == Pods \cup {DirectURL, NoTarget}
Answers == Pods \cup URLs \cup {Unanswered, Failed}

ASSUME ConstantsAssumption ==
  /\ HasBaseURL \in BOOLEAN
  /\ DirectURL # DefaultURL /\ NoTarget \notin URLs /\ Unanswered # Failed
  /\ Pods \cap (URLs \cup {NoTarget, Unanswered, Failed}) = {}
  /\ URLs \cap {Unanswered, Failed} = {}
  /\ Nobody \notin Calls \cup LocalPorts \cup URLs
  /\ Calls \cap URLs = {}

VARIABLES
  pc,        \* pc[c]: where the handler's goroutine is
  target,    \* target[c]: the Target of the call
  ctxDone,   \* ctxDone[c]: the request's context is cancelled
  fw,        \* fw[c]: where the ForwardPorts goroutine is
  fwErr,     \* fwErr[c]: what ForwardPorts returned
  stopCh,    \* stopCh[c]: "open", "closed", or "panic" after a second close
  readyCh,   \* readyCh[c]: the channel is closed
  errCh,     \* errCh[c]: the one-place buffer holds fwErr[c]
  localPort, \* localPort[c]: fw.GetPorts()[0].Local
  listener,  \* listener[p]: the call whose tunnel listens on local port p
  conn,      \* conn[c]: the tunnel, or the URL, the GET is connected to
  answer     \* answer[c]: the endpoint the response came from, or an error

handlerVars == <<pc, target, ctxDone, conn, answer>>
chanVars    == <<stopCh, readyCh, errCh>>
tunnelVars  == <<fw, fwErr, localPort, listener>>
vars        == <<handlerVars, chanVars, tunnelVars>>

Places     == {"idle", "resolve", "forwarding", "connect", "request",
               "cleanup", "returned"}
FwPlaces   == {"none", "dialing", "dialed", "serving", "finished", "exited"}
FwOutcomes == {"none", "failed", "stopped", "lost"}

\* ForwardPorts is running: it holds, or may come to hold, a connection to
\* the API server and a local listener.
Running(c)  == fw[c] \in {"dialing", "dialed", "serving"}
Tunnelled(c) == target[c] \in Pods

TypeOK ==
  /\ pc \in [Calls -> Places]
  /\ target \in [Calls -> Targets]
  /\ ctxDone \in [Calls -> BOOLEAN]
  /\ fw \in [Calls -> FwPlaces]
  /\ fwErr \in [Calls -> FwOutcomes]
  /\ stopCh \in [Calls -> {"open", "closed", "panic"}]
  /\ readyCh \in [Calls -> BOOLEAN]
  /\ errCh \in [Calls -> BOOLEAN]
  /\ localPort \in [Calls -> LocalPorts \cup {Nobody}]
  /\ listener \in [LocalPorts -> Calls \cup {Nobody}]
  /\ conn \in [Calls -> Calls \cup URLs \cup {Nobody}]
  /\ answer \in [Calls -> Answers]

Init ==
  /\ pc        = [c \in Calls |-> "idle"]
  /\ target    = [c \in Calls |-> NoTarget]
  /\ ctxDone   = [c \in Calls |-> FALSE]
  /\ fw        = [c \in Calls |-> "none"]
  /\ fwErr     = [c \in Calls |-> "none"]
  /\ stopCh    = [c \in Calls |-> "open"]
  /\ readyCh   = [c \in Calls |-> FALSE]
  /\ errCh     = [c \in Calls |-> FALSE]
  /\ localPort = [c \in Calls |-> Nobody]
  /\ listener  = [p \in LocalPorts |-> Nobody]
  /\ conn      = [c \in Calls |-> Nobody]
  /\ answer    = [c \in Calls |-> Unanswered]

------------------------------------------------------------------------------
(* The handler's goroutine.                                                *)

Goto(c, from, to) == pc[c] = from /\ pc' = [pc EXCEPT ![c] = to]

\* One of AdminClient's Get methods, which differ in the path alone, or GetDAG
\* is entered with the target t.
Call(c, t) ==
  /\ Goto(c, "idle", "resolve")
  /\ target' = [target EXCEPT ![c] = t]
  /\ UNCHANGED <<ctxDone, conn, answer, chanVars, tunnelVars>>

\* The client went away, or the server is shutting down.
Cancel(c) ==
  /\ pc[c] \notin {"idle", "returned"}
  /\ ~ctxDone[c]
  /\ ctxDone' = [ctxDone EXCEPT ![c] = TRUE]
  /\ UNCHANGED <<pc, target, conn, answer, chanVars, tunnelVars>>

\* resolve: a direct URL, or the default one; the clean-up is noop.
ResolveURL(c) ==
  /\ target[c] = DirectURL \/ (target[c] = NoTarget /\ HasBaseURL)
  /\ Goto(c, "resolve", "connect")
  /\ UNCHANGED <<target, ctxDone, conn, answer, chanVars, tunnelVars>>

\* resolve: nothing to reach, ErrNoTarget.
ResolveNothing(c) ==
  /\ target[c] = NoTarget /\ ~HasBaseURL
  /\ Goto(c, "resolve", "returned")
  /\ answer' = [answer EXCEPT ![c] = Failed]
  /\ UNCHANGED <<target, ctxDone, conn, chanVars, tunnelVars>>

\* resolve without a forwarder, or ForwardPod without a round tripper or with
\* a port that portforward.New refuses.
ForwardSetupFails(c) ==
  /\ Tunnelled(c)
  /\ Goto(c, "resolve", "returned")
  /\ answer' = [answer EXCEPT ![c] = Failed]
  /\ UNCHANGED <<target, ctxDone, conn, chanVars, tunnelVars>>

\* ForwardPod: make the channels and start the ForwardPorts goroutine.
ForwardPod(c) ==
  /\ Tunnelled(c)
  /\ Goto(c, "resolve", "forwarding")
  /\ fw' = [fw EXCEPT ![c] = "dialing"]
  /\ UNCHANGED <<target, ctxDone, conn, answer, chanVars, fwErr, localPort,
                 listener>>

\* close(stopCh): closing a closed channel panics.
CloseStop(c) ==
  stopCh' = [stopCh EXCEPT ![c] = IF @ = "open" THEN "closed" ELSE "panic"]

\* Mutant: the select's ready case hands out the URL after closing stopCh.
SelectReadyAndStop(c) ==
  /\ readyCh[c]
  /\ Goto(c, "forwarding", "connect")
  /\ CloseStop(c)
  /\ UNCHANGED <<target, ctxDone, conn, answer, readyCh, errCh, tunnelVars>>

\* The select takes readyCh.  GetPorts then answers, because the channel it
\* looks at is the one just seen closed, and the base URL is localPort[c].
SelectReady(c) ==
  /\ readyCh[c]
  /\ Goto(c, "forwarding", "connect")
  /\ UNCHANGED <<target, ctxDone, conn, answer, chanVars, tunnelVars>>

\* Mutant: the select is in a loop that goes on after an error.
SelectErrRetries(c) ==
  /\ errCh[c] /\ pc[c] = "forwarding"
  /\ errCh' = [errCh EXCEPT ![c] = FALSE]
  /\ UNCHANGED <<handlerVars, stopCh, readyCh, tunnelVars>>

\* The select takes errCh: ForwardPorts is over, ready or not.
SelectErr(c) ==
  /\ errCh[c]
  /\ Goto(c, "forwarding", "returned")
  /\ errCh'  = [errCh EXCEPT ![c] = FALSE]
  /\ answer' = [answer EXCEPT ![c] = Failed]
  /\ UNCHANGED <<target, ctxDone, conn, stopCh, readyCh, tunnelVars>>

\* Mutant: the cancellation case forgets close(stopCh).
SelectCancelledNoClose(c) ==
  /\ ctxDone[c]
  /\ Goto(c, "forwarding", "returned")
  /\ answer' = [answer EXCEPT ![c] = Failed]
  /\ UNCHANGED <<target, ctxDone, conn, chanVars, tunnelVars>>

\* Mutant: the cancellation case closes stopCh and falls through to the
\* caller's deferred clean-up.
SelectCancelledFallsThrough(c) ==
  /\ ctxDone[c]
  /\ Goto(c, "forwarding", "cleanup")
  /\ CloseStop(c)
  /\ answer' = [answer EXCEPT ![c] = Failed]
  /\ UNCHANGED <<target, ctxDone, conn, readyCh, errCh, tunnelVars>>

\* Mutant: the select has no ctx.Done() case.
SelectNeverCancelled(c) == errCh[c] /\ SelectCancelledNoClose(c)

\* The select takes ctx.Done(): the tunnel is told to stop wherever it is.
SelectCancelled(c) ==
  /\ ctxDone[c]
  /\ Goto(c, "forwarding", "returned")
  /\ CloseStop(c)
  /\ answer' = [answer EXCEPT ![c] = Failed]
  /\ UNCHANGED <<target, ctxDone, conn, readyCh, errCh, tunnelVars>>

\* httpClient.Do reaches the URL, or whichever tunnel listens on the local
\* port by now: 127.0.0.1:<port> says nothing about who that is.
Connect(c) ==
  /\ Goto(c, "connect", "request")
  /\ \/ /\ Tunnelled(c)
        /\ listener[localPort[c]] # Nobody
        /\ conn' = [conn EXCEPT ![c] = listener[localPort[c]]]
     \/ /\ target[c] = DirectURL
        /\ conn' = [conn EXCEPT ![c] = DirectURL]
     \/ /\ target[c] = NoTarget
        /\ conn' = [conn EXCEPT ![c] = DefaultURL]
  /\ UNCHANGED <<target, ctxDone, answer, chanVars, tunnelVars>>

\* Mutant: the result is labelled with the address that was connected to, not
\* with the endpoint behind it.
RespondByAddress(c) ==
  /\ Goto(c, "request", "cleanup")
  /\ conn[c] \in Calls => fw[conn[c]] = "serving"
  /\ answer' = [answer EXCEPT ![c] = conn[c]]
  /\ conn'   = [conn EXCEPT ![c] = Nobody]
  /\ UNCHANGED <<target, ctxDone, chanVars, tunnelVars>>

\* A 200 response with a body that decodes.  A tunnel carries it only while
\* ForwardPorts serves it: when that returns its streams are closed.
Respond(c) ==
  /\ Goto(c, "request", "cleanup")
  /\ \/ /\ conn[c] \in URLs
        /\ answer' = [answer EXCEPT ![c] = conn[c]]
     \/ /\ conn[c] \in Calls
        /\ fw[conn[c]] = "serving"
        /\ answer' = [answer EXCEPT ![c] = target[conn[c]]]
  /\ conn' = [conn EXCEPT ![c] = Nobody]
  /\ UNCHANGED <<target, ctxDone, chanVars, tunnelVars>>

\* The GET ends in an error: connection refused or reset, the context done,
\* the client's 30 s timeout, a status other than 200, an undecodable body.
RequestFails(c) ==
  /\ pc[c] \in {"connect", "request"}
  /\ pc'     = [pc EXCEPT ![c] = "cleanup"]
  /\ answer' = [answer EXCEPT ![c] = Failed]
  /\ conn'   = [conn EXCEPT ![c] = Nobody]
  /\ UNCHANGED <<target, ctxDone, chanVars, tunnelVars>>

\* Mutant: the clean-up of a failed request is skipped (done() called after
\* the error return instead of deferred).
CleanupOnSuccessOnly(c) ==
  /\ Goto(c, "cleanup", "returned")
  /\ IF Tunnelled(c) /\ answer[c] # Failed THEN CloseStop(c)
                                           ELSE UNCHANGED stopCh
  /\ UNCHANGED <<target, ctxDone, conn, answer, readyCh, errCh, tunnelVars>>

\* The deferred done(), and the return of the call.
Cleanup(c) ==
  /\ Goto(c, "cleanup", "returned")
  /\ IF Tunnelled(c) THEN CloseStop(c) ELSE UNCHANGED stopCh
  /\ UNCHANGED <<target, ctxDone, conn, answer, readyCh, errCh, tunnelVars>>

------------------------------------------------------------------------------
(* The goroutine that runs client-go's ForwardPorts.                       *)

\* The SPDY connection through the API server is up.
Dial(c) ==
  /\ fw[c] = "dialing"
  /\ fw' = [fw EXCEPT ![c] = "dialed"]
  /\ UNCHANGED <<handlerVars, chanVars, fwErr, localPort, listener>>

\* ForwardPorts returns err, having closed its listeners.
FinishForward(c, err) ==
  /\ fw'       = [fw EXCEPT ![c] = "finished"]
  /\ fwErr'    = [fwErr EXCEPT ![c] = err]
  /\ listener' = [p \in LocalPorts |->
                    IF listener[p] = c THEN Nobody ELSE listener[p]]
  /\ UNCHANGED <<handlerVars, chanVars, localPort>>

\* The API server refuses, or the pod is gone.
DialFails(c) == fw[c] = "dialing" /\ FinishForward(c, "failed")

\* Local port 0: the kernel picks a free port; then readyCh is closed.
Listen(c, p) ==
  /\ fw[c] = "dialed"
  /\ listener[p] = Nobody
  /\ fw'        = [fw EXCEPT ![c] = "serving"]
  /\ listener'  = [listener EXCEPT ![p] = c]
  /\ localPort' = [localPort EXCEPT ![c] = p]
  /\ readyCh'   = [readyCh EXCEPT ![c] = TRUE]
  /\ UNCHANGED <<handlerVars, stopCh, errCh, fwErr>>

\* No local port is free, or no file descriptor to listen on one.
ListenFails(c) == fw[c] = "dialed" /\ FinishForward(c, "failed")

\* ForwardPorts sees stopCh closed, and returns nil.
StopForward(c) ==
  fw[c] = "serving" /\ stopCh[c] # "open" /\ FinishForward(c, "stopped")

\* The connection to the pod breaks: ErrLostConnectionToPod.
LoseConnection(c) == fw[c] = "serving" /\ FinishForward(c, "lost")

\* Mutant: errCh is unbuffered, so the send waits for the select to receive.
SendErrUnbuffered(c) ==
  /\ fw[c] = "finished" /\ pc[c] = "forwarding"
  /\ fw'    = [fw EXCEPT ![c] = "exited"]
  /\ errCh' = [errCh EXCEPT ![c] = TRUE]
  /\ UNCHANGED <<handlerVars, stopCh, readyCh, fwErr, localPort, listener>>

\* errCh <- fw.ForwardPorts(), into a buffer of one.
SendErr(c) ==
  /\ fw[c] = "finished" /\ ~errCh[c]
  /\ fw'    = [fw EXCEPT ![c] = "exited"]
  /\ errCh' = [errCh EXCEPT ![c] = TRUE]
  /\ UNCHANGED <<handlerVars, stopCh, readyCh, fwErr, localPort, listener>>

------------------------------------------------------------------------------
Resolve(c) ==
  ResolveURL(c) \/ ResolveNothing(c) \/ ForwardSetupFails(c) \/ ForwardPod(c)
Select(c)  == SelectReady(c) \/ SelectErr(c) \/ SelectCancelled(c)
Get(c)     == Connect(c) \/ Respond(c) \/ RequestFails(c)
Handler(c) == Resolve(c) \/ Select(c) \/ Get(c) \/ Cleanup(c)

DialEnds(c) == Dial(c) \/ DialFails(c)
Serve(c)    == (\E p \in LocalPorts : Listen(c, p)) \/ ListenFails(c)
                 \/ StopForward(c) \/ SendErr(c)

\* Every call is over and every goroutine gone: the server waits for more.
Quiescent ==
  /\ \A c \in Calls : pc[c] = "returned" /\ fw[c] \in {"none", "exited"}
  /\ UNCHANGED vars

Next ==
  \/ \E c \in Calls :
       \/ \E t \in Targets : Call(c, t)
       \/ Cancel(c)
       \/ Handler(c)
       \/ DialEnds(c)
       \/ Serve(c)
       \/ LoseConnection(c)
  \/ Quiescent

Spec == Init /\ [][Next]_vars

\* The Go scheduler runs every goroutine that can step, and a GET is bounded
\* by the client's timeout.  Calls, cancellations and lost connections are
\* never owed, nor is the end of a dial: no timeout in this code bounds it.
FairSpec ==
  Spec /\ \A c \in Calls : WF_vars(Handler(c)) /\ WF_vars(Serve(c))

------------------------------------------------------------------------------
(* Properties.                                                             *)

\* No stop channel is closed twice, which would panic the process: the
\* cancellation case of ForwardPod and the close function it returns never
\* both run for one tunnel.
StopClosedOnce == \A c \in Calls : stopCh[c] # "panic"

\* A call that has returned left nothing running on its own account: its
\* ForwardPorts was never started, is over, or has been told to stop, even
\* when it was still dialling or about to listen.
ReleasedOnReturn ==
  \A c \in Calls : pc[c] = "returned" /\ Running(c) => stopCh[c] = "closed"

\* "Concurrent tool calls each get their own tunnel" (portforward.go:35-36): a
\* tool call that names a pod is answered by that pod.
AnsweredByOwnPod ==
  \A c \in Calls : Tunnelled(c) /\ answer[c] \in Pods => answer[c] = target[c]

\* What does hold: only a call whose own tunnel broke under it can be given
\* the answer of another pod, through a tunnel that was handed its old port.
MisdirectedOnlyAfterLoss ==
  \A c \in Calls :
    Tunnelled(c) /\ answer[c] \in Pods /\ answer[c] # target[c]
      => fwErr[c] = "lost"

\* A GET in flight is never cut by the call's own tear-down: ForwardPorts is
\* stopped, not lost, only when its caller has given up or has its answer.
NotStoppedInUse ==
  \A c \in Calls : fwErr[c] = "stopped" => pc[c] = "returned"

\* No wake-up is lost: a select with nothing to receive waits for a goroutine
\* that has still to close readyCh or to send, and that finds the buffer empty
\* when it does, whether or not anybody receives (portforward.go:42-43).
NoLostWakeup ==
  \A c \in Calls :
    /\ pc[c] = "forwarding" =>
         readyCh[c] \/ errCh[c] \/ fw[c] \in {"dialing", "dialed", "finished"}
    /\ fw[c] = "finished" => ~errCh[c]

\* How many steps a call has left at most: its handler, its goroutine, and the
\* cancellation of its context.
HandlerLeft ==
  [idle |-> 6, resolve |-> 5, forwarding |-> 4, connect |-> 3, request |-> 2,
   cleanup |-> 1, returned |-> 0]
GoroutineLeft ==
  [none |-> 5, dialing |-> 4, dialed |-> 3, serving |-> 2, finished |-> 1,
   exited |-> 0]
StepsLeft(c) ==
  HandlerLeft[pc[c]] + GoroutineLeft[fw[c]] + IF ctxDone[c] THEN 0 ELSE 1

\* A call does a bounded amount of work, twelve steps, and causes none in
\* another: nothing in it is tried again, neither the tunnel nor the select
\* nor the GET (client.go:62-82, portforward.go:42-61).
Advances(c) ==
  /\ StepsLeft(c)' < StepsLeft(c)
  /\ \A d \in Calls \ {c} : StepsLeft(d)' = StepsLeft(d)
BoundedWork == [][\E c \in Calls : Advances(c)]_vars

\* What a caller is promised, whatever the tunnels do, is module TunnelLease;
\* this is what it sees of the goroutines and the channels.
Phase(c) ==
  CASE pc[c] = "idle"     -> "idle"
    [] pc[c] = "returned" -> "answered"
    [] OTHER              -> "pending"
LeaseState(c) ==
  CASE fw[c] = "none"                     -> "none"
    [] Running(c) /\ stopCh[c] = "open"   -> "held"
    [] Running(c) /\ stopCh[c] # "open"   -> "ending"
    [] OTHER                              -> "ended"
Reply(c) == IF pc[c] = "returned" THEN answer[c] ELSE Unanswered

Lease == INSTANCE TunnelLease WITH
  phase <- [c \in Calls |-> Phase(c)],
  lease <- [c \in Calls |-> LeaseState(c)],
  reply <- [c \in Calls |-> Reply(c)]

\* The calls implement the lease: a tunnel is opened at most once, for a
\* pending call, and given up at the very step the call is answered; a pod's
\* answer is the target's own while the lease lasts.
ImplementsLease == Lease!Spec

\* The API server, or the TCP stack, never ends the dial of the call.
DialHangs(c) == [](fw[c] = "dialing")

\* Every call returns, unless its dial hangs and nobody cancels it.
CallReturns ==
  \A c \in Calls :
    pc[c] = "resolve" ~> \/ pc[c] = "returned"
                         \/ DialHangs(c) /\ [](~ctxDone[c])

\* No goroutine and no local port outlives its call for ever, but one that
\* hangs in its dial.
GoroutineExits ==
  \A c \in Calls :
    pc[c] = "returned" ~> \/ /\ fw[c] \in {"none", "exited"}
                             /\ \A p \in LocalPorts : listener[p] # c
                          \/ DialHangs(c)
==============================================================================
