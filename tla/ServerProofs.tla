----------------------------- MODULE ServerProofs -----------------------------
(***************************************************************************)
(* Proofs about Server for any number of calls, pods and ways to start.    *)
(* The inductive invariant IInv says how far a call has come, in the       *)
(* transport, its handler and its admin request at once, and what the main *)
(* goroutine knows of the server at each of its places.                    *)
(***************************************************************************)
EXTENDS Server, TLAPS

\* The admin request of a call that has not asked, is asking, and has asked.
Fresh(c) == phase[c] = "idle" /\ lease[c] = "none" /\ reply[c] = Unanswered
Leased(c) == Valid(request[c]) /\ (lease[c] # "none" => target[c] \in Pods)
Asking(c) == phase[c] = "pending" /\ reply[c] = Unanswered /\ Leased(c)
Asked(c) ==
  /\ phase[c] = "answered" /\ lease[c] # "held" /\ Leased(c)
  /\ \/ reply[c] \in {Failed, Lease!Endpoint(target[c])}
     \/ reply[c] \in Pods /\ lease[c] = "ended"

\* How far a call has come.
Stage(c) ==
  \/ call[c] = "none" /\ place[c] = "idle" /\ Fresh(c)
  \/ call[c] = "running" /\ place[c] = "target" /\ Fresh(c)
  \/ call[c] = "running" /\ place[c] = "request" /\ Asking(c)
  \/ /\ call[c] \in {"writing", "answered"} /\ place[c] = "returned"
     /\ Fresh(c) \/ Asked(c)

CallInv == \A c \in Calls : Stage(c)

\* What the places of the main goroutine say of the server.
LifeInv ==
  /\ main = "starting" => server = "none"
  /\ server = "none" => \A c \in Calls : call[c] = "none"
  /\ main = "draining" => ctxDone /\ HTTP
  /\ server = "ended" => Stdio
  /\ exit = "none" <=> Up

IInv == TypeOK /\ CallInv /\ LifeInv /\ GracefulHTTP /\ ExitStatusTells

------------------------------------------------------------------------------
(* The main goroutine and the rest of the world.                           *)

LEMMA InitInv == Init => IInv
<1> SUFFICES ASSUME Init PROVE IInv
  OBVIOUS
<1>1. ServeTypeOK /\ LifeInv /\ GracefulHTTP /\ ExitStatusTells
  BY DEF Init, ServeInit, ServeTypeOK, LifeInv, Up, GracefulHTTP, ExitStatusTells, Broke
<1>2. ToolsTypeOK
  BY DEF Init, ToolsInit, Lease!Init, ToolsTypeOK, Targets
<1>3. CallInv
  BY DEF Init, ServeInit, ToolsInit, Lease!Init, CallInv, Stage, Fresh
<1> QED
  BY <1>1, <1>2, <1>3 DEF IInv, TypeOK

\* A step that changes neither the calls nor the handlers.
LEMMA CallsStay ==
  ASSUME CallInv, UNCHANGED <<call, toolVars>>
  PROVE  CallInv'
BY DEF CallInv, Stage, Fresh, Asking, Asked, Leased, toolVars, leaseVars, Valid, Lease!Endpoint

LEMMA MainInv == ASSUME IInv, RunMain PROVE IInv'
<1> USE DEF IInv
<1>1. UNCHANGED <<call, toolVars, ctxDone, options>>
  BY DEF RunMain, Main, ShowVersion, SetupFails, StartServing, StopStdio, BeginShutdown,
         SelectErr, Drained, Exit
<1>2. CallInv'
  BY <1>1, CallsStay
<1>3. ToolsTypeOK'
  BY <1>1 DEF TypeOK, ToolsTypeOK, toolVars, leaseVars
<1>4. CASE ShowVersion \/ SetupFails
  BY <1>1, <1>2, <1>3, <1>4
  DEF ShowVersion, SetupFails, Exit, TypeOK, ServeTypeOK, LifeInv, Up, Stdio, HTTP, Owed,
      GracefulHTTP, ExitStatusTells, Broke, CallInv, Stage, Fresh, toolVars, leaseVars
<1>5. CASE StartServing
  BY <1>1, <1>2, <1>3, <1>5
  DEF StartServing, TypeOK, ServeTypeOK, LifeInv, Up, Stdio, HTTP,
      GracefulHTTP, ExitStatusTells, Broke
<1>6. CASE StopStdio
  BY <1>1, <1>2, <1>3, <1>6
  DEF StopStdio, Exit, TypeOK, ServeTypeOK, LifeInv, Up, Stdio, HTTP,
      GracefulHTTP, ExitStatusTells, Broke
<1>7. CASE BeginShutdown
  BY <1>1, <1>2, <1>3, <1>7
  DEF BeginShutdown, TypeOK, ServeTypeOK, LifeInv, Up, Stdio, HTTP,
      GracefulHTTP, ExitStatusTells, Broke
<1>8. CASE SelectErr
  BY <1>1, <1>2, <1>3, <1>8
  DEF SelectErr, Exit, TypeOK, ServeTypeOK, LifeInv, Up, Stdio, HTTP,
      GracefulHTTP, ExitStatusTells, Broke
<1>9. CASE Drained
  BY <1>1, <1>2, <1>3, <1>9
  DEF Drained, Exit, TypeOK, ServeTypeOK, LifeInv, Up, Stdio, HTTP, Owed, CallInv, Stage,
      Fresh, Asked, GracefulHTTP, ExitStatusTells, Broke, toolVars, leaseVars
<1> QED
  BY <1>4, <1>5, <1>6, <1>7, <1>8, <1>9 DEF RunMain, Main

\* All that is kept of a call.
Kept(c) ==
  <<call[c], place[c], request[c], phase[c], target[c], lease[c], reply[c]>>

\* A step of one call leaves the others where they are.
LEMMA OneCall ==
  ASSUME CallInv, NEW c \in Calls, Stage(c)',
         \A d \in Calls \ {c} : Kept(d)' = Kept(d)
  PROVE  CallInv'
<1> SUFFICES ASSUME NEW d \in Calls, d # c PROVE Stage(d)'
  BY DEF CallInv
<1>1. /\ call'[d] = call[d] /\ place'[d] = place[d] /\ request'[d] = request[d]
      /\ phase'[d] = phase[d] /\ target'[d] = target[d]
      /\ lease'[d] = lease[d] /\ reply'[d] = reply[d]
  BY DEF Kept
<1> QED
  BY <1>1 DEF CallInv, Stage, Fresh, Asking, Asked, Leased, Valid, Lease!Endpoint

LEMMA OutsideInv == ASSUME IInv, Outside PROVE IInv'
<1> USE DEF IInv
<1>1. UNCHANGED <<toolVars, options>>
  BY DEF Outside, World, Signal, Listening, StreamEnds, ServerFails, ShutdownTimeout,
         Respond, Becomes, Advance, Exit
<1>2. ToolsTypeOK'
  BY <1>1 DEF TypeOK, ToolsTypeOK, toolVars, leaseVars
<1>3. CASE Signal \/ Listening \/ StreamEnds \/ ServerFails
  <2>1. UNCHANGED call
    BY <1>3 DEF Signal, Listening, StreamEnds, ServerFails, Becomes
  <2>2. CallInv'
    BY <1>1, <2>1, CallsStay
  <2> QED
    BY <1>1, <1>2, <1>3, <2>1, <2>2
    DEF Signal, Listening, StreamEnds, ServerFails, Becomes, TypeOK, ServeTypeOK, LifeInv,
        Up, Stdio, HTTP, GracefulHTTP, ExitStatusTells, Broke
<1>4. CASE ShutdownTimeout
  <2>1. UNCHANGED call
    BY <1>4 DEF ShutdownTimeout, Exit
  <2>2. CallInv'
    BY <1>1, <2>1, CallsStay
  <2> QED
    BY <1>1, <1>2, <1>4, <2>1, <2>2
    DEF ShutdownTimeout, Exit, TypeOK, ServeTypeOK, LifeInv, Up, Stdio, HTTP,
        GracefulHTTP, ExitStatusTells, Broke
<1>5. ASSUME NEW c \in Calls, Respond(c) PROVE IInv'
  <2>1. \A d \in Calls \ {c} : Kept(d)' = Kept(d)
    BY <1>1, <1>5 DEF Respond, Advance, TypeOK, ServeTypeOK, Kept, toolVars, leaseVars
  <2>2. call[c] = "writing" /\ call'[c] = "answered"
    BY <1>5 DEF Respond, Advance, TypeOK, ServeTypeOK
  <2>3. Stage(c)'
    BY <1>1, <2>2
    DEF CallInv, Stage, Fresh, Asked, Leased, toolVars, leaseVars, Valid, Lease!Endpoint
  <2>4. CallInv'
    BY <2>1, <2>3, OneCall
  <2> QED
    BY <1>1, <1>2, <1>5, <2>4
    DEF Respond, Advance, TypeOK, ServeTypeOK, LifeInv, Up, Stdio, HTTP, Owed,
        GracefulHTTP, ExitStatusTells, Broke
<1> QED
  BY <1>3, <1>4, <1>5 DEF Outside, World

------------------------------------------------------------------------------
(* The handlers.                                                           *)

\* What a step of a handler leaves to prove: that of the call it is of.
LEMMA HandlerStep ==
  ASSUME IInv, NEW c \in Calls, ToolsTypeOK', Stage(c)',
         \A d \in Calls \ {c} : Kept(d)' = Kept(d), Up,
         UNCHANGED <<options, main, ctxDone, server, exit>>,
         call' \in [Calls -> {"none", "running", "writing", "answered"}],
         server # "none" \/ UNCHANGED call
  PROVE  IInv'
<1>1. CallInv'
  BY OneCall DEF IInv
<1>2. ServeTypeOK' /\ exit' = "none"
  BY DEF IInv, TypeOK, ServeTypeOK, LifeInv
<1>3. LifeInv'
  BY DEF IInv, LifeInv, Up, HTTP, Stdio
<1> QED
  BY <1>1, <1>2, <1>3 DEF IInv, TypeOK, GracefulHTTP, ExitStatusTells, Broke

LEMMA StartInv ==
  ASSUME IInv, NEW c \in Calls, Start(c) PROVE IInv'
<1> USE DEF IInv, TypeOK
<1>1. \A d \in Calls \ {c} : Kept(d)' = Kept(d)
  BY DEF Start, Receive, Advance, Begin, Move, ServeTypeOK, ToolsTypeOK, Kept, leaseVars
<1>2. ToolsTypeOK'
  BY DEF Start, Begin, Move, ToolsTypeOK, leaseVars
<1>3. Stage(c)'
  <2>1. call'[c] = "running" /\ place'[c] = "target" /\ place[c] = "idle"
    BY DEF Start, Receive, Advance, Begin, Move, ServeTypeOK, ToolsTypeOK
  <2> QED
    BY <2>1 DEF Start, Begin, leaseVars, CallInv, Stage, Fresh
<1>4. /\ Up /\ server # "none"
      /\ UNCHANGED <<options, main, ctxDone, server, exit>>
      /\ call' \in [Calls -> {"none", "running", "writing", "answered"}]
  BY DEF Start, Receive, Advance, ServeTypeOK
<1> QED
  BY <1>1, <1>2, <1>3, <1>4, HandlerStep

LEMMA HandleInv ==
  ASSUME IInv, NEW c \in Calls, Handle(c) PROVE IInv'
<1> USE DEF IInv, TypeOK
<1>1. /\ Up /\ UNCHANGED <<options, main, ctxDone, server, call, exit>>
      /\ call \in [Calls -> {"none", "running", "writing", "answered"}]
  BY DEF Handle, serveVars, ServeTypeOK
<1>2. ASSUME NEW t \in Targets, Ask(c, t) PROVE IInv'
  <2>1. \A d \in Calls \ {c} : Kept(d)' = Kept(d)
    BY <1>1, <1>2 DEF Ask, Move, Lease!Ask, ToolsTypeOK, Kept
  <2>2. ToolsTypeOK'
    BY <1>2 DEF Ask, Move, Lease!Ask, ToolsTypeOK
  <2>3. /\ place[c] = "target" /\ place'[c] = "request"
        /\ phase'[c] = "pending" /\ request'[c] = request[c]
        /\ lease'[c] = lease[c] /\ reply'[c] = reply[c] /\ call'[c] = call[c]
    BY <1>1, <1>2 DEF Ask, Move, Lease!Ask, ToolsTypeOK
  <2>4. Valid(request[c])
    BY <1>2 DEF Ask
  <2>5. Stage(c)'
    BY <2>3, <2>4 DEF CallInv, Stage, Fresh, Asking, Leased, Valid
  <2> QED
    BY <1>1, <2>1, <2>2, <2>5, HandlerStep
<1>3. ASSUME Tunnel(c) PROVE IInv'
  <2>1. \A d \in Calls \ {c} : Kept(d)' = Kept(d)
    BY <1>1, <1>3 DEF Tunnel, Lease!Open, Lease!End, ToolsTypeOK, Kept
  <2>2. ToolsTypeOK'
    BY <1>3 DEF Tunnel, Lease!Open, Lease!End, ToolsTypeOK
  <2>3. /\ UNCHANGED <<call, request, place, phase, target, reply>>
        /\ \/ phase[c] = "pending" /\ target[c] \in Pods
           \/ lease[c] \in {"held", "ending"} /\ lease'[c] = "ended"
    BY <1>1, <1>3 DEF Tunnel, Lease!Open, Lease!End, ToolsTypeOK
  <2>4. Stage(c)'
    BY <2>3 DEF CallInv, Stage, Fresh, Asking, Asked, Leased, Valid, Lease!Endpoint
  <2> QED
    BY <1>1, <2>1, <2>2, <2>4, HandlerStep
<1> QED
  BY <1>2, <1>3 DEF Handle, Continues

\* A handler returns, by itself or since its context is cancelled.
LEMMA ReturnInv ==
  ASSUME IInv, NEW c \in Calls, Finish(c), Returns(c) PROVE IInv'
<1> USE DEF IInv, TypeOK
<1>1. /\ Up /\ UNCHANGED <<options, main, ctxDone, server, exit>>
      /\ call[c] = "running" /\ call'[c] = "writing"
      /\ call' \in [Calls -> {"none", "running", "writing", "answered"}]
      /\ \A d \in Calls \ {c} : call'[d] = call[d]
  BY DEF Finish, Advance, ServeTypeOK
<1>2. server # "none"
  BY <1>1 DEF LifeInv
<1>3. CASE TargetFails(c) \/ Refuse(c)
  <2>1. \A d \in Calls \ {c} : Kept(d)' = Kept(d)
    BY <1>1, <1>3 DEF TargetFails, Refuse, Move, ToolsTypeOK, Kept, leaseVars
  <2>2. ToolsTypeOK'
    BY <1>3 DEF TargetFails, Refuse, Move, ToolsTypeOK, leaseVars
  <2>3. place[c] = "target" /\ place'[c] = "returned" /\ UNCHANGED leaseVars
    BY <1>3 DEF TargetFails, Refuse, Move, ToolsTypeOK
  <2>4. Stage(c)'
    BY <1>1, <2>3 DEF CallInv, Stage, Fresh, leaseVars
  <2> QED
    BY <1>1, <1>2, <2>1, <2>2, <2>4, HandlerStep
<1>4. ASSUME NEW r \in Pods \cup {DirectURL, DefaultURL, Failed}, Answer(c, r)
      PROVE  IInv'
  <2>1. \A d \in Calls \ {c} : Kept(d)' = Kept(d)
    BY <1>1, <1>4 DEF Answer, Move, Lease!Answer, ToolsTypeOK, Kept
  <2>2. ToolsTypeOK'
    BY <1>4 DEF Answer, Move, Lease!Answer, ToolsTypeOK
  <2>3. /\ place[c] = "request" /\ place'[c] = "returned"
        /\ phase'[c] = "answered" /\ reply'[c] = r
        /\ request'[c] = request[c] /\ target'[c] = target[c]
        /\ lease'[c] = IF lease[c] = "held" THEN "ending" ELSE lease[c]
    BY <1>4 DEF Answer, Move, Lease!Answer, ToolsTypeOK
  <2>4. r \in {Failed, Lease!Endpoint(target[c])} \/ (r \in Pods /\ lease[c] = "ended")
    BY <1>4 DEF Answer, Lease!Answer
  <2>5. Stage(c)'
    BY <1>1, <2>3, <2>4
    DEF CallInv, Stage, Asking, Asked, Leased, Valid, Lease!Endpoint
  <2> QED
    BY <1>1, <1>2, <2>1, <2>2, <2>5, HandlerStep
<1> QED
  BY <1>3, <1>4 DEF Returns

------------------------------------------------------------------------------
(* The theorems.                                                           *)

LEMMA NextInv == ASSUME IInv, [Next]_vars PROVE IInv'
<1>1. CASE UNCHANGED vars
  <2>1. UNCHANGED <<serveVars, toolVars>>
    BY <1>1 DEF vars
  <2>2. CallInv'
    BY <2>1, CallsStay DEF IInv, serveVars
  <2> QED
    BY <2>1, <2>2
    DEF IInv, TypeOK, ServeTypeOK, ToolsTypeOK, LifeInv, Up, Stdio, HTTP, Owed, GracefulHTTP,
        ExitStatusTells, Broke, serveVars, toolVars, leaseVars
<1>2. ASSUME NEW c \in Calls, Cancelled(c) PROVE IInv'
  BY <1>2, ReturnInv DEF Cancelled, GivesUp, Returns
<1>3. ASSUME NEW c \in Calls, Return(c) PROVE IInv'
  BY <1>3, ReturnInv DEF Return
<1> QED
  BY <1>1, <1>2, <1>3, MainInv, OutsideInv, StartInv, HandleInv DEF Next, Finished

\* The inductive invariant: transport, handler and admin request agree on how
\* far a call has come, and main on what the server does.
THEOREM Invariance == Spec => []IInv
BY InitInv, NextInv, PTL DEF Spec

\* Every variable keeps its type.
THEOREM TypeCorrect == Spec => []TypeOK
BY Invariance, PTL DEF IInv

\* An HTTP server that exits with success owes no answer, and has told every
\* tunnel to stop.
THEOREM Graceful == Spec => []GracefulHTTP
BY Invariance, PTL DEF IInv

\* The exit status is that of a failure exactly where the code means one.
THEOREM ExitStatus == Spec => []ExitStatusTells
BY Invariance, PTL DEF IInv

\* No tunnel without a valid call that needs it.
THEOREM Tunnels == Spec => []TunnelsServeRequests
<1>1. IInv => TunnelsServeRequests
  BY DEF IInv, CallInv, Stage, Fresh, Asking, Asked, Leased, TunnelsServeRequests
<1> QED
  BY <1>1, Invariance, PTL

\* A tool that reports success has been answered by an Envoy, by the one that
\* it is aimed at unless its tunnel had ended.
THEOREM Success == Spec => []SuccessIsEnvoys
<1>1. IInv => SuccessIsEnvoys
  <2> SUFFICES ASSUME IInv, NEW c \in Calls, Returned(c)
               PROVE  ((\/ Result(c).kind = "page"
                        \/ Result(c).kind = "ready" /\ Result(c).ready)
                       <=> /\ reply[c] \notin {Unanswered, Failed}
                           /\ reply[c] = Lease!Endpoint(target[c]) \/ lease[c] = "ended")
    BY DEF SuccessIsEnvoys
  <2>1. Fresh(c) \/ Asked(c)
    BY DEF IInv, CallInv, Stage, Returned
  <2>2. CASE Fresh(c)
    BY <2>2 DEF Fresh, Result, Error
  <2>3. CASE Asked(c)
    <3>1. reply[c] # Unanswered
      BY <2>3, ToolsAssumption
      DEF Asked, IInv, TypeOK, ToolsTypeOK, Targets, Lease!Endpoint
    <3>2. CASE reply[c] = Failed
      BY <2>3, <3>2 DEF Asked, Result, Error
    <3>3. CASE reply[c] # Failed
      BY <2>3, <3>1, <3>3 DEF Asked, Result
    <3> QED
      BY <3>2, <3>3
  <2> QED
    BY <2>1, <2>2, <2>3
<1> QED
  BY <1>1, Invariance, PTL

------------------------------------------------------------------------------
(* Server implements Service.                                              *)

LEMMA InitContract == Init => Contract!Init
<1> SUFFICES ASSUME Init PROVE Contract!Init
  OBVIOUS
<1>1. options.transport \in {"stdio", "streamable-http", "unknown"}
  BY OptionsAssumption DEF Init, ServeInit, OptionSet, Transports
<1> QED
  BY <1>1 DEF Init, ServeInit, Contract!Init, Broke

\* What Service sees of a call.
Asks(c) == IF call[c] \in {"running", "writing"} THEN "taken" ELSE call[c]

\* A step that shows nothing of the requests, the signal, the failure or the
\* exit is a stutter of Service.
LEMMA ContractStutter ==
  ASSUME UNCHANGED <<options, ctxDone, exit>>,
         Broke' <=> Broke,
         \A c \in Calls : Asks(c)' = Asks(c)
  PROVE  UNCHANGED Contract!vars
BY DEF Asks, Broke, Contract!vars

LEMMA MainContract == ASSUME IInv, RunMain PROVE [Contract!Next]_Contract!vars
<1> USE DEF IInv, LifeInv, Broke
<1>1. CASE StartServing \/ BeginShutdown
  <2>1. UNCHANGED <<options, ctxDone, exit, call>>
        /\ (Broke' <=> Broke)
    BY <1>1 DEF StartServing, BeginShutdown
  <2> QED
    BY <2>1, ContractStutter DEF Asks
<1>2. ASSUME NEW s \in {"clean", "error"}, Exit(s)
      PROVE  /\ exit' = s
             /\ UNCHANGED <<options.transport, ctxDone, Broke,
                            [c \in Calls |-> Asks(c)]>>
  BY <1>2 DEF Exit, Asks
<1>3. CASE ShowVersion \/ SetupFails
  <2>1. Contract!Up /\ Contract!Unused /\ Contract!AllAnswered /\ ~Broke
    BY <1>3 DEF ShowVersion, SetupFails, Up, Contract!Up, Contract!Unused, Contract!AllAnswered
  <2> QED
    BY <1>2, <1>3, <2>1
    DEF ShowVersion, SetupFails, Contract!Next, Contract!Succeed, Contract!Fail, Asks
<1>4. CASE StopStdio
  <2>1. Contract!Up /\ ~Contract!HTTP /\ ctxDone
    BY <1>4 DEF StopStdio, Stdio, Up, Contract!Up, Contract!HTTP
  <2> QED
    BY <1>2, <1>4, <2>1 DEF StopStdio, Contract!Next, Contract!Succeed, Asks
<1>5. CASE SelectErr /\ server = "ended"
  <2>1. Contract!Up /\ ~Contract!HTTP
    BY <1>5 DEF SelectErr, Stdio, Up, Contract!Up, Contract!HTTP
  <2> QED
    BY <1>2, <1>5, <2>1 DEF SelectErr, Contract!Next, Contract!Succeed, Asks
<1>6. CASE SelectErr /\ Broke
  <2>1. Contract!Up
    BY <1>6 DEF SelectErr, Up, Contract!Up
  <2> QED
    BY <1>2, <1>6, <2>1 DEF SelectErr, Contract!Next, Contract!Fail, Asks
<1>7. CASE Drained
  <2>1. Contract!Up /\ Contract!HTTP /\ ctxDone /\ Contract!AllAnswered
    BY <1>7 DEF Drained, HTTP, Up, Contract!Up, Contract!HTTP, Contract!AllAnswered
  <2> QED
    BY <1>2, <1>7, <2>1 DEF Drained, Contract!Next, Contract!Succeed, Asks
<1> QED
  BY <1>1, <1>3, <1>4, <1>5, <1>6, <1>7 DEF RunMain, Main, SelectErr

LEMMA OutsideContract == ASSUME IInv, Outside PROVE [Contract!Next]_Contract!vars
<1> USE DEF IInv, LifeInv, Broke
<1>1. CASE Signal
  BY <1>1 DEF Signal, Up, Contract!Next, Contract!Signal, Contract!Up
<1>2. CASE Listening \/ StreamEnds
  <2>1. UNCHANGED <<options, ctxDone, exit, call>>
        /\ (Broke' <=> Broke)
    BY <1>2 DEF Listening, StreamEnds, Becomes
  <2> QED
    BY <2>1, ContractStutter DEF Asks
<1>3. CASE ServerFails
  BY <1>3 DEF ServerFails, Becomes, Up, Contract!Next, Contract!Break, Contract!Up
<1>4. CASE ShutdownTimeout
  BY <1>4 DEF ShutdownTimeout, Exit, Up, HTTP, Contract!Next, Contract!Fail, Contract!Up,
              Contract!HTTP
<1>5. ASSUME NEW c \in Calls, Respond(c) PROVE Contract!Answer(c)
  BY <1>5 DEF Respond, Advance, Up, TypeOK, ServeTypeOK, Contract!Answer, Contract!Up
<1> QED
  BY <1>1, <1>2, <1>3, <1>4, <1>5 DEF Outside, World, Contract!Next

LEMMA HandlerContract ==
  ASSUME IInv, NEW c \in Calls, Start(c) \/ Handle(c) \/ Return(c) \/ Cancelled(c)
  PROVE  [Contract!Next]_Contract!vars
<1> USE DEF IInv, LifeInv, Broke
<1>1. CASE Start(c)
  BY <1>1 DEF Start, Receive, Advance, Up, TypeOK, ServeTypeOK, Contract!Next, Contract!Take,
              Contract!Up
<1>2. CASE Handle(c)
  BY <1>2, ContractStutter DEF Handle, serveVars, Asks
<1>3. CASE Return(c) \/ Cancelled(c)
  <2>1. Finish(c)
    BY <1>3 DEF Return, Cancelled
  <2>2. UNCHANGED <<options, ctxDone, exit, server>> /\ \A d \in Calls : Asks(d)' = Asks(d)
    BY <2>1 DEF Finish, Advance, TypeOK, ServeTypeOK, Asks
  <2> QED
    BY <2>2, ContractStutter
<1> QED
  BY <1>1, <1>2, <1>3

\* Every step of the process is one that Service allows, or shows nothing.
LEMMA NextContract == IInv /\ [Next]_vars => [Contract!Next]_Contract!vars
<1> SUFFICES ASSUME IInv, [Next]_vars PROVE [Contract!Next]_Contract!vars
  OBVIOUS
<1>1. CASE UNCHANGED vars
  BY <1>1, ContractStutter DEF vars, serveVars, Asks, Broke
<1> QED
  BY <1>1, MainContract, OutsideContract, HandlerContract DEF Next, Finished

\* The process keeps what Service promises to clients and supervisor, for any
\* number of calls and over every transport.
THEOREM ContractKept == Spec => ImplementsService
BY InitContract, NextContract, Invariance, PTL DEF Spec, ImplementsService, Contract!Spec
==============================================================================
