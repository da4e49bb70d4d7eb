---------------------------- MODULE ProcessProofs ----------------------------
(***************************************************************************)
(* Proofs about Process, for any number of calls, pods, ports and ways to  *)
(* start: what runs above the admin calls is Server, so that what is       *)
(* proved of Server, and of an admin call, holds in the process.           *)
(***************************************************************************)
EXTENDS Process, TLAPS

\* The proofs about the admin calls and about the server, of this process.
AP == INSTANCE AdminCallProofs WITH ctxDone <- cancelled
SP == INSTANCE ServerProofs WITH
  phase <- [c \in Calls |-> Admin!Phase(c)],
  lease <- [c \in Calls |-> Admin!LeaseState(c)],
  reply <- [c \in Calls |-> Admin!Reply(c)]

\* They assume no more of the constants than Process does.
LEMMA CallsAssumed == AP!ConstantsAssumption
BY ConstantsAssumption DEF AP!URLs, Admin!URLs

LEMMA ServerAssumed == SP!OptionsAssumption /\ SP!ToolsAssumption
BY ConstantsAssumption
DEF SP!OptionsAssumption, SP!ToolsAssumption, SP!OptionSet, Tools!OptionSet,
    SP!Transports, Tools!Transports, SP!AllRequests, Tools!AllRequests,
    SP!ResourceTypes, Tools!ResourceTypes, SP!Filters, Tools!Filters,
    SP!Formats, Tools!Formats, SP!Singular, Tools!Singular, Admin!URLs

------------------------------------------------------------------------------
(* Below the handlers.                                                     *)

\* The actions of AdminCall, as the process takes them and as the proofs
\* about them know them.
LEMMA SameCalls ==
  /\ Admin!Init <=> AP!Init
  /\ \A c \in Calls :
       /\ \A t : Admin!Call(c, t) <=> AP!Call(c, t)
       /\ Admin!Cancel(c) <=> AP!Cancel(c)
       /\ Admin!Handler(c) <=> AP!Handler(c)
       /\ Admin!DialEnds(c) <=> AP!DialEnds(c)
       /\ Admin!Serve(c) <=> AP!Serve(c)
       /\ Admin!LoseConnection(c) <=> AP!LoseConnection(c)
BY DEF Admin!Init, AP!Init, Admin!vars, AP!vars, Admin!handlerVars, AP!handlerVars,
  Admin!chanVars, AP!chanVars, Admin!tunnelVars, AP!tunnelVars, Admin!Goto, AP!Goto,
  Admin!Call, AP!Call, Admin!Cancel, AP!Cancel, Admin!ResolveURL, AP!ResolveURL,
  Admin!ResolveNothing, AP!ResolveNothing, Admin!ForwardSetupFails,
  AP!ForwardSetupFails, Admin!ForwardPod, AP!ForwardPod, Admin!CloseStop,
  AP!CloseStop, Admin!SelectReady, AP!SelectReady, Admin!SelectErr, AP!SelectErr,
  Admin!SelectCancelled, AP!SelectCancelled, Admin!Connect, AP!Connect,
  Admin!Respond, AP!Respond, Admin!RequestFails, AP!RequestFails, Admin!Cleanup,
  AP!Cleanup, Admin!Dial, AP!Dial, Admin!FinishForward, AP!FinishForward,
  Admin!DialFails, AP!DialFails, Admin!Listen, AP!Listen, Admin!ListenFails,
  AP!ListenFails, Admin!StopForward, AP!StopForward, Admin!LoseConnection,
  AP!LoseConnection, Admin!SendErr, AP!SendErr, Admin!Resolve, AP!Resolve,
  Admin!Select, AP!Select, Admin!Get, AP!Get, Admin!Handler, AP!Handler,
  Admin!DialEnds, AP!DialEnds, Admin!Serve, AP!Serve,
  Admin!Tunnelled, AP!Tunnelled, Admin!Targets, AP!Targets, Admin!URLs, AP!URLs

\* A step of the process is one of its admin calls, or leaves them alone.
LEMMA NextCalls == [Next]_vars => [AP!Next]_AP!vars
<1> SUFFICES ASSUME [Next]_vars PROVE [AP!Next]_AP!vars
  OBVIOUS
<1>1. UNCHANGED callVars => UNCHANGED AP!vars
  BY DEF callVars, AP!vars, AP!handlerVars, AP!chanVars, AP!tunnelVars
<1>2. CASE UNCHANGED callVars
  BY <1>1, <1>2
<1>3. ASSUME NEW c \in Calls, Handle(c) \/ Return(c) \/ Tunnel(c) PROVE AP!Next
  BY <1>3, SameCalls
  DEF Handle, Ask, Work, Inherit, Disconnect, Return, Tunnel, Serve, AP!Next, AP!Targets,
      Tools!Targets
<1> QED
  BY <1>2, <1>3 DEF Next, vars, RunMain, Outside, Finished, Start, Refuse

\* A behaviour of the process is one that the proofs about AdminCall know.
LEMMA CallsSpec == Spec => AP!Spec
<1>1. Init => AP!Init
  BY SameCalls DEF Init
<1> QED
  BY <1>1, NextCalls, PTL DEF Spec, AP!Spec

------------------------------------------------------------------------------
(* Above them.                                                             *)

\* The lease of a call, as AdminCall implements it and as Server knows it.
LEMMA SameLease ==
  /\ (UNCHANGED AP!Lease!vars) => UNCHANGED Tools!leaseVars
  /\ AP!Lease!Init => Tools!Lease!Init
  /\ \A c \in Calls :
       /\ \A t : AP!Lease!Ask(c, t) => Tools!Lease!Ask(c, t)
       /\ AP!Lease!Open(c) => Tools!Lease!Open(c)
       /\ AP!Lease!End(c) => Tools!Lease!End(c)
       /\ \A r : AP!Lease!Answer(c, r) => Tools!Lease!Answer(c, r)
BY DEF AP!Lease!vars, Tools!leaseVars, AP!Lease!Init, Tools!Lease!Init, AP!Lease!Ask,
  Tools!Lease!Ask, AP!Lease!Open, Tools!Lease!Open, AP!Lease!End, Tools!Lease!End,
  AP!Lease!Answer, Tools!Lease!Answer, AP!Lease!Endpoint, Tools!Lease!Endpoint,
  AP!Phase, Admin!Phase, AP!LeaseState, Admin!LeaseState, AP!Running, Admin!Running,
  AP!Reply, Admin!Reply

\* Where nothing happens to the calls, nothing happens to their leases.
LEMMA LeasesStay == UNCHANGED callVars => UNCHANGED Tools!leaseVars
BY DEF callVars, Tools!leaseVars, Admin!Phase, Admin!LeaseState, Admin!Running,
  Admin!Reply

\* What a handler does is what Server has it do: its admin call shows as the
\* opening, the end or the answer of a lease, or not at all.
LEMMA HandleServer ==
  ASSUME AP!IInv, NEW c \in Calls, Handle(c) \/ Tunnel(c)
  PROVE  Tools!Handle(c) \/ UNCHANGED Tools!vars
<1>1. ASSUME Below, (UNCHANGED AP!Lease!vars) \/ AP!Lease!Open(c) \/ AP!Lease!End(c)
      PROVE  Tools!Handle(c) \/ UNCHANGED Tools!vars
  BY <1>1, SameLease
  DEF Below, serveVars, handlerVars, Tools!serveVars, Tools!vars, Tools!toolVars,
      Tools!Handle, Tools!Continues, Tools!Tunnel
<1>2. ASSUME NEW t \in Tools!Targets, Ask(c, t) PROVE Tools!Handle(c)
  <2>1. AP!Call(c, t) /\ t \in AP!Targets
    BY <1>2, SameCalls DEF Ask, Tools!Targets, AP!Targets
  <2>2. Tools!Lease!Ask(c, t)
    BY <2>1, AP!CallLease, CallsAssumed, SameLease
  <2> QED
    BY <1>2, <2>2
    DEF Ask, Tools!Handle, Tools!Continues, Tools!Ask, serveVars, Tools!serveVars
<1>3. CASE Work(c)
  <2>1. AP!Handler(c) /\ pc'[c] # "returned" /\ Below
    BY <1>3, SameCalls DEF Work
  <2>2. AP!Lease!Open(c) \/ UNCHANGED AP!Lease!vars
    BY <2>1, AP!HandlerLease, CallsAssumed
  <2> QED
    BY <1>1, <2>1, <2>2
<1>4. CASE Inherit(c) \/ Disconnect(c)
  <2>1. AP!Cancel(c) /\ Below
    BY <1>4, SameCalls DEF Inherit, Disconnect
  <2>2. UNCHANGED AP!Lease!vars
    BY <2>1, AP!CancelLease, CallsAssumed
  <2> QED
    BY <1>1, <2>1, <2>2
<1>5. CASE Tunnel(c)
  <2>1. (AP!DialEnds(c) \/ AP!Serve(c) \/ AP!LoseConnection(c)) /\ Below
    BY <1>5, SameCalls DEF Tunnel, Serve
  <2>2. AP!Lease!End(c) \/ UNCHANGED AP!Lease!vars
    BY <2>1, AP!TunnelEnds, CallsAssumed
  <2> QED
    BY <1>1, <2>1, <2>2
<1> QED
  BY <1>2, <1>3, <1>4, <1>5 DEF Handle

\* A handler returns with the answer of its admin call.
LEMMA ReturnServer ==
  ASSUME AP!IInv, NEW c \in Calls, Return(c) PROVE Tools!Return(c)
<1>1. AP!Handler(c) /\ pc'[c] = "returned"
  BY SameCalls DEF Return
<1>2. PICK r \in Pods \cup {DirectURL, DefaultURL, Failed} : AP!Lease!Answer(c, r)
  BY <1>1, AP!HandlerLease, CallsAssumed
<1> QED
  BY <1>2, SameLease DEF Return, Tools!Return, Tools!Returns, Tools!Answer

\* Every step of the process is a step of Server, or nothing that it sees.
LEMMA NextServer == AP!IInv /\ [Next]_vars => [Tools!Next]_Tools!vars
<1> SUFFICES ASSUME AP!IInv, [Next]_vars PROVE [Tools!Next]_Tools!vars
  OBVIOUS
<1>1. CASE RunMain \/ Outside
  BY <1>1, LeasesStay
  DEF RunMain, Outside, handlerVars, Tools!toolVars, Tools!RunMain, Tools!Outside, Tools!Next
<1>2. CASE UNCHANGED vars
  BY <1>2, LeasesStay
  DEF vars, serveVars, handlerVars, Tools!serveVars, Tools!toolVars, Tools!vars
<1>3. ASSUME NEW c \in Calls, Start(c) \/ Refuse(c) PROVE Tools!Next
  BY <1>3, LeasesStay
  DEF Start, Refuse, Tools!Start, Tools!Begin, Tools!Return, Tools!Returns,
      Tools!TargetFails, Tools!Next
<1>4. ASSUME NEW c \in Calls, Handle(c) \/ Tunnel(c) \/ Return(c)
      PROVE  [Tools!Next]_Tools!vars
  BY <1>4, HandleServer, ReturnServer DEF Tools!Next
<1> QED
  BY <1>1, <1>2, <1>3, <1>4 DEF Next, Finished

\* A process that starts is one that Server knows.
LEMMA InitServer == Init => Tools!Init
<1>1. Admin!Init => AP!Lease!Init
  BY SameCalls, AP!InitLease, CallsAssumed
<1> QED
  BY <1>1, SameLease DEF Init, Tools!Init, Tools!ToolsInit

\* The invariant of the admin calls, whatever is around them.
LEMMA CallsInv == Spec => []AP!IInv
BY CallsSpec, AP!Invariance, CallsAssumed, PTL

\* The process is the one that Server describes: of an admin call with its
\* goroutines and channels no more shows than its lease, and the handler that
\* waits for it returns at the step that gives the lease up.
THEOREM ServerImplemented == Spec => ImplementsServer
BY InitServer, NextServer, CallsInv, PTL DEF Spec, ImplementsServer, Tools!Spec

------------------------------------------------------------------------------
(* What the proofs about Server say of the process.                        *)

\* The actions and properties of Server, as the process takes and shows them
\* and as the proofs about them know them.
LEMMA SameServer ==
  /\ Tools!Init <=> SP!Init
  /\ [Tools!Next]_Tools!vars <=> [SP!Next]_SP!vars
  /\ Tools!GracefulHTTP <=> SP!GracefulHTTP
  /\ Tools!ExitStatusTells <=> SP!ExitStatusTells
  /\ Tools!SuccessIsEnvoys <=> SP!SuccessIsEnvoys
  /\ Tools!TunnelsServeRequests <=> SP!TunnelsServeRequests
BY DEF Tools!Stdio, SP!Stdio, Tools!HTTP, SP!HTTP, Tools!Up, SP!Up, Tools!Broke, SP!Broke, Tools!ServeInit,
  SP!ServeInit, Tools!Exit, SP!Exit,
  Tools!ShowVersion, SP!ShowVersion, Tools!SetupFails, SP!SetupFails,
  Tools!StartServing, SP!StartServing, Tools!StopStdio, SP!StopStdio,
  Tools!BeginShutdown, SP!BeginShutdown, Tools!SelectErr, SP!SelectErr, Tools!Drained,
  SP!Drained, Tools!ShutdownTimeout, SP!ShutdownTimeout, Tools!Main, SP!Main,
  Tools!Signal, SP!Signal, Tools!Becomes, SP!Becomes, Tools!Listening, SP!Listening,
  Tools!StreamEnds, SP!StreamEnds, Tools!ServerFails, SP!ServerFails, Tools!Advance,
  SP!Advance, Tools!Receive, SP!Receive, Tools!Finish, SP!Finish, Tools!Respond,
  SP!Respond, Tools!World, SP!World, Tools!Owed, SP!Owed, Tools!ExitStatusTells,
  SP!ExitStatusTells, Tools!Filters, SP!Filters, Tools!Formats, SP!Formats,
  Tools!ResourceTypes, SP!ResourceTypes, Tools!Singular, SP!Singular, Tools!InURL,
  SP!InURL, Tools!Page, SP!Page, Tools!Path, SP!Path, Tools!Valid, SP!Valid,
  Tools!Targets, SP!Targets, Tools!ToolsInit, SP!ToolsInit, Tools!Move, SP!Move,
  Tools!Begin, SP!Begin, Tools!TargetFails, SP!TargetFails, Tools!Refuse, SP!Refuse,
  Tools!Ask, SP!Ask, Tools!Tunnel, SP!Tunnel, Tools!Answer, SP!Answer, Tools!Error,
  SP!Error, Tools!Result, SP!Result, Tools!Returns, SP!Returns, Tools!Continues,
  SP!Continues, Tools!GivesUp, SP!GivesUp, Tools!Returned, SP!Returned,
  Tools!SuccessIsEnvoys, SP!SuccessIsEnvoys, Tools!TunnelsServeRequests,
  SP!TunnelsServeRequests, Tools!Init, SP!Init, Tools!Start, SP!Start, Tools!Handle,
  SP!Handle, Tools!Return, SP!Return, Tools!Cancelled, SP!Cancelled, Tools!RunMain,
  SP!RunMain, Tools!TimeOut, SP!TimeOut, Tools!Outside, SP!Outside, Tools!Finished,
  SP!Finished, Tools!Next, SP!Next, Tools!GracefulHTTP, SP!GracefulHTTP,
  Tools!serveVars, SP!serveVars, Tools!toolVars, SP!toolVars, Tools!leaseVars,
  SP!leaseVars, Tools!vars, SP!vars, Tools!Lease!vars, SP!Lease!vars, Tools!Lease!Init,
  SP!Lease!Init, Tools!Lease!Endpoint, SP!Lease!Endpoint, Tools!Lease!Ask,
  SP!Lease!Ask, Tools!Lease!Open, SP!Lease!Open, Tools!Lease!End, SP!Lease!End,
  Tools!Lease!Answer, SP!Lease!Answer

LEMMA ServerSpec == Spec => SP!Spec
BY ServerImplemented, SameServer, PTL DEF ImplementsServer, Tools!Spec, SP!Spec

\* What is proved of Server holds in the process: of the exits and of the
\* exit status, of the tunnels that are opened, and of what a success means.
THEOREM ServerSafe ==
  Spec => /\ []Tools!GracefulHTTP
          /\ []Tools!ExitStatusTells
          /\ []Tools!TunnelsServeRequests
          /\ []Tools!SuccessIsEnvoys
<1>1. Spec => /\ []SP!GracefulHTTP
              /\ []SP!ExitStatusTells
              /\ []SP!TunnelsServeRequests
              /\ []SP!SuccessIsEnvoys
  BY ServerSpec, ServerAssumed, SP!Graceful, SP!ExitStatus, SP!Tunnels, SP!Success, PTL
<1> QED
  BY <1>1, SameServer, PTL

\* The promise of Service, as the process shows it and as the proofs about
\* Server know it.
LEMMA SameContract ==
  /\ Tools!Contract!Init <=> SP!Contract!Init
  /\ [Tools!Contract!Next]_Tools!Contract!vars <=> [SP!Contract!Next]_SP!Contract!vars
BY DEF Tools!Contract!Init, SP!Contract!Init, Tools!Contract!Next, SP!Contract!Next,
  Tools!Contract!vars, SP!Contract!vars, Tools!Contract!Up, SP!Contract!Up,
  Tools!Contract!HTTP, SP!Contract!HTTP, Tools!Contract!Unused, SP!Contract!Unused,
  Tools!Contract!AllAnswered, SP!Contract!AllAnswered, Tools!Contract!Signal,
  SP!Contract!Signal, Tools!Contract!Break, SP!Contract!Break, Tools!Contract!Take,
  SP!Contract!Take, Tools!Contract!Answer, SP!Contract!Answer, Tools!Contract!Succeed,
  SP!Contract!Succeed, Tools!Contract!Fail, SP!Contract!Fail, Tools!Broke, SP!Broke

\* From the goroutines of a tunnel up to what a client and a supervisor see:
\* the process keeps what Service promises.
THEOREM ContractKept == Spec => Tools!ImplementsService
<1>1. Spec => SP!Contract!Spec
  BY ServerSpec, ServerAssumed, SP!ContractKept, PTL DEF SP!ImplementsService
<1> QED
  BY <1>1, SameContract, PTL
  DEF Tools!ImplementsService, Tools!Contract!Spec, SP!Contract!Spec

\* The properties of AdminCall, likewise.
LEMMA SameCallProperties ==
  /\ Admin!StopClosedOnce <=> AP!StopClosedOnce
  /\ Admin!ReleasedOnReturn <=> AP!ReleasedOnReturn
  /\ Admin!NotStoppedInUse <=> AP!NotStoppedInUse
  /\ Admin!MisdirectedOnlyAfterLoss <=> AP!MisdirectedOnlyAfterLoss
  /\ Admin!NoLostWakeup <=> AP!NoLostWakeup
BY DEF Admin!StopClosedOnce, AP!StopClosedOnce, Admin!ReleasedOnReturn,
  AP!ReleasedOnReturn, Admin!NotStoppedInUse, AP!NotStoppedInUse,
  Admin!MisdirectedOnlyAfterLoss, AP!MisdirectedOnlyAfterLoss, Admin!NoLostWakeup,
  AP!NoLostWakeup, Admin!Running, AP!Running, Admin!Tunnelled, AP!Tunnelled

\* What is proved of an admin call by itself holds under the handlers: its
\* channels are closed once, its tunnel is released, nothing waits in vain,
\* and whose answer it gets.
THEOREM CallsSafe ==
  Spec => /\ []Admin!StopClosedOnce
          /\ []Admin!ReleasedOnReturn
          /\ []Admin!NotStoppedInUse
          /\ []Admin!MisdirectedOnlyAfterLoss
          /\ []Admin!NoLostWakeup
<1>1. Spec => /\ []AP!StopClosedOnce
              /\ []AP!ReleasedOnReturn
              /\ []AP!NotStoppedInUse
              /\ []AP!MisdirectedOnlyAfterLoss
              /\ []AP!NoLostWakeup
  BY CallsSpec, CallsAssumed, AP!StopOnce, AP!Released, AP!Undisturbed, AP!Misdirection,
     AP!Awake, PTL
<1> QED
  BY <1>1, SameCallProperties, PTL

\* And each does a bounded amount of work in the process.
THEOREM CallsBounded == Spec => Admin!BoundedWork
<1>1. [\E c \in Calls : AP!Advances(c)]_AP!vars
        <=> [\E c \in Calls : Admin!Advances(c)]_Admin!vars
  BY DEF AP!Advances, Admin!Advances, AP!StepsLeft, Admin!StepsLeft, AP!HandlerLeft,
    Admin!HandlerLeft, AP!GoroutineLeft, Admin!GoroutineLeft, AP!vars, Admin!vars,
    AP!handlerVars, Admin!handlerVars, AP!chanVars, Admin!chanVars, AP!tunnelVars,
    Admin!tunnelVars
<1> QED
  BY <1>1, CallsSpec, CallsAssumed, AP!Bounded, PTL DEF AP!BoundedWork, Admin!BoundedWork

\* An HTTP server that exits with success leaves no request without an answer
\* and no tunnel that has not been told to stop.
THEOREM CleanExits == Spec => []CleanExit
<1>1. AP!TypeOK /\ SP!TypeOK /\ Tools!GracefulHTTP /\ Admin!StopClosedOnce => CleanExit
  <2> SUFFICES ASSUME AP!TypeOK, SP!TypeOK, Tools!GracefulHTTP, Admin!StopClosedOnce,
                      Tools!HTTP, exit = "clean", NEW c \in Calls
               PROVE  /\ call[c] \in {"none", "answered"}
                      /\ Admin!Running(c) => stopCh[c] = "closed"
    BY DEF CleanExit
  <2>1. ~Tools!Owed(c) /\ Admin!LeaseState(c) # "held"
    BY DEF Tools!GracefulHTTP
  <2>2. call[c] \in {"none", "answered"}
    BY <2>1 DEF SP!TypeOK, SP!ServeTypeOK, Tools!Owed
  <2>3. stopCh[c] \in {"open", "closed"}
    BY DEF AP!TypeOK, Admin!StopClosedOnce
  <2> QED
    BY <2>1, <2>2, <2>3 DEF Admin!LeaseState, Admin!Running
<1> QED
  BY <1>1, CallsSpec, AP!TypeCorrect, CallsAssumed, ServerSpec, SP!TypeCorrect,
     ServerAssumed, ServerSafe, CallsSafe, PTL
==============================================================================
