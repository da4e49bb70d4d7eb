--------------------------- MODULE AdminCallProofs ---------------------------
(***************************************************************************)
(* Proofs about AdminCall for any number of calls, pods and local ports.   *)
(* The inductive invariant IInv ties the two goroutines of a call to each  *)
(* other through the channels, and the kernel's listeners to the           *)
(* goroutines that own them.                                               *)
(***************************************************************************)
EXTENDS AdminCall, TLAPS

InUse(c) == pc[c] \in {"forwarding", "connect", "request", "cleanup"}
Over(c)  == fw[c] \in {"finished", "exited"}

\* Before ForwardPod starts it, the tunnel has no trace.
FreshInv ==
  \A c \in Calls :
    /\ pc[c] \in {"idle", "resolve"} => fw[c] = "none"
    /\ pc[c] = "forwarding" => fw[c] # "none"
    /\ fw[c] = "none" => stopCh[c] = "open" /\ ~readyCh[c]
    /\ fw[c] # "none" => target[c] \in Pods

\* How the channels follow ForwardPorts: it is over exactly when it has an
\* outcome, sends that once, was ready only if it had listened, and what it
\* sent is there as long as the select may take it.
ChannelInv ==
  \A c \in Calls :
    /\ Over(c) <=> fwErr[c] # "none"
    /\ errCh[c] => fw[c] = "exited"
    /\ fw[c] = "exited" /\ pc[c] = "forwarding" => errCh[c]
    /\ fw[c] = "serving" => readyCh[c]
    /\ readyCh[c] => /\ fw[c] = "serving" \/ Over(c)
                     /\ localPort[c] \in LocalPorts
                     /\ fwErr[c] # "failed"

\* How the handler follows the channels: nobody has closed stopCh while the
\* tunnel is in use, and once it returns it has closed it or need not.
HandlerInv ==
  \A c \in Calls :
    /\ stopCh[c] # "panic"
    /\ InUse(c) => stopCh[c] = "open"
    /\ pc[c] = "returned" /\ Running(c) => stopCh[c] = "closed"
    /\ fwErr[c] = "stopped" => stopCh[c] = "closed"
    /\ pc[c] \in {"connect", "request", "cleanup"} /\ Tunnelled(c) => readyCh[c]

\* A local port is held by exactly the tunnel that serves it.
PortInv ==
  \A c \in Calls, p \in LocalPorts :
    listener[p] = c <=> fw[c] = "serving" /\ localPort[c] = p

\* What a GET is connected to: its own tunnel, or, once that is lost, any.
ConnectedTo(c) ==
  pc[c] = "request" =>
    IF Tunnelled(c)
      THEN /\ conn[c] \in Calls /\ fw[conn[c]] # "none"
           /\ conn[c] = c \/ fwErr[c] = "lost"
      ELSE conn[c] = Lease!Endpoint(target[c])

\* Where an answer can have come from.
AnsweredBy(c) ==
  IF pc[c] \in {"cleanup", "returned"}
    THEN \/ answer[c] \in {Failed, Lease!Endpoint(target[c])}
         \/ answer[c] \in Pods /\ fwErr[c] = "lost"
    ELSE answer[c] = Unanswered

AnswerInv == \A c \in Calls : ConnectedTo(c) /\ AnsweredBy(c)

IInv == TypeOK /\ FreshInv /\ ChannelInv /\ HandlerInv /\ PortInv /\ AnswerInv
------------------------------------------------------------------------------
\* The initial values have their types.
LEMMA InitType == Init => TypeOK
BY ConstantsAssumption DEF Init, TypeOK, Targets, Places, FwPlaces, FwOutcomes,
                           Answers, URLs

\* Before the first call nothing is started, open, listening or answered.
LEMMA InitInv == Init => IInv
BY ConstantsAssumption, InitType
   DEF IInv, Init, FreshInv, ChannelInv, HandlerInv, PortInv,
                AnswerInv, ConnectedTo, AnsweredBy, InUse, Over, Running, Tunnelled

\* No action leaves the types; localPort[c] is read by Connect only once set.
LEMMA NextType == IInv /\ [Next]_vars => TypeOK'
<1> SUFFICES ASSUME IInv, [Next]_vars PROVE TypeOK'
  OBVIOUS
<1> USE ConstantsAssumption DEF IInv, TypeOK, Targets, Places, FwPlaces, FwOutcomes,
      Answers, URLs, Goto, handlerVars, chanVars, tunnelVars, Tunnelled
<1>1. ASSUME NEW c \in Calls, ResolveURL(c) PROVE TypeOK'
  BY <1>1 DEF ResolveURL
<1>2. ASSUME NEW c \in Calls, ResolveNothing(c) PROVE TypeOK'
  BY <1>2 DEF ResolveNothing
<1>3. ASSUME NEW c \in Calls, ForwardSetupFails(c) PROVE TypeOK'
  BY <1>3 DEF ForwardSetupFails
<1>4. ASSUME NEW c \in Calls, ForwardPod(c) PROVE TypeOK'
  BY <1>4 DEF ForwardPod
<1>5. ASSUME NEW c \in Calls, SelectReady(c) PROVE TypeOK'
  BY <1>5 DEF SelectReady
<1>6. ASSUME NEW c \in Calls, SelectErr(c) PROVE TypeOK'
  BY <1>6 DEF SelectErr
<1>7. ASSUME NEW c \in Calls, SelectCancelled(c) PROVE TypeOK'
  BY <1>7 DEF SelectCancelled, CloseStop
<1>8. ASSUME NEW c \in Calls, Connect(c) PROVE TypeOK'
  BY <1>8 DEF Connect, ChannelInv, HandlerInv
<1>9. ASSUME NEW c \in Calls, Respond(c) PROVE TypeOK'
  BY <1>9 DEF Respond, AnswerInv, FreshInv
<1>10. ASSUME NEW c \in Calls, RequestFails(c) PROVE TypeOK'
  BY <1>10 DEF RequestFails
<1>11. ASSUME NEW c \in Calls, Cleanup(c) PROVE TypeOK'
  BY <1>11 DEF Cleanup, CloseStop
<1>12. ASSUME NEW c \in Calls, Dial(c) PROVE TypeOK'
  BY <1>12 DEF Dial
<1>13. ASSUME NEW c \in Calls, DialFails(c) PROVE TypeOK'
  BY <1>13 DEF DialFails, FinishForward
<1>14. ASSUME NEW c \in Calls, ListenFails(c) PROVE TypeOK'
  BY <1>14 DEF ListenFails, FinishForward
<1>15. ASSUME NEW c \in Calls, StopForward(c) PROVE TypeOK'
  BY <1>15 DEF StopForward, FinishForward
<1>16. ASSUME NEW c \in Calls, LoseConnection(c) PROVE TypeOK'
  BY <1>16 DEF LoseConnection, FinishForward
<1>17. ASSUME NEW c \in Calls, SendErr(c) PROVE TypeOK'
  BY <1>17 DEF SendErr
<1>18. ASSUME NEW c \in Calls, Cancel(c) PROVE TypeOK'
  BY <1>18 DEF Cancel
<1>19. ASSUME NEW c \in Calls, NEW p \in LocalPorts, Listen(c, p) PROVE TypeOK'
  BY <1>19 DEF Listen
<1>20. ASSUME NEW c \in Calls, NEW t \in Targets, Call(c, t) PROVE TypeOK'
  BY <1>20 DEF Call
<1>21. ASSUME UNCHANGED vars PROVE TypeOK'
  BY <1>21 DEF vars
<1> QED
  BY <1>1, <1>2, <1>3, <1>4, <1>5, <1>6, <1>7, <1>8, <1>9, <1>10, <1>11, <1>12, <1>13, <1>14, <1>15, <1>16, <1>17, <1>18, <1>19, <1>20, <1>21
  DEF Next, Handler, Resolve, Select, Get, DialEnds, Serve, Quiescent

\* A call that never got to ForwardPod has untouched channels and no tunnel.
LEMMA NextFreshInv == IInv /\ [Next]_vars => FreshInv'
<1> SUFFICES ASSUME IInv, [Next]_vars PROVE FreshInv'
  OBVIOUS
<1> USE ConstantsAssumption
    DEF IInv, TypeOK, FreshInv, ChannelInv, HandlerInv, Over, Goto, handlerVars, chanVars, tunnelVars, Tunnelled
<1>1. ASSUME NEW c \in Calls, ResolveURL(c) PROVE FreshInv'
  BY <1>1 DEF ResolveURL
<1>2. ASSUME NEW c \in Calls, ResolveNothing(c) PROVE FreshInv'
  BY <1>2 DEF ResolveNothing
<1>3. ASSUME NEW c \in Calls, ForwardSetupFails(c) PROVE FreshInv'
  BY <1>3 DEF ForwardSetupFails
<1>4. ASSUME NEW c \in Calls, ForwardPod(c) PROVE FreshInv'
  BY <1>4 DEF ForwardPod
<1>5. ASSUME NEW c \in Calls, SelectReady(c) PROVE FreshInv'
  BY <1>5 DEF SelectReady
<1>6. ASSUME NEW c \in Calls, SelectErr(c) PROVE FreshInv'
  BY <1>6 DEF SelectErr
<1>7. ASSUME NEW c \in Calls, SelectCancelled(c) PROVE FreshInv'
  BY <1>7 DEF SelectCancelled, CloseStop
<1>8. ASSUME NEW c \in Calls, Connect(c) PROVE FreshInv'
  BY <1>8 DEF Connect
<1>9. ASSUME NEW c \in Calls, Respond(c) PROVE FreshInv'
  BY <1>9 DEF Respond
<1>10. ASSUME NEW c \in Calls, RequestFails(c) PROVE FreshInv'
  BY <1>10 DEF RequestFails
<1>11. ASSUME NEW c \in Calls, Cleanup(c) PROVE FreshInv'
  BY <1>11 DEF Cleanup, CloseStop
<1>12. ASSUME NEW c \in Calls, Dial(c) PROVE FreshInv'
  BY <1>12 DEF Dial
<1>13. ASSUME NEW c \in Calls, DialFails(c) PROVE FreshInv'
  BY <1>13 DEF DialFails, FinishForward
<1>14. ASSUME NEW c \in Calls, ListenFails(c) PROVE FreshInv'
  BY <1>14 DEF ListenFails, FinishForward
<1>15. ASSUME NEW c \in Calls, StopForward(c) PROVE FreshInv'
  BY <1>15 DEF StopForward, FinishForward
<1>16. ASSUME NEW c \in Calls, LoseConnection(c) PROVE FreshInv'
  BY <1>16 DEF LoseConnection, FinishForward
<1>17. ASSUME NEW c \in Calls, SendErr(c) PROVE FreshInv'
  BY <1>17 DEF SendErr
<1>18. ASSUME NEW c \in Calls, Cancel(c) PROVE FreshInv'
  BY <1>18 DEF Cancel
<1>19. ASSUME NEW c \in Calls, NEW p \in LocalPorts, Listen(c, p) PROVE FreshInv'
  BY <1>19 DEF Listen
<1>20. ASSUME NEW c \in Calls, NEW t \in Targets, Call(c, t) PROVE FreshInv'
  BY <1>20 DEF Call
<1>21. ASSUME UNCHANGED vars PROVE FreshInv'
  BY <1>21 DEF vars
<1> QED
  BY <1>1, <1>2, <1>3, <1>4, <1>5, <1>6, <1>7, <1>8, <1>9, <1>10, <1>11, <1>12, <1>13, <1>14, <1>15, <1>16, <1>17, <1>18, <1>19, <1>20, <1>21
  DEF Next, Handler, Resolve, Select, Get, DialEnds, Serve, Quiescent

\* The state of the three channels follows where the two goroutines are.
LEMMA NextChannelInv == IInv /\ [Next]_vars => ChannelInv'
<1> SUFFICES ASSUME IInv, [Next]_vars PROVE ChannelInv'
  OBVIOUS
<1> USE ConstantsAssumption
    DEF IInv, TypeOK, FreshInv, ChannelInv, Over, Goto, handlerVars, chanVars, tunnelVars, Tunnelled
<1>1. ASSUME NEW c \in Calls, ResolveURL(c) PROVE ChannelInv'
  BY <1>1 DEF ResolveURL
<1>2. ASSUME NEW c \in Calls, ResolveNothing(c) PROVE ChannelInv'
  BY <1>2 DEF ResolveNothing
<1>3. ASSUME NEW c \in Calls, ForwardSetupFails(c) PROVE ChannelInv'
  BY <1>3 DEF ForwardSetupFails
<1>4. ASSUME NEW c \in Calls, ForwardPod(c) PROVE ChannelInv'
  BY <1>4 DEF ForwardPod
<1>5. ASSUME NEW c \in Calls, SelectReady(c) PROVE ChannelInv'
  BY <1>5 DEF SelectReady
<1>6. ASSUME NEW c \in Calls, SelectErr(c) PROVE ChannelInv'
  BY <1>6 DEF SelectErr
<1>7. ASSUME NEW c \in Calls, SelectCancelled(c) PROVE ChannelInv'
  BY <1>7 DEF SelectCancelled, CloseStop
<1>8. ASSUME NEW c \in Calls, Connect(c) PROVE ChannelInv'
  BY <1>8 DEF Connect
<1>9. ASSUME NEW c \in Calls, Respond(c) PROVE ChannelInv'
  BY <1>9 DEF Respond
<1>10. ASSUME NEW c \in Calls, RequestFails(c) PROVE ChannelInv'
  BY <1>10 DEF RequestFails
<1>11. ASSUME NEW c \in Calls, Cleanup(c) PROVE ChannelInv'
  BY <1>11 DEF Cleanup, CloseStop
<1>12. ASSUME NEW c \in Calls, Dial(c) PROVE ChannelInv'
  BY <1>12 DEF Dial
<1>13. ASSUME NEW c \in Calls, DialFails(c) PROVE ChannelInv'
  BY <1>13 DEF DialFails, FinishForward
<1>14. ASSUME NEW c \in Calls, ListenFails(c) PROVE ChannelInv'
  BY <1>14 DEF ListenFails, FinishForward
<1>15. ASSUME NEW c \in Calls, StopForward(c) PROVE ChannelInv'
  BY <1>15 DEF StopForward, FinishForward
<1>16. ASSUME NEW c \in Calls, LoseConnection(c) PROVE ChannelInv'
  BY <1>16 DEF LoseConnection, FinishForward
<1>17. ASSUME NEW c \in Calls, SendErr(c) PROVE ChannelInv'
  BY <1>17 DEF SendErr
<1>18. ASSUME NEW c \in Calls, Cancel(c) PROVE ChannelInv'
  BY <1>18 DEF Cancel
<1>19. ASSUME NEW c \in Calls, NEW p \in LocalPorts, Listen(c, p) PROVE ChannelInv'
  BY <1>19 DEF Listen
<1>20. ASSUME NEW c \in Calls, NEW t \in Targets, Call(c, t) PROVE ChannelInv'
  BY <1>20 DEF Call
<1>21. ASSUME UNCHANGED vars PROVE ChannelInv'
  BY <1>21 DEF vars
<1> QED
  BY <1>1, <1>2, <1>3, <1>4, <1>5, <1>6, <1>7, <1>8, <1>9, <1>10, <1>11, <1>12, <1>13, <1>14, <1>15, <1>16, <1>17, <1>18, <1>19, <1>20, <1>21
  DEF Next, Handler, Resolve, Select, Get, DialEnds, Serve, Quiescent

\* Where the handler is tells whether stopCh is still its own to close.
LEMMA NextHandlerInv == IInv /\ [Next]_vars => HandlerInv'
<1> SUFFICES ASSUME IInv, [Next]_vars PROVE HandlerInv'
  OBVIOUS
<1> USE ConstantsAssumption
    DEF IInv, TypeOK, HandlerInv, ChannelInv, FreshInv, InUse, Over, Running, URLs,
        Goto, handlerVars, chanVars, tunnelVars, Tunnelled
<1>1. ASSUME NEW c \in Calls, ResolveURL(c) PROVE HandlerInv'
  BY <1>1 DEF ResolveURL
<1>2. ASSUME NEW c \in Calls, ResolveNothing(c) PROVE HandlerInv'
  BY <1>2 DEF ResolveNothing
<1>3. ASSUME NEW c \in Calls, ForwardSetupFails(c) PROVE HandlerInv'
  BY <1>3 DEF ForwardSetupFails
<1>4. ASSUME NEW c \in Calls, ForwardPod(c) PROVE HandlerInv'
  BY <1>4 DEF ForwardPod
<1>5. ASSUME NEW c \in Calls, SelectReady(c) PROVE HandlerInv'
  BY <1>5 DEF SelectReady
<1>6. ASSUME NEW c \in Calls, SelectErr(c) PROVE HandlerInv'
  BY <1>6 DEF SelectErr
<1>7. ASSUME NEW c \in Calls, SelectCancelled(c) PROVE HandlerInv'
  BY <1>7 DEF SelectCancelled, CloseStop
<1>8. ASSUME NEW c \in Calls, Connect(c) PROVE HandlerInv'
  BY <1>8 DEF Connect
<1>9. ASSUME NEW c \in Calls, Respond(c) PROVE HandlerInv'
  BY <1>9 DEF Respond
<1>10. ASSUME NEW c \in Calls, RequestFails(c) PROVE HandlerInv'
  BY <1>10 DEF RequestFails
<1>11. ASSUME NEW c \in Calls, Cleanup(c) PROVE HandlerInv'
  BY <1>11 DEF Cleanup, CloseStop
<1>12. ASSUME NEW c \in Calls, Dial(c) PROVE HandlerInv'
  BY <1>12 DEF Dial
<1>13. ASSUME NEW c \in Calls, DialFails(c) PROVE HandlerInv'
  BY <1>13 DEF DialFails, FinishForward
<1>14. ASSUME NEW c \in Calls, ListenFails(c) PROVE HandlerInv'
  BY <1>14 DEF ListenFails, FinishForward
<1>15. ASSUME NEW c \in Calls, StopForward(c) PROVE HandlerInv'
  BY <1>15 DEF StopForward, FinishForward
<1>16. ASSUME NEW c \in Calls, LoseConnection(c) PROVE HandlerInv'
  BY <1>16 DEF LoseConnection, FinishForward
<1>17. ASSUME NEW c \in Calls, SendErr(c) PROVE HandlerInv'
  BY <1>17 DEF SendErr
<1>18. ASSUME NEW c \in Calls, Cancel(c) PROVE HandlerInv'
  BY <1>18 DEF Cancel
<1>19. ASSUME NEW c \in Calls, NEW p \in LocalPorts, Listen(c, p) PROVE HandlerInv'
  BY <1>19 DEF Listen
<1>20. ASSUME NEW c \in Calls, NEW t \in Targets, Call(c, t) PROVE HandlerInv'
  BY <1>20 DEF Call
<1>21. ASSUME UNCHANGED vars PROVE HandlerInv'
  BY <1>21 DEF vars
<1> QED
  BY <1>1, <1>2, <1>3, <1>4, <1>5, <1>6, <1>7, <1>8, <1>9, <1>10, <1>11, <1>12, <1>13, <1>14, <1>15, <1>16, <1>17, <1>18, <1>19, <1>20, <1>21
  DEF Next, Handler, Resolve, Select, Get, DialEnds, Serve, Quiescent

\* A serving tunnel is the one listener on the port that it was given.
LEMMA NextPortInv == IInv /\ [Next]_vars => PortInv'
<1> SUFFICES ASSUME IInv, [Next]_vars PROVE PortInv'
  OBVIOUS
<1> USE ConstantsAssumption
    DEF IInv, TypeOK, PortInv, FreshInv, ChannelInv, Over, Goto, handlerVars, chanVars, tunnelVars, Tunnelled
<1>1. ASSUME NEW c \in Calls, ResolveURL(c) PROVE PortInv'
  BY <1>1 DEF ResolveURL
<1>2. ASSUME NEW c \in Calls, ResolveNothing(c) PROVE PortInv'
  BY <1>2 DEF ResolveNothing
<1>3. ASSUME NEW c \in Calls, ForwardSetupFails(c) PROVE PortInv'
  BY <1>3 DEF ForwardSetupFails
<1>4. ASSUME NEW c \in Calls, ForwardPod(c) PROVE PortInv'
  BY <1>4 DEF ForwardPod
<1>5. ASSUME NEW c \in Calls, SelectReady(c) PROVE PortInv'
  BY <1>5 DEF SelectReady
<1>6. ASSUME NEW c \in Calls, SelectErr(c) PROVE PortInv'
  BY <1>6 DEF SelectErr
<1>7. ASSUME NEW c \in Calls, SelectCancelled(c) PROVE PortInv'
  BY <1>7 DEF SelectCancelled, CloseStop
<1>8. ASSUME NEW c \in Calls, Connect(c) PROVE PortInv'
  BY <1>8 DEF Connect
<1>9. ASSUME NEW c \in Calls, Respond(c) PROVE PortInv'
  BY <1>9 DEF Respond
<1>10. ASSUME NEW c \in Calls, RequestFails(c) PROVE PortInv'
  BY <1>10 DEF RequestFails
<1>11. ASSUME NEW c \in Calls, Cleanup(c) PROVE PortInv'
  BY <1>11 DEF Cleanup, CloseStop
<1>12. ASSUME NEW c \in Calls, Dial(c) PROVE PortInv'
  BY <1>12 DEF Dial
<1>13. ASSUME NEW c \in Calls, DialFails(c) PROVE PortInv'
  BY <1>13 DEF DialFails, FinishForward
<1>14. ASSUME NEW c \in Calls, ListenFails(c) PROVE PortInv'
  BY <1>14 DEF ListenFails, FinishForward
<1>15. ASSUME NEW c \in Calls, StopForward(c) PROVE PortInv'
  BY <1>15 DEF StopForward, FinishForward
<1>16. ASSUME NEW c \in Calls, LoseConnection(c) PROVE PortInv'
  BY <1>16 DEF LoseConnection, FinishForward
<1>17. ASSUME NEW c \in Calls, SendErr(c) PROVE PortInv'
  BY <1>17 DEF SendErr
<1>18. ASSUME NEW c \in Calls, Cancel(c) PROVE PortInv'
  BY <1>18 DEF Cancel
<1>19. ASSUME NEW c \in Calls, NEW p \in LocalPorts, Listen(c, p) PROVE PortInv'
  BY <1>19 DEF Listen
<1>20. ASSUME NEW c \in Calls, NEW t \in Targets, Call(c, t) PROVE PortInv'
  BY <1>20 DEF Call
<1>21. ASSUME UNCHANGED vars PROVE PortInv'
  BY <1>21 DEF vars
<1> QED
  BY <1>1, <1>2, <1>3, <1>4, <1>5, <1>6, <1>7, <1>8, <1>9, <1>10, <1>11, <1>12, <1>13, <1>14, <1>15, <1>16, <1>17, <1>18, <1>19, <1>20, <1>21
  DEF Next, Handler, Resolve, Select, Get, DialEnds, Serve, Quiescent

\* A GET is connected to the call's own tunnel unless that one was lost.
LEMMA NextAnswerInv == IInv /\ [Next]_vars => AnswerInv'
<1> SUFFICES ASSUME IInv, [Next]_vars PROVE AnswerInv'
  OBVIOUS
<1> USE ConstantsAssumption
    DEF IInv, TypeOK, AnswerInv, ConnectedTo, AnsweredBy, FreshInv, ChannelInv, HandlerInv, PortInv, Over, InUse, Lease!Endpoint,
        URLs, Goto, handlerVars, chanVars, tunnelVars, Tunnelled
<1>1. ASSUME NEW c \in Calls, ResolveURL(c) PROVE AnswerInv'
  BY <1>1 DEF ResolveURL
<1>2. ASSUME NEW c \in Calls, ResolveNothing(c) PROVE AnswerInv'
  BY <1>2 DEF ResolveNothing
<1>3. ASSUME NEW c \in Calls, ForwardSetupFails(c) PROVE AnswerInv'
  BY <1>3 DEF ForwardSetupFails
<1>4. ASSUME NEW c \in Calls, ForwardPod(c) PROVE AnswerInv'
  BY <1>4 DEF ForwardPod
<1>5. ASSUME NEW c \in Calls, SelectReady(c) PROVE AnswerInv'
  BY <1>5 DEF SelectReady
<1>6. ASSUME NEW c \in Calls, SelectErr(c) PROVE AnswerInv'
  BY <1>6 DEF SelectErr
<1>7. ASSUME NEW c \in Calls, SelectCancelled(c) PROVE AnswerInv'
  BY <1>7 DEF SelectCancelled, CloseStop
<1>8. ASSUME NEW c \in Calls, Connect(c) PROVE AnswerInv'
  <2> SUFFICES ASSUME NEW d \in Calls PROVE ConnectedTo(d)' /\ AnsweredBy(d)'
    BY DEF AnswerInv
  <2>1. CASE d # c
    BY <1>8, <2>1 DEF Connect
  <2>2. AnsweredBy(c)'
    BY <1>8 DEF Connect
  <2>3. CASE Tunnelled(c)
    <3>1. localPort[c] \in LocalPorts /\ (fw[c] = "serving" \/ Over(c))
      BY <1>8, <2>3 DEF Connect
    <3>2. PICK e \in Calls : e = listener[localPort[c]]
      BY <1>8, <2>3, <3>1 DEF Connect
    <3>3. fw[e] = "serving"
      BY <3>1, <3>2
    <3>4. fw[c] = "serving" => e = c
      BY <3>1, <3>2
    <3>5. Over(c) => fwErr[c] = "lost"
      BY <1>8 DEF Connect, FwOutcomes
    <3>6. conn' = [conn EXCEPT ![c] = e]
      BY <1>8, <2>3, <3>2 DEF Connect, Targets
    <3> QED
      BY <1>8, <2>1, <2>2, <2>3, <3>1, <3>3, <3>4, <3>5, <3>6 DEF Connect
  <2>4. CASE ~Tunnelled(c)
    BY <1>8, <2>1, <2>2, <2>4 DEF Connect
  <2> QED
    BY <2>3, <2>4
<1>9. ASSUME NEW c \in Calls, Respond(c) PROVE AnswerInv'
  <2> SUFFICES ASSUME NEW d \in Calls PROVE ConnectedTo(d)' /\ AnsweredBy(d)'
    BY DEF AnswerInv
  <2>1. CASE d # c
    BY <1>9, <2>1 DEF Respond
  <2>2. ConnectedTo(c)'
    BY <1>9 DEF Respond
  <2>3. CASE Tunnelled(c)
    <3>1. conn[c] \in Calls /\ target[conn[c]] \in Pods
      BY <1>9, <2>3 DEF Respond
    <3>2. answer' = [answer EXCEPT ![c] = target[conn[c]]]
      BY <1>9, <3>1 DEF Respond
    <3>3. conn[c] = c \/ fwErr[c] = "lost"
      BY <1>9, <2>3 DEF Respond
    <3> QED
      BY <1>9, <2>1, <2>2, <2>3, <3>1, <3>2, <3>3 DEF Respond
  <2>4. CASE ~Tunnelled(c)
    BY <1>9, <2>1, <2>2, <2>4 DEF Respond, Targets
  <2> QED
    BY <2>3, <2>4
<1>10. ASSUME NEW c \in Calls, RequestFails(c) PROVE AnswerInv'
  BY <1>10 DEF RequestFails
<1>11. ASSUME NEW c \in Calls, Cleanup(c) PROVE AnswerInv'
  BY <1>11 DEF Cleanup, CloseStop
<1>12. ASSUME NEW c \in Calls, Dial(c) PROVE AnswerInv'
  BY <1>12 DEF Dial
<1>13. ASSUME NEW c \in Calls, DialFails(c) PROVE AnswerInv'
  BY <1>13 DEF DialFails, FinishForward
<1>14. ASSUME NEW c \in Calls, ListenFails(c) PROVE AnswerInv'
  BY <1>14 DEF ListenFails, FinishForward
<1>15. ASSUME NEW c \in Calls, StopForward(c) PROVE AnswerInv'
  BY <1>15 DEF StopForward, FinishForward
<1>16. ASSUME NEW c \in Calls, LoseConnection(c) PROVE AnswerInv'
  BY <1>16 DEF LoseConnection, FinishForward
<1>17. ASSUME NEW c \in Calls, SendErr(c) PROVE AnswerInv'
  BY <1>17 DEF SendErr
<1>18. ASSUME NEW c \in Calls, Cancel(c) PROVE AnswerInv'
  BY <1>18 DEF Cancel
<1>19. ASSUME NEW c \in Calls, NEW p \in LocalPorts, Listen(c, p) PROVE AnswerInv'
  BY <1>19 DEF Listen
<1>20. ASSUME NEW c \in Calls, NEW t \in Targets, Call(c, t) PROVE AnswerInv'
  BY <1>20 DEF Call
<1>21. ASSUME UNCHANGED vars PROVE AnswerInv'
  BY <1>21 DEF vars
<1> QED
  BY <1>1, <1>2, <1>3, <1>4, <1>5, <1>6, <1>7, <1>8, <1>9, <1>10, <1>11, <1>12, <1>13, <1>14, <1>15, <1>16, <1>17, <1>18, <1>19, <1>20, <1>21
  DEF Next, Handler, Resolve, Select, Get, DialEnds, Serve, Quiescent

\* The invariant is inductive.
LEMMA NextInv == IInv /\ [Next]_vars => IInv'
BY NextType, NextFreshInv, NextChannelInv, NextHandlerInv, NextPortInv,
   NextAnswerInv DEF IInv

------------------------------------------------------------------------------
\* The invariant holds of every behaviour.
THEOREM Invariance == Spec => []IInv
BY InitInv, NextInv, PTL DEF Spec

\* Every variable keeps its type: among others, GetPorts is never asked for
\* the port of a tunnel that has none.
THEOREM TypeCorrect == Spec => []TypeOK
<1>1. IInv => TypeOK
  BY DEF IInv
<1> QED
  BY <1>1, Invariance, PTL

\* No stop channel is closed twice, whatever the interleaving of
\* cancellation, loss of the tunnel and clean-up.
THEOREM StopOnce == Spec => []StopClosedOnce
<1>1. IInv => StopClosedOnce
  BY DEF IInv, HandlerInv, StopClosedOnce
<1> QED
  BY <1>1, Invariance, PTL

\* A call that has returned has stopped its tunnel or has none running.
THEOREM Released == Spec => []ReleasedOnReturn
<1>1. IInv => ReleasedOnReturn
  BY DEF IInv, HandlerInv, ReleasedOnReturn
<1> QED
  BY <1>1, Invariance, PTL

\* Tear-down never cuts the call's own GET.
THEOREM Undisturbed == Spec => []NotStoppedInUse
<1>1. IInv => NotStoppedInUse
  <2> SUFFICES ASSUME IInv, NEW c \in Calls, fwErr[c] = "stopped"
               PROVE  pc[c] = "returned"
    BY DEF NotStoppedInUse
  <2>1. stopCh[c] = "closed" /\ fw[c] # "none"
    BY DEF IInv, HandlerInv, ChannelInv, Over
  <2>2. ~InUse(c) /\ pc[c] \notin {"idle", "resolve"}
    BY <2>1 DEF IInv, HandlerInv, FreshInv
  <2> QED
    BY <2>2 DEF IInv, TypeOK, Places, InUse
<1> QED
  BY <1>1, Invariance, PTL

\* Only a call whose own tunnel was lost can get another pod's answer.
THEOREM Misdirection == Spec => []MisdirectedOnlyAfterLoss
<1>1. IInv => MisdirectedOnlyAfterLoss
  <2> SUFFICES ASSUME IInv, NEW c \in Calls, Tunnelled(c),
                      answer[c] \in Pods, answer[c] # target[c]
               PROVE  fwErr[c] = "lost"
    BY DEF MisdirectedOnlyAfterLoss
  <2>1. answer[c] \notin {Failed, Lease!Endpoint(target[c])}
    BY ConstantsAssumption DEF Tunnelled, Lease!Endpoint
  <2>2. answer[c] # Unanswered
    BY ConstantsAssumption
  <2> QED
    BY <2>1, <2>2 DEF IInv, AnswerInv, AnsweredBy
<1> QED
  BY <1>1, Invariance, PTL

\* A select that waits is woken: ForwardPorts has readied the tunnel, or has
\* sent its error, or has still to do one of the two and can.
THEOREM Awake == Spec => []NoLostWakeup
<1>1. IInv => NoLostWakeup
  <2> SUFFICES ASSUME IInv, NEW c \in Calls
               PROVE  /\ pc[c] = "forwarding" =>
                           \/ readyCh[c] \/ errCh[c]
                           \/ fw[c] \in {"dialing", "dialed", "finished"}
                      /\ fw[c] = "finished" => ~errCh[c]
    BY DEF NoLostWakeup
  <2> QED
    BY DEF IInv, TypeOK, FwPlaces, FreshInv, ChannelInv
<1> QED
  BY <1>1, Invariance, PTL

------------------------------------------------------------------------------
(* A call does a bounded amount of work.                                   *)

\* Each term of StepsLeft is a number.
LEMMA LeftType ==
  ASSUME TypeOK, NEW c \in Calls
  PROVE  HandlerLeft[pc[c]] \in Nat /\ GoroutineLeft[fw[c]] \in Nat
BY DEF TypeOK, Places, FwPlaces, HandlerLeft, GoroutineLeft

\* All that StepsLeft looks at.
Place(c) == <<pc[c], fw[c], ctxDone[c]>>

\* A step that takes one of the two goroutines of a call on, and not the other
\* back, leaves that call less to do.
LEMMA Forward ==
  ASSUME TypeOK, TypeOK', NEW c \in Calls, ctxDone'[c] = ctxDone[c],
         \A d \in Calls \ {c} : Place(d)' = Place(d),
         \/ /\ HandlerLeft[pc'[c]] < HandlerLeft[pc[c]]
            /\ GoroutineLeft[fw'[c]] <= GoroutineLeft[fw[c]]
         \/ /\ pc'[c] = pc[c]
            /\ GoroutineLeft[fw'[c]] < GoroutineLeft[fw[c]]
  PROVE  Advances(c)
<1>1. ASSUME NEW d \in Calls \ {c} PROVE StepsLeft(d)' = StepsLeft(d)
  BY DEF Place, StepsLeft, HandlerLeft, GoroutineLeft
<1>2. /\ HandlerLeft[pc[c]] \in Nat /\ GoroutineLeft[fw[c]] \in Nat
      /\ HandlerLeft[pc'[c]] \in Nat /\ GoroutineLeft[fw'[c]] \in Nat
  BY LeftType DEF TypeOK, Places, FwPlaces, HandlerLeft, GoroutineLeft
<1>3. StepsLeft(c)' =
        HandlerLeft[pc'[c]] + GoroutineLeft[fw'[c]] + IF ctxDone[c] THEN 0 ELSE 1
  BY DEF StepsLeft, HandlerLeft, GoroutineLeft
<1>4. StepsLeft(c)' < StepsLeft(c)
  <2> HIDE DEF HandlerLeft, GoroutineLeft
  <2> QED
    BY <1>2, <1>3 DEF StepsLeft
<1> QED
  BY <1>1, <1>4 DEF Advances

\* Every action but a stutter takes its call on.
LEMMA NextAdvances == IInv /\ [Next]_vars => [\E c \in Calls : Advances(c)]_vars
<1> SUFFICES ASSUME IInv, Next PROVE (\E c \in Calls : Advances(c)) \/ UNCHANGED vars
  OBVIOUS
<1>t. TypeOK /\ TypeOK'
  BY NextType DEF IInv
<1> USE DEF TypeOK, Place, Goto, HandlerLeft, GoroutineLeft, handlerVars, chanVars, tunnelVars
<1>1. ASSUME NEW c \in Calls, NEW t \in Targets, Call(c, t) PROVE Advances(c)
  BY <1>t, <1>1, Forward DEF Call, FwPlaces
<1>2. ASSUME NEW c \in Calls, Cancel(c) PROVE Advances(c)
  <2>1. /\ \A d \in Calls \ {c} : Place(d)' = Place(d)
        /\ pc'[c] = pc[c] /\ fw'[c] = fw[c] /\ ~ctxDone[c] /\ ctxDone'[c]
    BY <1>t, <1>2 DEF Cancel
  <2>2. HandlerLeft[pc[c]] \in Nat /\ GoroutineLeft[fw[c]] \in Nat
    BY <1>t, LeftType
  <2>3. StepsLeft(c)' = HandlerLeft[pc[c]] + GoroutineLeft[fw[c]] + 0
    <3>1. StepsLeft(c)' = HandlerLeft[pc'[c]] + GoroutineLeft[fw'[c]]
                            + IF ctxDone'[c] THEN 0 ELSE 1
      BY DEF StepsLeft
    <3> HIDE DEF HandlerLeft, GoroutineLeft
    <3> QED
      BY <2>1, <3>1
  <2>4. StepsLeft(c)' < StepsLeft(c)
    <3> HIDE DEF HandlerLeft, GoroutineLeft
    <3> QED
      BY <2>1, <2>2, <2>3 DEF StepsLeft
  <2> QED
    BY <2>1, <2>4 DEF Advances, StepsLeft
<1>3. ASSUME NEW c \in Calls, Resolve(c) PROVE Advances(c)
  BY <1>t, <1>3, Forward
  DEF IInv, FreshInv, FwPlaces, Resolve, ResolveURL, ResolveNothing, ForwardSetupFails, ForwardPod
<1>4. ASSUME NEW c \in Calls, Select(c) PROVE Advances(c)
  BY <1>t, <1>4, Forward DEF FwPlaces, Select, SelectReady, SelectErr, SelectCancelled
<1>5. ASSUME NEW c \in Calls, Get(c) PROVE Advances(c)
  BY <1>t, <1>5, Forward DEF FwPlaces, Get, Connect, Respond, RequestFails
<1>6. ASSUME NEW c \in Calls, Cleanup(c) PROVE Advances(c)
  BY <1>t, <1>6, Forward DEF FwPlaces, Cleanup
<1>7. ASSUME NEW c \in Calls, DialEnds(c) \/ LoseConnection(c) PROVE Advances(c)
  BY <1>t, <1>7, Forward DEF DialEnds, Dial, DialFails, LoseConnection, FinishForward
<1>8. ASSUME NEW c \in Calls, Serve(c) PROVE Advances(c)
  BY <1>t, <1>8, Forward
  DEF Serve, Listen, ListenFails, StopForward, SendErr, FinishForward
<1> QED
  BY <1>1, <1>2, <1>3, <1>4, <1>5, <1>6, <1>7, <1>8 DEF Next, Handler, Quiescent

\* Every step of the calls takes one of them on, and none of them back: twelve
\* steps for each are all there are, so that nothing is tried again for ever.
THEOREM Bounded == Spec => BoundedWork
BY NextAdvances, Invariance, PTL DEF Spec, BoundedWork

------------------------------------------------------------------------------
(* The calls implement the lease.                                          *)

\* The initial states are initial states of the lease.
LEMMA InitLease == Init => Lease!Init
<1> SUFFICES ASSUME Init PROVE Lease!Init
  OBVIOUS
<1>1. ASSUME NEW c \in Calls
      PROVE  /\ Phase(c) = "idle" /\ LeaseState(c) = "none"
             /\ Reply(c) = Unanswered
  <2>1. pc[c] = "idle" /\ fw[c] = "none"
    BY DEF Init
  <2> QED
    BY <2>1 DEF Phase, LeaseState, Reply, Running
<1> QED
  BY <1>1 DEF Init, Lease!Init

\* What the lease sees of a call: nothing else about it matters.
Seen(c) == <<Phase(c), LeaseState(c), Reply(c)>>

\* That depends on the call's own variables alone.
LEMMA Frame ==
  ASSUME NEW c \in Calls,
         /\ pc'[c] = pc[c] /\ fw'[c] = fw[c]
         /\ stopCh'[c] = stopCh[c] /\ answer'[c] = answer[c]
  PROVE  Seen(c)' = Seen(c)
BY DEF Seen, Phase, LeaseState, Reply, Running

\* A step that shows nothing of any call is a stutter of the lease.
LEMMA Stutter ==
  ASSUME target' = target, \A c \in Calls : Seen(c)' = Seen(c)
  PROVE  UNCHANGED Lease!vars
BY DEF Seen, Lease!vars

\* A tunnel started for a pending call is an Open.
LEMMA OpenStep ==
  ASSUME NEW c \in Calls, target' = target,
         \A d \in Calls \ {c} : Seen(d)' = Seen(d),
         target[c] \in Pods,
         Seen(c) = <<"pending", "none", Unanswered>>,
         Seen(c)' = <<"pending", "held", Unanswered>>
  PROVE  Lease!Open(c)
BY DEF Seen, Lease!Open

\* A tunnel that ends is an End, whoever ended it.
LEMMA EndStep ==
  ASSUME NEW c \in Calls, target' = target,
         \A d \in Calls \ {c} : Seen(d)' = Seen(d),
         LeaseState(c) \in {"held", "ending"},
         Seen(c)' = <<Phase(c), "ended", Reply(c)>>
  PROVE  Lease!End(c)
BY DEF Seen, Lease!End

\* A return of the handler is an Answer.
LEMMA AnswerStep ==
  ASSUME NEW c \in Calls, NEW r, target' = target,
         \A d \in Calls \ {c} : Seen(d)' = Seen(d),
         \/ r = Failed
         \/ r = Lease!Endpoint(target[c]) /\ (r \in Pods => LeaseState(c) # "none")
         \/ r \in Pods /\ LeaseState(c) = "ended",
         Phase(c) = "pending",
         Seen(c)' = <<"answered",
                      IF LeaseState(c) = "held" THEN "ending" ELSE LeaseState(c),
                      r>>
  PROVE  Lease!Answer(c, r)
BY DEF Seen, Lease!Answer

\* A step of one call shows nothing of the others.
LEMMA Others ==
  ASSUME NEW c \in Calls, target' = target,
         \A d \in Calls \ {c} : /\ pc'[d] = pc[d] /\ fw'[d] = fw[d]
                                /\ stopCh'[d] = stopCh[d]
                                /\ answer'[d] = answer[d]
  PROVE  \A d \in Calls \ {c} : Seen(d)' = Seen(d)
BY Frame

\* A call that is made is an Ask.
LEMMA CallLease ==
  ASSUME IInv, NEW c \in Calls, NEW t \in Targets, Call(c, t) PROVE Lease!Ask(c, t)
<1> USE DEF Goto, handlerVars, chanVars, tunnelVars
<1>1. \A d \in Calls \ {c} : Seen(d)' = Seen(d)
  BY Frame DEF Call, IInv, TypeOK
<1>2. Seen(c) = <<"idle", LeaseState(c), Unanswered>>
  BY DEF Call, Seen, Phase, LeaseState, Reply, Running, Tunnelled
<1>3. Seen(c)' = <<"pending", LeaseState(c), Unanswered>>
  BY DEF Call, IInv, TypeOK, Seen, Phase, LeaseState, Reply, Running, Tunnelled
<1> QED
  BY <1>1, <1>2, <1>3 DEF Call, Seen, Lease!Ask

\* A cancellation shows nothing: only what the select makes of it does.
LEMMA CancelLease ==
  ASSUME IInv, NEW c \in Calls, Cancel(c) PROVE UNCHANGED Lease!vars
<1> USE DEF Goto, handlerVars, chanVars, tunnelVars
<1>1. target' = target /\ \A d \in Calls \ {c} : Seen(d)' = Seen(d)
  BY Others DEF Cancel, IInv, TypeOK
<1>2. Seen(c)' = Seen(c)
  BY DEF Cancel, IInv, TypeOK, Seen, Phase, LeaseState, Reply, Running
<1> QED
  BY <1>1, <1>2, Stutter

\* The handler of a call opens its tunnel, or answers when it returns, or shows
\* nothing of what it does.
LEMMA HandlerLease ==
  ASSUME IInv, NEW c \in Calls, Handler(c)
  PROVE  IF pc'[c] = "returned"
           THEN \E r \in Pods \cup {DirectURL, DefaultURL, Failed} : Lease!Answer(c, r)
           ELSE Lease!Open(c) \/ UNCHANGED Lease!vars
<1> USE DEF Goto, handlerVars, chanVars, tunnelVars
<1>1. ASSUME ResolveURL(c) PROVE UNCHANGED Lease!vars
  <2>1. target' = target /\ \A d \in Calls \ {c} : Seen(d)' = Seen(d)
    BY <1>1, Others DEF ResolveURL, IInv, TypeOK
  <2>2. Seen(c)' = Seen(c)
    BY <1>1 DEF ResolveURL, IInv, TypeOK, Seen, Phase, LeaseState, Reply, Running
  <2> QED
    BY <2>1, <2>2, Stutter
<1>2. ASSUME SelectReady(c) PROVE UNCHANGED Lease!vars
  <2>1. target' = target /\ \A d \in Calls \ {c} : Seen(d)' = Seen(d)
    BY <1>2, Others DEF SelectReady, IInv, TypeOK
  <2>2. Seen(c)' = Seen(c)
    BY <1>2 DEF SelectReady, IInv, TypeOK, Seen, Phase, LeaseState, Reply, Running
  <2> QED
    BY <2>1, <2>2, Stutter
<1>3. ASSUME Connect(c) PROVE UNCHANGED Lease!vars
  <2>1. target' = target /\ \A d \in Calls \ {c} : Seen(d)' = Seen(d)
    BY <1>3, Others DEF Connect, IInv, TypeOK
  <2>2. Seen(c)' = Seen(c)
    BY <1>3 DEF Connect, IInv, TypeOK, Seen, Phase, LeaseState, Reply, Running
  <2> QED
    BY <2>1, <2>2, Stutter
<1>4. ASSUME Respond(c) PROVE UNCHANGED Lease!vars
  <2>1. target' = target /\ \A d \in Calls \ {c} : Seen(d)' = Seen(d)
    BY <1>4, Others DEF Respond, IInv, TypeOK
  <2>2. Seen(c)' = Seen(c)
    BY <1>4 DEF Respond, IInv, TypeOK, Seen, Phase, LeaseState, Reply, Running
  <2> QED
    BY <2>1, <2>2, Stutter
<1>5. ASSUME RequestFails(c) PROVE UNCHANGED Lease!vars
  <2>1. target' = target /\ \A d \in Calls \ {c} : Seen(d)' = Seen(d)
    BY <1>5, Others DEF RequestFails, IInv, TypeOK
  <2>2. Seen(c)' = Seen(c)
    BY <1>5 DEF RequestFails, IInv, TypeOK, Seen, Phase, LeaseState, Reply, Running
  <2> QED
    BY <2>1, <2>2, Stutter
<1>6. ASSUME ForwardPod(c) PROVE Lease!Open(c)
  <2>1. target' = target /\ \A d \in Calls \ {c} : Seen(d)' = Seen(d)
    BY <1>6, Others DEF ForwardPod, IInv, TypeOK
  <2>2. /\ Seen(c) = <<"pending", "none", Unanswered>>
        /\ Seen(c)' = <<"pending", "held", Unanswered>>
    BY <1>6 DEF ForwardPod, IInv, TypeOK, FreshInv, Seen, Phase, LeaseState, Reply, Running, Tunnelled
  <2> QED
    BY <1>6, <2>1, <2>2, OpenStep DEF ForwardPod, Tunnelled
<1>7. ASSUME ResolveNothing(c) PROVE Lease!Answer(c, Failed)
  <2>1. target' = target /\ \A d \in Calls \ {c} : Seen(d)' = Seen(d)
    BY <1>7, Others DEF ResolveNothing, IInv, TypeOK
  <2>2. Phase(c) = "pending"
    BY <1>7 DEF ResolveNothing, Phase
  <2>3. Seen(c)' = <<"answered",
                     IF LeaseState(c) = "held" THEN "ending" ELSE LeaseState(c),
                     Failed>>
    BY <1>7 DEF ResolveNothing, IInv, TypeOK, FreshInv, Seen, Phase, LeaseState, Reply, Running
  <2> QED
    BY <2>1, <2>2, <2>3, AnswerStep
<1>8. ASSUME ForwardSetupFails(c) PROVE Lease!Answer(c, Failed)
  <2>1. target' = target /\ \A d \in Calls \ {c} : Seen(d)' = Seen(d)
    BY <1>8, Others DEF ForwardSetupFails, IInv, TypeOK
  <2>2. Phase(c) = "pending"
    BY <1>8 DEF ForwardSetupFails, Phase
  <2>3. Seen(c)' = <<"answered",
                     IF LeaseState(c) = "held" THEN "ending" ELSE LeaseState(c),
                     Failed>>
    BY <1>8 DEF ForwardSetupFails, IInv, TypeOK, FreshInv, Seen, Phase, LeaseState, Reply, Running
  <2> QED
    BY <2>1, <2>2, <2>3, AnswerStep
<1>9. ASSUME SelectErr(c) PROVE Lease!Answer(c, Failed)
  <2>1. target' = target /\ \A d \in Calls \ {c} : Seen(d)' = Seen(d)
    BY <1>9, Others DEF SelectErr, IInv, TypeOK
  <2>2. Phase(c) = "pending"
    BY <1>9 DEF SelectErr, Phase
  <2>3. Seen(c)' = <<"answered",
                     IF LeaseState(c) = "held" THEN "ending" ELSE LeaseState(c),
                     Failed>>
    BY <1>9 DEF SelectErr, IInv, TypeOK, ChannelInv, Over, Seen, Phase, LeaseState, Reply, Running
  <2> QED
    BY <2>1, <2>2, <2>3, AnswerStep
<1>10. ASSUME SelectCancelled(c) PROVE Lease!Answer(c, Failed)
  <2>1. target' = target /\ \A d \in Calls \ {c} : Seen(d)' = Seen(d)
    BY <1>10, Others DEF SelectCancelled, CloseStop, IInv, TypeOK
  <2>2. Phase(c) = "pending"
    BY <1>10 DEF SelectCancelled, Phase
  <2>3. Seen(c)' = <<"answered",
                     IF LeaseState(c) = "held" THEN "ending" ELSE LeaseState(c),
                     Failed>>
    BY <1>10 DEF SelectCancelled, IInv, TypeOK, HandlerInv, InUse, CloseStop, Seen, Phase, LeaseState, Reply, Running
  <2> QED
    BY <2>1, <2>2, <2>3, AnswerStep
<1>11. ASSUME Cleanup(c) PROVE Lease!Answer(c, answer[c])
  <2>1. target' = target /\ \A d \in Calls \ {c} : Seen(d)' = Seen(d)
    BY <1>11, Others DEF Cleanup, CloseStop, IInv, TypeOK
  <2>2. Phase(c) = "pending"
    BY <1>11 DEF Cleanup, Phase
  <2>3. Seen(c)' = <<"answered",
                     IF LeaseState(c) = "held" THEN "ending" ELSE LeaseState(c),
                     answer[c]>>
    BY <1>11 DEF Cleanup, IInv, TypeOK, HandlerInv, FreshInv, InUse, CloseStop, Seen, Phase,
                LeaseState, Reply, Running, Tunnelled
  <2>4. \/ answer[c] \in {Failed, Lease!Endpoint(target[c])}
        \/ answer[c] \in Pods /\ LeaseState(c) = "ended"
    BY <1>11 DEF Cleanup, IInv, TypeOK, ChannelInv, AnswerInv, AnsweredBy, Over, LeaseState, Running
  <2>5. Lease!Endpoint(target[c]) \in Pods => LeaseState(c) # "none"
    <3>1. pc[c] = "cleanup"
      BY <1>11 DEF Cleanup
    <3>2. Tunnelled(c) => fw[c] # "none"
      BY <3>1 DEF IInv, HandlerInv, FreshInv
    <3>3. Lease!Endpoint(target[c]) \in Pods => Tunnelled(c)
      BY ConstantsAssumption DEF Lease!Endpoint, Tunnelled, URLs
    <3> QED
      BY <3>2, <3>3 DEF LeaseState, Running
  <2> QED
    BY <2>1, <2>2, <2>3, <2>4, <2>5, AnswerStep
<1>12. ASSUME Cleanup(c)
      PROVE  answer[c] \in Pods \cup {DirectURL, DefaultURL, Failed}
  <2>1. answer[c] \in Pods \cup {DirectURL, DefaultURL, Failed, Unanswered}
    BY DEF IInv, TypeOK, Answers, URLs
  <2>2. answer[c] # Unanswered
    BY <1>12, ConstantsAssumption
    DEF IInv, TypeOK, AnswerInv, AnsweredBy, Lease!Endpoint, Targets, URLs, Cleanup
  <2> QED
    BY <2>1, <2>2
<1>13. CASE Cleanup(c)
  <2>1. Lease!Answer(c, answer[c]) /\ answer[c] \in Pods \cup {DirectURL, DefaultURL, Failed}
    BY <1>11, <1>12, <1>13
  <2>2. pc'[c] = "returned"
    BY <1>13 DEF Cleanup, IInv, TypeOK
  <2> QED
    BY <2>1, <2>2
<1>14. CASE ResolveNothing(c) \/ ForwardSetupFails(c) \/ SelectErr(c) \/ SelectCancelled(c)
  <2>1. pc'[c] = "returned"
    BY <1>14 DEF ResolveNothing, ForwardSetupFails, SelectErr, SelectCancelled, IInv, TypeOK
  <2> QED
    BY <1>7, <1>8, <1>9, <1>10, <1>14, <2>1
<1>15. CASE ResolveURL(c) \/ ForwardPod(c) \/ SelectReady(c) \/ Get(c)
  <2>1. pc'[c] # "returned"
    BY <1>15 DEF ResolveURL, ForwardPod, SelectReady, Get, Connect, Respond, RequestFails, IInv, TypeOK
  <2> QED
    BY <1>1, <1>2, <1>3, <1>4, <1>5, <1>6, <1>15, <2>1 DEF Get
<1> QED
  BY <1>13, <1>14, <1>15 DEF Handler, Resolve, Select

\* The ForwardPorts goroutine ends the tunnel, or shows nothing.
LEMMA TunnelEnds ==
  ASSUME IInv, NEW c \in Calls, DialEnds(c) \/ Serve(c) \/ LoseConnection(c)
  PROVE  Lease!End(c) \/ UNCHANGED Lease!vars
<1> USE DEF Goto, handlerVars, chanVars, tunnelVars
<1>1. ASSUME Dial(c) PROVE UNCHANGED Lease!vars
  <2>1. target' = target /\ \A d \in Calls \ {c} : Seen(d)' = Seen(d)
    BY <1>1, Others DEF Dial, IInv, TypeOK
  <2>2. Seen(c)' = Seen(c)
    BY <1>1 DEF Dial, IInv, TypeOK, Seen, Phase, LeaseState, Reply, Running
  <2> QED
    BY <2>1, <2>2, Stutter
<1>2. ASSUME SendErr(c) PROVE UNCHANGED Lease!vars
  <2>1. target' = target /\ \A d \in Calls \ {c} : Seen(d)' = Seen(d)
    BY <1>2, Others DEF SendErr, IInv, TypeOK
  <2>2. Seen(c)' = Seen(c)
    BY <1>2 DEF SendErr, IInv, TypeOK, Seen, Phase, LeaseState, Reply, Running
  <2> QED
    BY <2>1, <2>2, Stutter
<1>3. ASSUME DialFails(c) PROVE Lease!End(c)
  <2>1. target' = target /\ \A d \in Calls \ {c} : Seen(d)' = Seen(d)
    BY <1>3, Others DEF DialFails, FinishForward, IInv, TypeOK
  <2>2. /\ LeaseState(c) \in {"held", "ending"}
        /\ Seen(c)' = <<Phase(c), "ended", Reply(c)>>
    BY <1>3 DEF DialFails, FinishForward, IInv, TypeOK, Seen, Phase, LeaseState, Reply, Running
  <2> QED
    BY <2>1, <2>2, EndStep
<1>4. ASSUME ListenFails(c) PROVE Lease!End(c)
  <2>1. target' = target /\ \A d \in Calls \ {c} : Seen(d)' = Seen(d)
    BY <1>4, Others DEF ListenFails, FinishForward, IInv, TypeOK
  <2>2. /\ LeaseState(c) \in {"held", "ending"}
        /\ Seen(c)' = <<Phase(c), "ended", Reply(c)>>
    BY <1>4 DEF ListenFails, FinishForward, IInv, TypeOK, Seen, Phase, LeaseState, Reply, Running
  <2> QED
    BY <2>1, <2>2, EndStep
<1>5. ASSUME StopForward(c) PROVE Lease!End(c)
  <2>1. target' = target /\ \A d \in Calls \ {c} : Seen(d)' = Seen(d)
    BY <1>5, Others DEF StopForward, FinishForward, IInv, TypeOK
  <2>2. /\ LeaseState(c) \in {"held", "ending"}
        /\ Seen(c)' = <<Phase(c), "ended", Reply(c)>>
    BY <1>5 DEF StopForward, FinishForward, IInv, TypeOK, Seen, Phase, LeaseState, Reply, Running
  <2> QED
    BY <2>1, <2>2, EndStep
<1>6. ASSUME LoseConnection(c) PROVE Lease!End(c)
  <2>1. target' = target /\ \A d \in Calls \ {c} : Seen(d)' = Seen(d)
    BY <1>6, Others DEF LoseConnection, FinishForward, IInv, TypeOK
  <2>2. /\ LeaseState(c) \in {"held", "ending"}
        /\ Seen(c)' = <<Phase(c), "ended", Reply(c)>>
    BY <1>6 DEF LoseConnection, FinishForward, IInv, TypeOK, Seen, Phase, LeaseState, Reply, Running
  <2> QED
    BY <2>1, <2>2, EndStep
<1>7. ASSUME NEW p \in LocalPorts, Listen(c, p) PROVE UNCHANGED Lease!vars
  <2>1. target' = target /\ \A d \in Calls \ {c} : Seen(d)' = Seen(d)
    BY <1>7, Others DEF Listen, IInv, TypeOK
  <2>2. Seen(c)' = Seen(c)
    BY <1>7 DEF Listen, IInv, TypeOK, Seen, Phase, LeaseState, Reply, Running
  <2> QED
    BY <2>1, <2>2, Stutter
<1> QED
  BY <1>1, <1>2, <1>3, <1>4, <1>5, <1>6, <1>7 DEF DialEnds, Serve

\* Every step of the calls is a step of the lease, or shows nothing of it.
LEMMA NextLease == IInv /\ [Next]_vars => [Lease!Next]_Lease!vars
<1> SUFFICES ASSUME IInv, [Next]_vars PROVE [Lease!Next]_Lease!vars
  OBVIOUS
<1>1. ASSUME UNCHANGED vars PROVE UNCHANGED Lease!vars
  BY <1>1, Stutter
  DEF vars, handlerVars, chanVars, tunnelVars, Seen, Phase, LeaseState, Reply, Running
<1> QED
  BY <1>1, CallLease, CancelLease, HandlerLease, TunnelEnds
  DEF Next, Quiescent, Targets, Lease!Next

\* The goroutines and channels of the calls implement the lease: one tunnel a
\* call at most, given up at the step that answers, and no answer from
\* elsewhere while the tunnel lasts.
THEOREM Refinement == Spec => ImplementsLease
BY InitLease, NextLease, Invariance, PTL DEF Spec, ImplementsLease, Lease!Spec
=============================================================================
