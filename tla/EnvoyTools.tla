------------------------------ MODULE EnvoyTools ------------------------------
(***************************************************************************)
(* The envoy_* tools (internal/tools/registry.go, internal/envoy/client.go): *)
(* resolve the target, check the arguments, GET one admin page, and make   *)
(* an answer of it.                                                        *)
(*                                                                         *)
(* The two things that a handler calls are models of their own, and only   *)
(* what they promise is used here: envoyTarget ends with a target or an    *)
(* error (IngressTargets), and a request to a target is the lease of a     *)
(* tunnel (TunnelLease, which AdminCall implements).                       *)
(***************************************************************************)
EXTENDS ToolCalls

CONSTANTS
  Pods, DirectURL, DefaultURL, NoTarget, \* what a call is aimed at
  Unanswered, Failed,                    \* how its admin request ends, but for
                                         \* the endpoint that answers it
  Requests                               \* the tools, with the arguments that
                                         \* are not about the target

VARIABLES
  request,                     \* request[c]: the tool and arguments of call c
  place,                       \* place[c]: where its handler is
  phase, target, lease, reply  \* its admin request

leaseVars == <<phase, target, lease, reply>>
toolVars  == <<request, place, leaseVars>>

Lease == INSTANCE TunnelLease

Filters == {"", "plain", "marked"}  \* "marked" has a "#" or a "&" in it
Formats == {"", "text", "json", "prometheus"}
ResourceTypes ==
  {"listener", "route", "cluster", "endpoint", "secret", "scoped_route"}

\* The tools of one page; Singular is the resource type of those that show a
\* part of the configuration dump.
Singular ==
  [listeners |-> "listener", routes |-> "route", clusters |-> "cluster",
   endpoints |-> "endpoint"]
AllRequests ==
  [tool : {"config_dump"}, type : ResourceTypes \cup {"", "unheard-of"}]
    \cup [tool : {"stats"}, filter : Filters, format : Formats]
    \cup [tool : DOMAIN Singular \cup {"clusters_health", "server_info", "certs",
                                       "ready", "runtime", "memory"}]

ASSUME ToolsAssumption ==
  /\ Requests \subseteq AllRequests
  /\ DirectURL # DefaultURL /\ NoTarget \notin {DirectURL, DefaultURL}
  /\ Unanswered # Failed
  /\ Pods \cap {DirectURL, DefaultURL, NoTarget, Unanswered, Failed} = {}
  /\ {DirectURL, DefaultURL} \cap {Unanswered, Failed} = {}

------------------------------------------------------------------------------
(* internal/envoy/client.go                                                *)

\* A filter goes into the URL unescaped, and ends at the first "#" or "&".
InURL(filter) == IF filter = "marked" THEN "cut" ELSE filter

\* A page as a whole, in the format it has by default.
Page(name) == [page |-> name, type |-> "", filter |-> "", format |-> ""]

\* The page that the Get method chosen by the handler asks for: a filter
\* rules out a format, and json is the only other format that is asked for.
Path(q) ==
  CASE q.tool = "config_dump"      -> [Page("config_dump") EXCEPT !.type = q.type]
    [] q.tool \in DOMAIN Singular  ->
         [Page("config_dump") EXCEPT !.type = Singular[q.tool]]
    [] q.tool = "stats"            ->
         IF q.filter # "" THEN [Page("stats") EXCEPT !.filter = InURL(q.filter)]
         ELSE IF q.format = "json" THEN [Page("stats") EXCEPT !.format = "json"]
         ELSE Page("stats")
    [] OTHER                       -> Page(q.tool)

------------------------------------------------------------------------------
(* internal/tools/registry.go                                              *)

Valid(q) ==
  q.tool = "config_dump" => q.type \in ResourceTypes \cup {""}

Targets == Pods \cup {DirectURL, NoTarget}

ToolsTypeOK ==
  /\ request \in [Calls -> Requests]
  /\ place \in [Calls -> {"idle", "target", "request", "returned"}]
  /\ phase \in [Calls -> {"idle", "pending", "answered"}]
  /\ target \in [Calls -> Targets]
  /\ lease \in [Calls -> {"none", "held", "ending", "ended"}]
  /\ reply \in [Calls -> Pods \cup {DirectURL, DefaultURL, Failed, Unanswered}]

ToolsInit ==
  /\ request \in [Calls -> Requests]
  /\ place = [c \in Calls |-> "idle"]
  /\ Lease!Init

Move(c, from, to) ==
  place[c] = from /\ place' = [place EXCEPT ![c] = to] /\ UNCHANGED request

\* The handler is called.
Begin(c) == Move(c, "idle", "target") /\ UNCHANGED leaseVars

\* envoyTarget returns an error: so does the handler.
TargetFails(c) == Move(c, "target", "returned") /\ UNCHANGED leaseVars

\* It returns a target, but the arguments are refused.
Refuse(c) ==
  ~Valid(request[c]) /\ Move(c, "target", "returned") /\ UNCHANGED leaseVars

\* It returns a target, and the page is asked for there.
Ask(c, t) ==
  Valid(request[c]) /\ Move(c, "target", "request") /\ Lease!Ask(c, t)

\* The tunnel comes up, or goes down.
Tunnel(c) == (Lease!Open(c) \/ Lease!End(c)) /\ UNCHANGED <<request, place>>

\* Mutant: done() is not deferred, but called after a successful GET.
AnswerUncleaned(c, r) ==
  /\ Move(c, "request", "returned")
  /\ IF r # Failed THEN Lease!Answer(c, r)
     ELSE /\ phase[c] = "pending"
          /\ phase' = [phase EXCEPT ![c] = "answered"]
          /\ reply' = [reply EXCEPT ![c] = r]
          /\ UNCHANGED <<target, lease>>

\* The request is over, and with it the handler.
Answer(c, r) == Move(c, "request", "returned") /\ Lease!Answer(c, r)

Error == [kind |-> "error"]

\* Mutant: envoy_ready does not look at the error.
ReadyUnchecked(c) ==
  IF phase[c] # "answered" THEN Error
  ELSE IF request[c].tool = "ready" THEN [kind |-> "ready", ready |-> TRUE]
  ELSE IF reply[c] = Failed THEN Error
  ELSE [kind |-> "page", path |-> Path(request[c]), from |-> reply[c]]

\* What the tool answers.
Result(c) ==
  IF phase[c] # "answered" THEN Error
  ELSE IF request[c].tool = "ready"
    THEN [kind |-> "ready", ready |-> reply[c] # Failed]
  ELSE IF reply[c] = Failed THEN Error
  ELSE [kind |-> "page", path |-> Path(request[c]), from |-> reply[c]]

Returns(c) ==
  \/ TargetFails(c) \/ Refuse(c)
  \/ \E r \in Pods \cup {DirectURL, DefaultURL, Failed} : Answer(c, r)
Continues(c) == (\E t \in Targets : Ask(c, t)) \/ Tunnel(c)

\* Every request of a handler has its context: one that is cancelled ends the
\* handler (AdminCall!CallReturns, for the admin request).
GivesUp(c) == TargetFails(c) \/ Answer(c, Failed)

Returned(c) == place[c] = "returned"

------------------------------------------------------------------------------
(* Properties.                                                             *)

\* envoy_ready says ready: true, and any other tool shows a page, exactly if
\* an Envoy answered the request with a 200: the one the call is aimed at,
\* unless its tunnel had ended.  Every other end of a call is told apart from
\* it (registry.go:955-965), be it of the pods, the arguments or the tunnel.
SuccessIsEnvoys ==
  \A c \in Calls : Returned(c) =>
    LET success == Result(c).kind = "page"
                     \/ (Result(c).kind = "ready" /\ Result(c).ready)
    IN  success <=> /\ reply[c] \notin {Unanswered, Failed}
                    /\ reply[c] = Lease!Endpoint(target[c]) \/ lease[c] = "ended"

\* A tunnel is there only for a request that is made of a pod, and once the
\* handler has returned, however its request ended, it has been told to stop:
\* only the deferred done() can tell it (client.go:84-100).
TunnelsServeRequests ==
  \A c \in Calls :
    /\ lease[c] # "none" => Valid(request[c]) /\ target[c] \in Pods
    /\ lease[c] = "held" => place[c] = "request"

\* "Output format: text (default), json, prometheus" (registry.go:312), and
\* "Regex filter for stats" (registry.go:309): the page shown is the one
\* described.
StatsAsAsked ==
  \A c \in Calls :
    Returned(c) /\ request[c].tool = "stats" /\ Result(c).kind = "page" =>
      /\ Result(c).path.filter = request[c].filter
      /\ Result(c).path.format =
           IF request[c].format = "text" THEN "" ELSE request[c].format
==============================================================================
