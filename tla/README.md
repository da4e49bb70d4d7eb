# TLA+ verification of contour-envoy-mcp

`contour-envoy-mcp` is a Model Context Protocol server that answers questions
about Contour and Envoy in a Kubernetes cluster. It keeps no state between
calls. What can go wrong is therefore in what one call does over time: it reads
the cluster in several requests while the cluster changes, opens a port-forward
tunnel with a goroutine and three channels of its own, sends a request through a
local port that other calls may be handed next, and has to leave nothing behind
however it ends.

## 1. Inventory

| Component | Source | State it keeps | Operations | What is hard |
|---|---|---|---|---|
| Admin call through a tunnel | `internal/envoy/client.go`, `internal/k8s/portforward.go`, `GetDAG` in `internal/contour/ingressclass.go` | per call: context, `stopCh`, `readyCh`, `errCh`, the `ForwardPorts` goroutine, the local port | `resolve`, `ForwardPod`, `getJSON`, `getText`, `GetDAG`, the deferred `done()` | two goroutines per call, many calls, shared local ports, cancellation and connection loss at any moment, no timeout on the dial |
| Target selection and class discovery | `envoyTarget`, `handleContourDAG`, `handleListEnvoyIngressClasses` in `internal/tools/registry.go`; `PortsForIngressClass`, `matchIngressClassConfig` in `ingressclass.go`; `internal/k8s/pods.go` | the flags `-default-ingress-class`, `-contour-namespace` | pick a pod, derive a class, look up a port, list the classes | precedence of arguments, pods and configurations that change between requests, fallbacks, name matching |
| HTTPProxy queries | `internal/contour/client.go`, lines 569-749 of `registry.go` | none | list, get, status, routes, tree, search by host name and backend, list invalid | answers assembled from several reads, partial failure, wildcard and namespace matching |
| Envoy admin tools | lines 789-978 and 1116-1126 of `registry.go`, the `Get` methods of `internal/envoy/client.go` | none | one handler per admin page | compose the first two; what a failure is turned into; when arguments are checked |
| Transports and life cycle | `cmd/main.go` | the signal context, `errCh`, the HTTP server, the exit status | `run`, `serveStdio`, `serveHTTP` | a signal, a failed listener and an end of the stream while calls are in flight, a client that does not read |
| TLSCertificateDelegation and ExtensionService tools | `contour/client.go`, `registry.go` | none | one List each | which namespace an absent one stands for |
| Kubernetes client configuration | `internal/k8s/client.go` | none | built once at start | which source wins |
| Tool registration, argument extraction | `RegisterAll`, `reqString` | a counter that is logged | run once at start | nothing |

Interaction: the transport hands a request and its context to a handler; an
`envoy_*` handler calls `envoyTarget` (pods from the API server,
ContourConfigurations from `contour.Client`), then one method of
`envoy.AdminClient` with the target, which calls `k8s.Client.ForwardPod` for a
pod; `handleContourDAG` does the same with a selection of its own and
`contour.Client.GetDAG`. The HTTPProxy handlers call `contour.Client` alone.
The context of every request is the root context, given to `Listen` or, over
HTTP, by `BaseContext`: a signal cancels it under every handler at once, while
the main goroutine waits for them (HTTP) or leaves (stdio). Nothing else is
shared between calls but the kernel's local ports and the cluster.

What makes each component correct:

* Admin call: a call that names a pod is answered by that pod; a stop channel is
  closed once; a tunnel lives as long as its request needs it and no longer; a
  call returns and its goroutine and port go.
* Target selection: the documented precedence; the port of the class's own
  configuration; what the listing reports is what a later call resolves.
* HTTPProxy queries: every part of an answer is of the proxy it is said to be
  of, as it was during the call; searches find exactly what they are asked for.
* Envoy tools: success is reported exactly if an Envoy answered; a tunnel is
  held only while the handler waits for its answer.
* Life cycle: on a signal, calls end and the process exits within its bound;
  the exit status tells a failed listener from a normal end.

The hazards, at their lines and with the properties aimed at them, are under
`hazards` in `PROJECT.json`.

## 2. Modules

| Module | What it is |
|---|---|
| `AdminCall` | the admin call: handler goroutine, `ForwardPorts` goroutine, channels, local ports |
| `TunnelLease` | what an admin call promises, without goroutines and channels |
| `AdminCallProofs` | theorems about `AdminCall`, and that it implements `TunnelLease` |
| `MCAdminCall` | `AdminCall` for TLC, with its symmetry |
| `IngressTargets` | target selection and class discovery over a changing cluster |
| `IngressTargetsProofs` | theorems about `IngressTargets` |
| `MCIngressTargets` | `IngressTargets` for TLC: the classes and configurations |
| `HTTPProxyQueries` | the tools that read Contour's resources, over changing proxies |
| `HTTPProxyQueriesProofs` | theorems about `HTTPProxyQueries` |
| `MCHTTPProxyQueries` | `HTTPProxyQueries` for TLC: proxies, specs, host names |
| `ToolCalls` | the set of calls, which the next two have in common |
| `Serve` | the process: set-up, the two transports, signal, shutdown, exit status |
| `EnvoyTools` | the `envoy_*` handlers, over what the modules above promise |
| `Server` | `Serve` and `EnvoyTools` together, a signal cancelling the handlers |
| `ServerProofs` | theorems about `Server` |
| `Service` | what the process promises to clients and supervisor, without main, goroutines and handlers |
| `MCServer` | `Server` for TLC: start-ups and requests |
| `Process` | `Serve`, the handlers of `EnvoyTools` and `AdminCall` itself together |
| `ProcessProofs` | that `Process` implements `Server` and with it `Service`, and what is proved of `AdminCall` holds in it |
| `MCProcess` | `Process` for TLC: the HTTP transport and one tool |

From the bottom up, with `=>` for "is proved to implement":

    AdminCall => TunnelLease
    Serve + EnvoyTools (over TunnelLease) = Server => Service
    Serve + EnvoyTools (over AdminCall) = Process => Server, Service

### AdminCall

`pc[c]` is where the handler of call `c` is: `resolve` in `AdminClient.resolve`,
`forwarding` in `ForwardPod`'s `select`, `connect` and `request` in
`httpClient.Do` and the reading of the body, `cleanup` at the deferred `done()`.
`fw[c]` is where the goroutine that runs client-go's `ForwardPorts` is. Each
case of the `select` is an action that its channel enables, so that two ready
channels are a choice, as they are in Go. `stopCh` has the value `panic` after a
second close. `listener[p]` is the tunnel that listens on local port `p`;
`Connect` goes to whichever that is, because a URL `http://127.0.0.1:<port>`
names nothing else.

client-go is not part of the repository. Its `ForwardPorts` is modelled from how
`ForwardPod` uses it and marked external: it dials, looks at `stopCh` only once
it serves, closes `readyCh` after it listens, and returns an error when the dial
fails, it cannot listen (no port or no file descriptor is left) or the connection
to the pod breaks. Three unreachable
branches are left out: a nil forwarder in `GetDAG` (`main` always sets one; for
`resolve` the same error is among those of `ForwardSetupFails`), and the error
of `GetPorts`, which looks at the very channel just seen closed. The reuse of
idle connections by Go's transport is left out too: a pooled connection belongs
to the tunnel it was made through and dies with it.

`TunnelLease` says the same as a caller sees it: asked once, answered once; at
most one tunnel, opened while the call is pending and given up by the step that
answers; an answer is an error, or from the endpoint asked for, or came after
the tunnel had ended. The refinement mapping reads phase, lease and reply off
`pc`, `fw`, `stopCh` and `answer`.

### IngressTargets

One client makes one call after another: calls neither share state nor write
any, so a second client adds no behaviour. Each API request is an action, and
between any two the cluster may change (`ChangePod`, `ChangeConfig`) or the next
request fail. `class`, `pod` and `port` are the local variables of
`envoyTarget` and `handleContourDAG`. Names are sequences of their words, which
is what `strings.Contains("-"+name+"-", "-"+class+"-")` compares; pods and
configurations are numbered in the order of their names, which is the order in
which the API server lists them. A port is told by where it comes from (a
configuration, Contour's default, the caller), because that is what the
properties are about. `settled` records that nothing changed and nothing failed
since the call began, `listed` what an undisturbed listing told the client.

### HTTPProxyQueries

Again one client and one action for each request. `get_httpproxy_status` is two
Gets and `get_httpproxy_tree` one for the root and one for each include with a
name (`PassOver` is the loop's way past an include without one); the other
tools are one List or one Get, and an action each, those of
TLSCertificateDelegations and ExtensionServices included. `during[i]` is a
history variable, the versions that proxy `i` had since the call began, and
`began[i]` the one it had then: the properties about answers of several
requests are stated over them. The status shown is of `began`, the conditions
of that version or a later one, and no leaf of a tree is older than the root it
hangs from. A spec is what these tools read of it: the host name as the
sequence of its labels, the includes, the services of the routes and of the TCP
proxy. Conditions are not spelled out: Contour writes them with the status, so
that the conditions of a version are named by its status. Delegations and
extension services do not change, because a tool that reads them makes one
request.

### Serve, EnvoyTools, Server

`Serve` has three parties. `main` is where `run` is: `starting`, in the `select`
of `serveStdio` or `serveHTTP`, in `Shutdown` (`draining`), or `exited` with
status `exit`. `server` is the serving goroutine and, once it has ended, what
`errCh` holds: `ended` for the end of the stream and the context's error,
`failed` and `broken` for every other, `broken` if an HTTP listener had been
accepting connections before: those outlive it. `call[c]` is a request: received, its response being
written, answered. The two cases of a `select` are two actions (`StopStdio` or
`BeginShutdown`, and `SelectErr`), so that either is taken when both are ready.
mcp-go and net/http are not part of the repository and are modelled from how
`main.go` uses them: `Listen` and `ListenAndServe` handle any number of requests
at once; `Shutdown` closes the listener, waits until no request is being handled
or written, and gives up when its 10 s are over; a connection accepted before
the listener was closed, or failed, may still bring a request until the exit,
during `Shutdown` too.

`EnvoyTools` is a handler from its call to its return: `place[c]` says whether
it resolves its target, waits for its admin request, or has returned. It is
built on what the first two modules promise and not on their detail:
`envoyTarget` ends with some target or an error, and the admin request is a
lease of `TunnelLease`, which `AdminCall` is proved to implement. What is of the
handlers themselves is modelled in full: which page they ask for with which
arguments, the check of the resource type between target and request, and what
they make of the outcome.

`Server` conjoins the two. `Start` is a request received and its handler called;
`Return` the handler's return and the response handed to the transport;
`Handle` any other step of a handler; `Cancelled` the return of a handler whose
context is done. The disconnection of a single client is the `Cancel` of
`AdminCall` and is, here, one of the ways for a request to fail.

`Service` is what a client and a supervisor see of all this: requests taken and
answered, each once and none after the exit; a signal; a listener or stream that
broke, which does not stop requests from coming; and what each exit status may
mean over each transport. The mapping reads
them off `call`, `ctxDone`, `server` and `options`; whatever main and the
handlers do in between is a stutter.

### Process

`Process` puts `AdminCall` where `Server` has the lease: the actions of the
three models are conjoined, and none is written again. `Ask` is the call of an
`AdminClient` method, `Work` what that does while the handler waits for it,
`Return` its last step and the handler's return in one, since the deferred
`done()` has run by the time the handler has the result. `Tunnel` is the
`ForwardPorts` goroutine, which runs on after the call. `Inherit` hands the
cancellation of the root context down to a request, `Disconnect` is the
cancellation of that request alone, and after the exit nothing runs
(`Below`). `Admin` and `Tools` are the two modules as they are found in it; for
`Tools`, phase, lease and reply are read off the goroutines and channels.

## 3. Runs

| Run | Asks | Bounds |
|---|---|---|
| `admin` | the safety invariants of the call, lost wake-ups, its amount of work, refinement of `TunnelLease`, return of calls, end of goroutines | 2 calls, 2 pods, 2 local ports, no `-envoy-admin-url`; no symmetry, since liveness is checked |
| `admin_misdirected` | violated: "concurrent tool calls each get their own tunnel" | 2 calls, 2 pods, 1 local port, symmetry |
| `targets_envoy` | target, port and failures of `envoy_*` calls, agreement with the listing | 2 Envoy pods, 2 configurations, 2 classes, a default class, 1 change |
| `targets_dag` | the same of `get_contour_dag` | 2 Contour pods, no default class, 1 change |
| `targets_other_class` | violated: "private" does not match the configuration of "ode-private" | 1 Envoy pod |
| `proxy_answers` | answers assembled from several requests; the searches against reference definitions | 2 proxies, 4 specs, 3 statuses, 7 host names, 3 backends, 1 change |
| `proxy_tree_partial` | violated: the tree is full | 3 proxies in a chain, 3 specs, no change |
| `proxy_no_status` | violated: "All HTTPProxies have Valid status" | as `proxy_answers`, no change |
| `server` | graceful HTTP shutdown, exit status, success of tools, tunnels; the promise of `Service`; that a signal ends the process, and when without the timer | 2 calls, 2 pods, 4 ways to start, 3 requests |
| `process` | clean exits, refinement of `Server`, what a signal ends down to a hanging dial | 2 calls, 1 pod, 1 local port, HTTP, 1 request, with `-envoy-admin-url` |
| `server_graceful` | violated: "both transports shut down gracefully" | 1 call, 1 pod, the same ways to start |
| `server_stats` | violated: the format and the filter of `envoy_stats` are those asked for | 1 call, 1 pod, stdio, 1 request: a filter with a `#` or a `&`, and the format `prometheus` |

Why the bounds are enough. In `AdminCall` calls interact through local ports
only: with two calls and two ports, both have a tunnel at once, or one is given
the port that the other has lost; `ListenFails` does not wait for the ports to
run out. In `process` they do run out, with one port for two calls. Two pods
tell a right answer from a wrong one. The safety properties and both refinements
are proved for any number of all of these. In `IngressTargets` initial states are all
the sets of pods and configurations, so that one change, placed between any two
requests, gives every pair of clusters a call can see; two pods make "first
ready" mean something; "private" and "ode-private" are the case the source's
comment is about, the first being a word of the second, and the configuration
of the second comes first in the list. `MaxChanges` is the only bound on
behaviours. In `HTTPProxyQueries` the initial states are all assignments of
specs and statuses too; names and namespaces overlap so that one taken for the
other can still name a proxy; the including spec has an include with and without
a namespace, without a name, and of a proxy that never exists. In `Server` the
calls meet in `Drained` and in the select only, where one call in flight and one
that is not are all there is to tell apart; the ways to start are both
transports, an unknown one, and `-version`; the requests are one page, one whose argument is
refused, and `envoy_ready`. In `process` the transport is HTTP, where an exit
waits for calls and calls for an exit; over stdio the process just leaves, and
the theorems cover that and every other way to start.

Fairness. `FairSpec` of `AdminCall` is weak fairness of each handler and of each
`ForwardPorts` goroutine once its dial has ended: the Go scheduler runs every goroutine that
can step, and the 30 s timeout of the HTTP clients ends a GET that gets no
answer (`RequestFails` is always possible in `connect` and `request`). Nothing
in the code bounds the dial, so that no fairness is assumed of it: neither
liveness property says anything of a call whose dial hangs for ever, but
`CallReturns` says that such a call returns once it is cancelled. Calls,
cancellations and lost connections are never owed. Deadlock is checked in every
run: `Quiescent` is the state of `AdminCall` in which all the calls are over,
`Finished` that of `Server` in which the process is, and the other two modules
never stop.

`FairSpec` of `Server` is weaker than it could be on purpose: weak fairness of
the main goroutine, and of the return of each handler whose context is
cancelled. The first is the Go scheduler's; the second is what
`AdminCall!CallReturns` shows of an admin request that is cancelled, and what
client-go does with a context that is done. Targets, readers of responses and
clients are owed nothing. The timer of `Shutdown` is no part of it either: that
it fires is the premise of `SignalEndsProcess`, so that `ShutdownWaitsForReaders`
can say what would keep the process without it: only a client that does not
read its response.

`FairSpec` of `Process` needs no such premise about handlers: weak fairness of
the main goroutine, of each handler in its admin request, of each `ForwardPorts`
goroutine that has dialled, of the passing on of a context that is done, and of
the end of the API requests of `envoyTarget` when it is. Dials, pods and readers
are owed nothing. That every handler returns once the root context is done,
which `Server` assumes, is here a consequence, and the same
`ShutdownWaitsForReaders` is checked without it.

## 4. What the runs found

Each is a run that expects a violation; `findings` in `PROJECT.json` quotes the
line it disagrees with.

* **A call can be answered by the pod of another call.** Between `ForwardPod`
  returning a URL and the GET, the tunnel may lose its connection, its listener
  close and another call's tunnel be given the same local port. What does hold,
  and is proved, is that only a call whose own tunnel was lost is so affected.
* **A class without a configuration gets another class's port** when its name is
  a word of that class's: the match by words is tried whenever the exact name
  is missing. A class that has a configuration of its own is safe, which is
  proved.
* **The tree is one level deep.**
* **A proxy without a status counts as valid** and "All HTTPProxies have Valid
  status" is answered.
* **The stdio transport does not wait.** On a signal `serveStdio` returns at
  once, and the process exits with status 0 while requests it has received are
  unanswered. Over HTTP a clean exit owes nothing, which is proved.
* **`envoy_stats` with the format `prometheus` answers text**, and with a filter
  no format is looked at; a filter with a `#` or a `&` is cut there. The trace shows
  both in one request.

Two more things the model shows without a run of their own: a pod without a
class label is listed under "(unlabeled)", which no call accepts as its class
(`ListFails`); and the namespace of a backend is ignored for a TCP proxy and for
a service that names none, so that the search promises completeness only.

## 5. Proofs

All theorems hold for any finite or infinite sets that meet the named
assumptions (`ConstantsAssumption`, `OptionsAssumption`, `ToolsAssumption`),
which only say that values that must differ do, that pods and configurations are
numbered, that the pods are finitely many, and that names, host names and
includes are strings and sequences of them.

`AdminCallProofs`. The properties are not inductive: that a stop channel is
never closed twice depends on where both goroutines are. The invariant `IInv`
adds, in named parts: what a call that never forwarded has not touched
(`FreshInv`), how the channels follow `ForwardPorts` (`ChannelInv`), how the
handler follows the channels, so that whoever may still close `stopCh` finds it
open (`HandlerInv`), that a port is held by exactly the tunnel that serves it
(`PortInv`), and what a GET can be connected to and answered by (`AnswerInv`).
Each part has a lemma with one step for each action. `TypeCorrect`, `StopOnce`,
`Released`, `Undisturbed` and `Misdirection` follow from it. `Refinement` shows
under the invariant that each action is a step of `TunnelLease` or a stutter:
`OpenStep`, `EndStep` and `AnswerStep` are the three ways to be a step.
`CallLease`, `CancelLease`, `HandlerLease` and `TunnelEnds` say which steps are
which, for `ProcessProofs` to use.

Two theorems are the safety core of `CallReturns`, which cannot be proved itself.
`Awake`: a handler in the select of `ForwardPod` has something to receive, or a
goroutine left that will close `readyCh` or send; and a goroutine that has to
send never meets a full buffer. For this `ChannelInv` says that a goroutine that
is over has left its error for a select that still waits. `Bounded`: every step
uses up one of the at most twelve that a call has, and none of another call's,
so that nothing is retried and no call keeps another busy.

`IngressTargetsProofs`. The lemmas about `matchIngressClassConfig` and
`PortsForIngressClass` say what the two return, with `Min` of a nonempty set of
numbers as the first element the loop meets. `IInv` says of each place of a call
what it has resolved so far, if it is settled, and makes
`EnvoyResolvedAsDocumented` inductive. `EnvoyCorrect`, `DAGCorrect` and
`OwnConfig` follow; the last two are action properties, the last needing only
the types. `Discovery` relates two calls: its invariant `DInv` adds what a
listing under way, and the last one the client has, say of the cluster
(`ListingInv`), and which of the ports that the documentation allows an
undisturbed call ends with (`EndedInv`). `EnvoyFailures` is of the calls that
fail: `FailInv` adds that a call that has still to find a pod has none.

`HTTPProxyQueriesProofs`. `MatchIsServes` is the lemma about the wildcard: a
suffix that begins at a dot, compared with `IsSuffix` of two lower-cased names,
says the same as one label or more put in place of the `*`. It is proved place
by place (`SuffixByPlace`, `FoldedByPlace`), for host names of any length and
any function `Lower`, and gives `FQDNCorrect`. The two tools of several requests
need to know what they have shown so far: `ConditionsInv` between the two Gets
of a status; and `LeavesInv` between two leaves of a tree, that the includes
still to read are a tail of the root's and that the includes before it are
shown (`ShowsIncludes(n)`, an increasing enumeration of the named ones). Both
rest on `DuringInv`, that a proxy is always as it has been during the call.
`ShownWithLeaf` and its kin are the step of the loop.

`ServerProofs`. `CallInv` says at which stages a call can be in the transport,
its handler and its admin request at once: no request that was not received, no
lease that was not asked for, none held after the return. `LifeInv` says what
each place of the main goroutine knows of the server. `IInv` adds the types,
`GracefulHTTP` and `ExitStatusTells`, and `Tunnels` and `Success` are read off
it. `ContractKept` is the refinement of `Service`: what each exit may mean is
what `LifeInv` says of the place where main takes it.

`ProcessProofs` proves no invariant of its own. It takes the proofs about
`AdminCall` and `Server` as instances (`AP`, `SP`), shows that their assumptions
follow from those of `Process` (`CallsAssumed`, `ServerAssumed`), and that a step
of the process is a step of `AdminCall` or leaves its variables alone
(`NextCalls`). This lemma only brings in the invariant of the calls: it says how
`Process` is written and nothing about the code. Under it, and with the lemmas of `AdminCallProofs` about single steps,
each step of the process is a step of `Server` or shows nothing of itself
(`HandleServer`, `ReturnServer`, `NextServer`): `ServerImplemented`. What is
proved of either then holds in the process (`CallsSafe`, `CallsBounded`,
`ServerSafe`, `ContractKept`), and `CleanExits` joins the two ends: a success of
an HTTP server means that every running `ForwardPorts` finds its `stopCh`
closed. The lemmas `SameCalls`, `SameServer` and their kin only say that a
definition reached through two instances is one definition.

Model-checked only: liveness (`CallReturns`, `GoroutineExits`,
`SignalEndsProcess`, and `ShutdownWaitsForReaders` of `Server` and of `Process`),
which is out of the prover's reach, as is all that rests on fairness and
`ENABLED`. Every invariant, action property and refinement that a passing run
checks is proved.

## 6. Not modelled

* `handleListEnvoyPods`: one ListPods, printed.
* The health handler, which has no state; logging and JSON output.
* `buildConfig`, the source of the Kubernetes configuration: one chain of
  conditions, evaluated once before anything is served. That it may fail is
  `SetupFails`.
* `-context`, which is handed to client-go as it is, and the registration of the
  tools, a table given to mcp-go once.
* What a handler that panics does to the others: that is mcp-go's to settle.
  That no call closes its stop channel twice, which would be one, is proved
  (`StopOnce`).

## 7. Plan

Done: `AdminCall` and `TunnelLease`; `IngressTargets`; `HTTPProxyQueries`;
`Serve`, `EnvoyTools`, `Server` and `Service`; `Process`; the proofs of all their
invariants, of the action properties and of the refinements.

What is left: `envoyTarget` in `EnvoyTools` in place of its outcome, to ask what
a client learns of a pod that changed between selection and answer, and to prove
that an undisturbed success comes from the documented pod.
