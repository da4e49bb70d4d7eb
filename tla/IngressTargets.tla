---------------------------- MODULE IngressTargets ----------------------------
(***************************************************************************)
(* Which pod and which port a tool call is aimed at: envoyTarget, which    *)
(* every envoy_* tool starts with, the selection in handleContourDAG, and  *)
(* list_envoy_ingress_classes, whose answer a client feeds back as the     *)
(* ingress_class of the next call (internal/tools/registry.go), over       *)
(* PortsForIngressClass (internal/contour/ingressclass.go).                *)
(*                                                                         *)
(* A call reads the cluster in separate API requests, and the cluster      *)
(* changes between them.  Calls share no state of the server and write     *)
(* nothing, so a client that makes one call after another shows all of it. *)
(*                                                                         *)
(* Pods and ContourConfigurations are numbered in the order the API server *)
(* lists them, by name.  A port is told by where it comes from: the number *)
(* of the configuration that sets it, DefaultPort or OverridePort.  Class  *)
(* and configuration names are the sequences of their words: "ode-private" *)
(* is <<"ode", "private">>, and "" is <<"">>.                              *)
(***************************************************************************)
EXTENDS Integers, Sequences, FiniteSets, FiniteSetsExt

CONSTANTS
  Envoys,       \* the pods labelled component=envoy
  Contours,     \* the pods labelled component=contour
  Configs,      \* the ContourConfigurations there may be
  ConfigName,   \* ConfigName[k]: the words of the name of k
  Labels,       \* the values of the ingress class label, "" for none
  Asked,        \* the ingress_class arguments of the client
  DefaultClass, \* the -default-ingress-class flag
  Settings,     \* the sets of fields a configuration may set (to more than 0)
  DefaultPort,  \* Contour's default: 9001 for the admin port, 6060 for debug
  OverridePort, \* the admin_port argument
  MaxChanges    \* bound on the changes to the cluster in a behaviour

NoClass   == <<"">>
Unlabeled == <<"(unlabeled)">>
NoPod     == 0
NoConfig  == 0
Pods      == Envoys \cup Contours
Ports     == Configs \cup {DefaultPort, OverridePort}
Fields    == {"adminPort", "debugPort"}
Classes   == Labels \cup Asked \cup {DefaultClass, NoClass, Unlabeled}

ASSUME ConstantsAssumption ==
  /\ IsFiniteSet(Pods) /\ Pods \subseteq Nat \ {NoPod}
  /\ Configs \subseteq Nat \ {NoConfig}
  /\ Envoys \cap Contours = {}
  /\ NoClass \in Asked
  /\ Unlabeled \notin Labels \cup {DefaultClass}
  /\ Settings \subseteq SUBSET Fields
  /\ DefaultPort # OverridePort
  /\ {DefaultPort, OverridePort} \cap Configs = {}
  /\ MaxChanges \in Nat

PodState == [class : Labels, ready : BOOLEAN]
Args     == [url : BOOLEAN, class : Asked, pod : Pods \cup {NoPod},
             port : BOOLEAN]

NoArgs   == [url |-> FALSE, class |-> NoClass, pod |-> NoPod, port |-> FALSE]

VARIABLES
  pods,     \* the pods that exist, with their class label and readiness
  configs,  \* the configurations that exist, with the fields they set
  changes,  \* how often the cluster has changed
  tool,     \* the handler running, or that ran last
  args,     \* its arguments: whether a URL or a port is given, class and pod
  pc,       \* where it is
  class, pod, port, \* its local variables; class and pod as resolved
  summary,  \* byIngressClass, the answer of list_envoy_ingress_classes
  todo,     \* the classes of summary whose port is still to be looked up
  result,   \* how the call ended
  settled,  \* since it began, the cluster stayed and no API request failed
  listed    \* the last settled summary the client has, forgotten on a change

cluster == <<pods, configs, changes>>
locals  == <<class, pod, port>>
listing == <<summary, todo>>
vars    == <<cluster, tool, args, pc, locals, listing, result, settled, listed>>

Tools   == {"none", "envoy", "dag", "classes"}
Places  == {"idle", "select", "derive", "port", "list", "summarize"}
Results == {"none", "failed", "url", "default", "target", "listing"}
Nothing == [c \in {} |-> 0]
Summary == [pods : Nat, ready : Nat, port : Ports]
IsSummary(s) ==
  /\ DOMAIN s \subseteq (Labels \ {NoClass}) \cup {Unlabeled}
  /\ s \in [DOMAIN s -> Summary]

TypeOK ==
  /\ DOMAIN pods \subseteq Pods /\ pods \in [DOMAIN pods -> PodState]
  /\ DOMAIN configs \subseteq Configs /\ configs \in [DOMAIN configs -> Settings]
  /\ changes \in 0..MaxChanges
  /\ tool \in Tools /\ args \in Args /\ pc \in Places
  /\ class \in Classes /\ pod \in Pods \cup {NoPod} /\ port \in Ports
  /\ IsSummary(summary) /\ IsSummary(listed) /\ todo \subseteq DOMAIN summary
  /\ result \in Results /\ settled \in BOOLEAN

------------------------------------------------------------------------------
(* internal/contour/ingressclass.go                                        *)

Conventional(c) == <<"contour">> \o c \o <<"configuration">>

\* strings.Contains("-" + name + "-", "-" + c + "-"), word by word.
HasWords(name, c) ==
  \E i \in 0..(Len(name) - Len(c)) : SubSeq(name, i + 1, i + Len(c)) = c

Exact(c) == {k \in DOMAIN configs : ConfigName[k] = Conventional(c)}
Loose(c) == {k \in DOMAIN configs : HasWords(ConfigName[k], c)}

\* Mutant: the loop returns the first match of either kind.
MatchFirst(c) ==
  IF Exact(c) \cup Loose(c) # {} THEN Min(Exact(c) \cup Loose(c)) ELSE NoConfig

\* The loop returns an exact match wherever it is, else the first loose one.
matchIngressClassConfig(c) ==
  IF Exact(c) # {} THEN Min(Exact(c))
  ELSE IF Loose(c) # {} THEN Min(Loose(c)) ELSE NoConfig

\* One List request, and the field it sets or Contour's default.
PortsForIngressClass(c, field) ==
  LET k == matchIngressClassConfig(c)
  IN  IF k # NoConfig /\ field \in configs[k] THEN k ELSE DefaultPort

------------------------------------------------------------------------------
(* internal/tools/registry.go                                              *)

\* ListPods with the selector component=...,name=c.  The API server refuses
\* a selector that is no label value, "(unlabeled)".
Selector(t)  == IF t = "dag" THEN Contours ELSE Envoys
Selected(t, c) == {p \in Selector(t) \cap DOMAIN pods : pods[p].class = c}

Begin(t, a) ==
  /\ pc = "idle"
  /\ tool' = t /\ args' = a /\ settled' = TRUE
  /\ summary' = Nothing /\ todo' = {}
  /\ UNCHANGED <<cluster, listed>>

\* A call that is over as soon as it begins.
EndAtOnce(r) ==
  /\ class' = NoClass /\ pod' = NoPod /\ port' = DefaultPort
  /\ result' = r
  /\ UNCHANGED pc

Continue(place, c, p) ==
  /\ pc' = place /\ class' = c /\ pod' = p /\ port' = DefaultPort
  /\ result' = "none"

\* envoyTarget, by envoy_url.
EnvoyByURL(a) == Begin("envoy", a) /\ a.url /\ EndAtOnce("url")

\* envoyTarget with no argument and no default class: the empty Target.
EnvoyByDefault(a) ==
  /\ Begin("envoy", a)
  /\ ~a.url /\ a.pod = NoPod /\ a.class = NoClass /\ DefaultClass = NoClass
  /\ EndAtOnce("default")

\* envoyTarget, by ingress_class or by the server's default class.
EnvoyByClass(a) ==
  LET c == IF a.class = NoClass THEN DefaultClass ELSE a.class
  IN  /\ Begin("envoy", a)
      /\ ~a.url /\ a.pod = NoPod /\ c # NoClass
      /\ Continue("select", c, NoPod)

\* envoyTarget, by pod; its class may have to be derived.
EnvoyByPod(a) ==
  /\ Begin("envoy", a)
  /\ ~a.url /\ a.pod # NoPod
  /\ Continue(IF a.class = NoClass THEN "derive" ELSE "port", a.class, a.pod)

\* handleContourDAG: a class is required, and a pod may be named.
DAGUnclassed(a) ==
  /\ Begin("dag", a)
  /\ ~a.url /\ ~a.port /\ a.class = NoClass
  /\ EndAtOnce("failed")
DAG(a) ==
  /\ Begin("dag", a)
  /\ ~a.url /\ ~a.port /\ a.class # NoClass
  /\ Continue(IF a.pod = NoPod THEN "select" ELSE "port", a.class, a.pod)

\* handleListEnvoyIngressClasses is called.
ListClasses == Begin("classes", NoArgs) /\ Continue("list", NoClass, NoPod)

Finish(r) == pc' = "idle" /\ result' = r

\* ListPods returns an error: so does the call.
ListFails ==
  /\ pc \in {"select", "derive", "list"}
  /\ Finish("failed")
  /\ settled' = (settled /\ class = Unlabeled)
  /\ UNCHANGED <<cluster, tool, args, locals, listing, listed>>

\* Mutant: the first pod of the class, ready or not.
SelectFirst ==
  /\ pc = "select" /\ class # Unlabeled /\ Selected(tool, class) # {}
  /\ pod' = Min(Selected(tool, class))
  /\ pc' = "port"
  /\ UNCHANGED <<cluster, tool, args, class, port, listing, result, settled, listed>>

\* The first ready pod of the class.
SelectReadyPod ==
  LET ready == {p \in Selected(tool, class) : pods[p].ready}
  IN  /\ pc = "select" /\ class # Unlabeled
      /\ ready # {}
      /\ pod' = Min(ready)
      /\ pc' = "port"
      /\ UNCHANGED <<cluster, tool, args, class, port, listing, result, settled,
                     listed>>

\* "no ready Envoy pods for ingress class ..."
NoReadyPod ==
  /\ pc = "select" /\ class # Unlabeled
  /\ \A p \in Selected(tool, class) : ~pods[p].ready
  /\ Finish("failed")
  /\ UNCHANGED <<cluster, tool, args, locals, listing, settled, listed>>

\* The class of a named pod is its label; "" if the pod is not listed.
DeriveClass ==
  /\ pc = "derive"
  /\ class' = IF pod \in Envoys \cap DOMAIN pods THEN pods[pod].class ELSE NoClass
  /\ pc' = "port"
  /\ UNCHANGED <<cluster, tool, args, pod, port, listing, result, settled, listed>>

\* A positive admin_port argument needs no look-up.
UsePort ==
  /\ pc = "port" /\ tool = "envoy" /\ args.port
  /\ port' = OverridePort
  /\ Finish("target")
  /\ UNCHANGED <<cluster, tool, args, class, pod, listing, settled, listed>>

Field == IF tool = "dag" THEN "debugPort" ELSE "adminPort"

LookUpPort ==
  /\ pc = "port" /\ (tool = "dag" \/ ~args.port)
  /\ port' = PortsForIngressClass(class, Field)
  /\ Finish("target")
  /\ UNCHANGED <<cluster, tool, args, class, pod, listing, settled, listed>>

\* Mutant: handleContourDAG takes the ports that come with the error.
LookUpFallsBack ==
  /\ pc = "port" /\ (tool = "dag" \/ ~args.port)
  /\ port' = DefaultPort /\ settled' = FALSE
  /\ Finish("target")
  /\ UNCHANGED <<cluster, tool, args, class, pod, listing, listed>>

\* Mutant: envoyTarget returns the error of the look-up.
LookUpFailsCall ==
  /\ pc = "port" /\ (tool = "dag" \/ ~args.port)
  /\ port' = DefaultPort /\ settled' = FALSE
  /\ Finish("failed")
  /\ UNCHANGED <<cluster, tool, args, class, pod, listing, listed>>

\* The look-up fails: envoyTarget takes the default, handleContourDAG fails.
LookUpFails ==
  /\ pc = "port" /\ (tool = "dag" \/ ~args.port)
  /\ port' = DefaultPort /\ settled' = FALSE
  /\ Finish(IF tool = "dag" THEN "failed" ELSE "target")
  /\ UNCHANGED <<cluster, tool, args, class, pod, listing, listed>>

\* Mutant: an unlabelled pod makes a class of no name.
GroupedByLabel(p) == pods[p].class

\* The class an Envoy pod is listed under.
Grouped(p) == IF pods[p].class = NoClass THEN Unlabeled ELSE pods[p].class
Summarize ==
  LET envoys == Envoys \cap DOMAIN pods
      of(c)  == {p \in envoys : Grouped(p) = c}
  IN  /\ pc = "list"
      /\ summary' = [c \in {Grouped(p) : p \in envoys} |->
                       [pods  |-> Cardinality(of(c)),
                        ready |-> Cardinality({p \in of(c) : pods[p].ready}),
                        port  |-> DefaultPort]]
      /\ todo' = DOMAIN summary'
      /\ pc' = "summarize"
      /\ UNCHANGED <<cluster, tool, args, locals, result, settled, listed>>

\* Mutant: the debug port is reported as the admin port.
SummarizeDebugPort(c) ==
  /\ pc = "summarize" /\ c \in todo
  /\ todo' = todo \ {c}
  /\ summary' = [summary EXCEPT ![c].port = PortsForIngressClass(c, "debugPort")]
  /\ UNCHANGED <<cluster, tool, args, pc, locals, result, settled, listed>>

\* The admin port of one class; the map is walked in any order.
SummarizePort(c) ==
  /\ pc = "summarize" /\ c \in todo
  /\ todo' = todo \ {c}
  /\ summary' = [summary EXCEPT ![c].port = PortsForIngressClass(c, "adminPort")]
  /\ UNCHANGED <<cluster, tool, args, pc, locals, result, settled, listed>>

\* A look-up that fails leaves the default, and goes on.
SummarizePortFails(c) ==
  /\ pc = "summarize" /\ c \in todo
  /\ todo' = todo \ {c}
  /\ summary' = [summary EXCEPT ![c].port = DefaultPort]
  /\ settled' = FALSE
  /\ UNCHANGED <<cluster, tool, args, pc, locals, result, listed>>

ReturnListing ==
  /\ pc = "summarize" /\ todo = {}
  /\ Finish("listing")
  /\ listed' = IF settled THEN summary ELSE Nothing
  /\ UNCHANGED <<cluster, tool, args, locals, listing, settled>>

------------------------------------------------------------------------------
(* The cluster.                                                            *)

Set(f, k, v) == [x \in DOMAIN f \cup {k} |-> IF x = k THEN v ELSE f[x]]
Unset(f, k)  == [x \in DOMAIN f \ {k} |-> f[x]]

Changed ==
  /\ changes < MaxChanges /\ changes' = changes + 1
  /\ settled' = FALSE /\ listed' = Nothing
  /\ UNCHANGED <<tool, args, pc, locals, listing, result>>

\* A pod comes, goes, is relabelled, becomes ready or stops being so.
ChangePod(p) ==
  /\ pods' \in {Unset(pods, p)} \cup {Set(pods, p, s) : s \in PodState}
  /\ pods' # pods
  /\ Changed /\ UNCHANGED configs

\* A configuration is created, edited or deleted.
ChangeConfig(k) ==
  /\ configs' \in {Unset(configs, k)} \cup {Set(configs, k, s) : s \in Settings}
  /\ configs' # configs
  /\ Changed /\ UNCHANGED pods

------------------------------------------------------------------------------
SubsetFunctions(S, T) == UNION {[D -> T] : D \in SUBSET S}

Init ==
  /\ pods \in SubsetFunctions(Pods, PodState)
  /\ configs \in SubsetFunctions(Configs, Settings)
  /\ changes = 0
  /\ tool = "none" /\ pc = "idle" /\ result = "none" /\ settled = FALSE
  /\ args = NoArgs
  /\ class = NoClass /\ pod = NoPod /\ port = DefaultPort
  /\ summary = Nothing /\ todo = {} /\ listed = Nothing

Call(a) ==
  \/ EnvoyByURL(a) \/ EnvoyByDefault(a) \/ EnvoyByClass(a) \/ EnvoyByPod(a)
  \/ DAGUnclassed(a) \/ DAG(a)

EnvoyTarget == DeriveClass \/ UsePort
Look ==
  \/ ListFails \/ SelectReadyPod \/ NoReadyPod \/ LookUpPort \/ LookUpFails
Discover ==
  \/ Summarize
  \/ \E c \in todo : SummarizePort(c) \/ SummarizePortFails(c)
  \/ ReturnListing

Next ==
  \/ (\E a \in Args : Call(a)) \/ ListClasses
  \/ EnvoyTarget \/ Look \/ Discover
  \/ \E p \in Pods : ChangePod(p)
  \/ \E k \in Configs : ChangeConfig(k)

Spec == Init /\ [][Next]_vars

------------------------------------------------------------------------------
(* Properties.                                                             *)

\* What the comments of PortsForIngressClass and matchIngressClassConfig say:
\* n is the port of class c by its own configuration, or by one that has its
\* words when it has none, or else by default.
IsPortOf(n, c, field) ==
  \/ \E k \in DOMAIN configs :
       /\ ConfigName[k] = Conventional(c) \/ (Exact(c) = {} /\ k \in Loose(c))
       /\ n = IF field \in configs[k] THEN k ELSE DefaultPort
  \/ Exact(c) \cup Loose(c) = {} /\ n = DefaultPort

IsFirstReady(p, t, c) ==
  /\ p \in Selected(t, c) /\ pods[p].ready
  /\ \A q \in Selected(t, c) : pods[q].ready => p <= q

\* The class whose port an envoy_* call is to use: that of the pod's label if
\* only a pod is named.
ClassAsked ==
  IF args.class # NoClass THEN args.class
  ELSE IF args.pod = NoPod THEN DefaultClass
  ELSE IF args.pod \in Envoys \cap DOMAIN pods THEN pods[args.pod].class
  ELSE NoClass

\* "envoy_url (direct) > pod > ingress class (first ready pod) > server
\* default ingress class" (registry.go:472): if neither the cluster nor a
\* failed API request got in its way, a call ends with exactly that target,
\* on the port of its class.
EnvoyResolvedAsDocumented ==
  settled /\ pc = "idle" /\ tool = "envoy" =>
    /\ result = "url" <=> args.url
    /\ result = "default" <=> /\ ~args.url /\ args.pod = NoPod
                             /\ ClassAsked = NoClass
    /\ result = "target" => /\ IF args.pod # NoPod
                                 THEN pod = args.pod
                                 ELSE IsFirstReady(pod, "envoy", ClassAsked)
                            /\ IF args.port
                                 THEN port = OverridePort
                                 ELSE IsPortOf(port, ClassAsked, "adminPort")
    /\ result = "failed" =>
         /\ args.pod = NoPod
         /\ \A p \in Pods : ~IsFirstReady(p, "envoy", ClassAsked)

\* An envoy_* call fails for want of a pod, or of the list of pods, and for
\* nothing else, whatever happens to the cluster while it runs: no error of a
\* configuration ends it, and a call that names its pod can fail only where
\* the class has to be derived from the list, even if it gives the port for
\* which the class is wanted (registry.go:509-512, 522-526).
EnvoyFailsForPodsOnly ==
  tool = "envoy" /\ result = "failed" =>
    /\ ~args.url
    /\ IF args.pod = NoPod THEN pod = NoPod
                           ELSE args.class = NoClass /\ ~settled

\* get_contour_dag reaches the named pod or the first ready one of the class
\* if the cluster stayed, and whether it did or not the debug port that the
\* configurations give as it is looked up: no failed look-up passes for a
\* default.
DAGResolvedAsDocumented ==
  [][tool = "dag" /\ pc # "idle" /\ result' = "target" =>
       /\ IsPortOf(port', class, "debugPort")
       /\ IF args.pod # NoPod THEN pod = args.pod
                              ELSE settled => IsFirstReady(pod, "dag", class)]_vars

\* The exact name is preferred wherever it is in the list, for the tools and
\* for the listing, and however the cluster changes between their steps.
OwnConfigWins ==
  [][/\ port' # port /\ port' \in Configs /\ Exact(class) # {}
       => port' \in Exact(class)
     /\ \A c \in DOMAIN summary \cap DOMAIN summary' :
          LET n == summary'[c].port
          IN  n # summary[c].port /\ n \in Configs /\ Exact(c) # {}
                => n \in Exact(c)]_vars

\* What list_envoy_ingress_classes reported still holds of the next call, if
\* nothing changed: a labelled class is reached exactly if it has ready pods,
\* on the admin port reported.
ListedClass == tool = "envoy" /\ args = [NoArgs EXCEPT !.class = args.class]
                 /\ args.class \in DOMAIN listed
DiscoveryAgrees ==
  settled /\ pc = "idle" /\ ListedClass /\ args.class # Unlabeled =>
    /\ result = "target" <=> listed[args.class].ready > 0
    /\ result = "target" => port = listed[args.class].port

\* "ingress class "private" does not match contour-ode-private-configuration"
\* (ingressclass.go:85-86): no class gets the port of another class.
NoPortOfAnotherClass ==
  result = "target" /\ port \in Configs =>
    \A c \in Labels \ {class} : ConfigName[port] # Conventional(c)
==============================================================================
