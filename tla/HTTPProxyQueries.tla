-------------------------- MODULE HTTPProxyQueries --------------------------
(***************************************************************************)
(* The tools that read Contour's resources (internal/tools/registry.go)    *)
(* and the requests to the API server they are made of                     *)
(* (internal/contour/client.go).                                           *)
(*                                                                         *)
(* Most tools make one request.  get_httpproxy_status makes two and        *)
(* get_httpproxy_tree one for the root and one for every include, while    *)
(* the proxies change and single requests fail.  Calls share no state of   *)
(* the server, so one client that makes one call after another shows all.  *)
(*                                                                         *)
(* A host name is the sequence of its labels: "*.a.b" is <<"*", "a", "b">>, *)
(* and <<>> is no host name.  "" is an empty string, or a field not set.   *)
(***************************************************************************)
EXTENDS Naturals, Sequences, FiniteSets, SequencesExt

CONSTANTS
  Proxies,    \* the HTTPProxies there may be, each an [ns, name]
  Specs,      \* the specs a proxy may have
  Statuses,   \* the values of status.currentStatus; the conditions go with it
  Hosts,      \* the names searched by search_httpproxy_by_fqdn
  Backends,   \* the [name, ns] searched by search_httpproxy_by_backend
  Others,     \* the resources of other kinds, each a [kind, ns]; they do not
              \* change, since a tool that reads them makes one request
  DefaultNS,  \* the -contour-namespace flag
  Lower,      \* Lower[l]: the label l in lower case
  Absent,     \* there is no such proxy
  Broken,     \* a request failed for another reason than that
  MaxChanges  \* bound on the changes to the proxies in a behaviour

Version == [spec : Specs, status : Statuses]

Ref == [ns : STRING, name : STRING]

ASSUME ConstantsAssumption ==
  /\ Proxies \subseteq Ref /\ Hosts \subseteq Seq(STRING)
  /\ \A s \in Specs : s.includes \in Seq(Ref) /\ s.fqdn \in Seq(STRING)
  /\ {"", "Valid"} \subseteq Statuses
  /\ Absent \notin Version /\ Broken \notin Version /\ Absent # Broken
  /\ MaxChanges \in Nat

VARIABLES
  proxies,  \* proxies[i]: the version of i that exists, or Absent
  changes,  \* how often one has changed
  began,    \* began[i]: the version of i as the call began (history)
  during,   \* during[i]: every version of i since then (history)
  call,     \* the call running, or that ran last
  pc,       \* where it is
  answer,   \* what it answers, as far as it is known
  todo      \* the includes of the root that are still to be read

vars == <<proxies, changes, began, during, call, pc, answer, todo>>

Failed  == [kind |-> "failed"]
NoCall  == [tool |-> "none"]
ByProxy == {"get", "status", "tree"}
Namespaces == {i.ns : i \in Proxies \cup Others} \cup {""}
Queries ==
  [tool : ByProxy, id : Proxies]
    \cup [tool : {"list", "delegations", "extensions"}, ns : Namespaces]
    \cup [tool : {"invalid"}]
    \cup [tool : {"fqdn"}, host : Hosts]
    \cup [tool : {"backend"}, service : Backends]

\* What a request for one proxy can show.
Seen    == Version \cup {Absent, Broken}
Leaf    == [id : Ref, seen : Seen]

TypeOK ==
  /\ proxies \in [Proxies -> Version \cup {Absent}]
  /\ changes \in 0..MaxChanges
  /\ began \in [Proxies -> Version \cup {Absent}]
  /\ during \in [Proxies -> SUBSET (Version \cup {Absent})]
  /\ call \in Queries \cup {NoCall} \cup [tool : {"incomplete"}]
  /\ pc \in {"idle", "conditions", "leaves"}
  /\ \/ answer = Failed
     \/ answer \in [kind : {"proxy"}, proxy : Version]
     \/ answer \in [kind : {"found"}, found : SUBSET (Proxies \cup Others)]
     \/ answer \in [kind : {"status"}, status : Statuses, conditions : Statuses]
     \/ answer \in [kind : {"tree"}, root : Version, leaves : Seq(Leaf)]
  /\ todo \in Seq(Ref)

------------------------------------------------------------------------------
(* internal/contour/client.go                                              *)

\* strings.EqualFold, label by label.
Folded(host) == [k \in DOMAIN host |-> Lower[host[k]]]

\* Mutant: the suffix is compared without its dot, so the bare domain matches.
MatchNoDot(pattern, fqdn) ==
  /\ pattern # <<>>
  /\ IF Len(pattern) > 1 /\ pattern[1] = "*"
       THEN IsSuffix(Folded(Tail(pattern)), Folded(fqdn))
       ELSE Folded(pattern) = Folded(fqdn)

\* The suffix compared begins with the dot, so a label, be it an empty one,
\* comes before.
matchFQDN(pattern, fqdn) ==
  /\ pattern # <<>>
  /\ IF Len(pattern) > 1 /\ pattern[1] = "*"
       THEN /\ Len(fqdn) >= Len(pattern)
            /\ IsSuffix(Folded(Tail(pattern)), Folded(fqdn))
       ELSE Folded(pattern) = Folded(fqdn)

\* Mutant: a service that names no namespace is in none.
HasBackendInNamespace(spec, b) ==
  \/ \E s \in spec.services : s.name = b.name /\ b.ns \in {"", s.ns}
  \/ spec.tcp = b.name
  \/ \E k \in DOMAIN spec.includes : spec.includes[k].name = b.name

\* The namespace counts only for a route's service that names one.
proxyHasBackend(spec, b) ==
  \/ \E s \in spec.services :
       s.name = b.name /\ (b.ns \in {"", s.ns} \/ s.ns = "")
  \/ spec.tcp = b.name
  \/ \E k \in DOMAIN spec.includes : spec.includes[k].name = b.name

Existing == {i \in Proxies : proxies[i] # Absent}

\* One Get request.
Get(i) == IF i \in Proxies THEN proxies[i] ELSE Absent

------------------------------------------------------------------------------
(* internal/tools/registry.go                                              *)

Begin(q) ==
  /\ pc = "idle"
  /\ call' = q
  /\ began' = proxies
  /\ during' = [i \in Proxies |-> {proxies[i]}]
  /\ UNCHANGED <<proxies, changes>>

\* A call of one request is over as soon as that has been made.
Return(a) == answer' = a /\ todo' = <<>> /\ UNCHANGED pc

\* A required argument is empty.
Incomplete == Begin([tool |-> "incomplete"]) /\ Return(Failed)

\* The only, or the first, request of a call fails.
FirstRequestFails(q) == Begin(q) /\ Return(Failed)

\* get_httpproxy and get_httpproxy_routes.
GetProxy(i) ==
  /\ Begin([tool |-> "get", id |-> i])
  /\ Return(IF Get(i) = Absent THEN Failed
            ELSE [kind |-> "proxy", proxy |-> Get(i)])

\* The tools that make one List request, and keep what they look for.
List(q, found) ==
  Begin(q) /\ Return([kind |-> "found", found |-> found])

ListHTTPProxies(ns) ==
  List([tool |-> "list", ns |-> ns], {i \in Existing : ns \in {"", i.ns}})

ListTLSCertDelegations(ns) ==
  List([tool |-> "delegations", ns |-> ns],
       {o \in Others : o.kind = "delegation" /\ ns \in {"", o.ns}})

\* No namespace stands for Contour's own here.
ListExtensionServices(ns) ==
  List([tool |-> "extensions", ns |-> ns],
       {o \in Others : /\ o.kind = "extension"
                       /\ o.ns = IF ns = "" THEN DefaultNS ELSE ns})

SearchByFQDN(h) ==
  List([tool |-> "fqdn", host |-> h],
       {i \in Existing : matchFQDN(proxies[i].spec.fqdn, h)})

SearchByBackend(b) ==
  List([tool |-> "backend", service |-> b],
       {i \in Existing : proxyHasBackend(proxies[i].spec, b)})

ListInvalidProxies ==
  List([tool |-> "invalid"],
       {i \in Existing : proxies[i].status \notin {"Valid", ""}})

\* get_httpproxy_status: the first of two Gets of the same proxy.
GetStatus(i) ==
  /\ Begin([tool |-> "status", id |-> i])
  /\ IF Get(i) = Absent THEN Return(Failed)
     ELSE /\ answer' = [kind |-> "status", status |-> Get(i).status,
                        conditions |-> ""]
          /\ pc' = "conditions"
          /\ todo' = <<>>

\* Mutant: the two Gets change places.
GetStatusLast ==
  /\ pc = "conditions"
  /\ answer' = [answer EXCEPT !.conditions = answer.status,
                              !.status = IF Get(call.id) = Absent THEN ""
                                         ELSE Get(call.id).status]
  /\ pc' = "idle"
  /\ UNCHANGED <<proxies, changes, began, during, call, todo>>

\* The second: the conditions of a proxy that has gone are none.
GetConditions ==
  /\ pc = "conditions"
  /\ answer' = [answer EXCEPT !.conditions =
                  IF Get(call.id) = Absent THEN "" ELSE Get(call.id).status]
  /\ pc' = "idle"
  /\ UNCHANGED <<proxies, changes, began, during, call, todo>>

\* An error of the second Get is dropped: no conditions.
GetConditionsFails ==
  /\ pc = "conditions"
  /\ pc' = "idle"
  /\ UNCHANGED <<proxies, changes, began, during, call, answer, todo>>

\* Mutant: the error of the root's Get is not looked at.
GetRootUnchecked(i) ==
  /\ Begin([tool |-> "tree", id |-> i])
  /\ answer' = [kind |-> "tree", root |-> Get(i), leaves |-> <<>>]
  /\ todo' = <<>>
  /\ pc' = "leaves"

\* get_httpproxy_tree: the Get of the root.
GetRoot(i) ==
  /\ Begin([tool |-> "tree", id |-> i])
  /\ IF Get(i) = Absent THEN Return(Failed)
     ELSE /\ answer' = [kind |-> "tree", root |-> Get(i), leaves |-> <<>>]
          /\ todo' = Get(i).spec.includes
          /\ pc' = "leaves"

\* Mutant: an include without a namespace is looked up without one.
IncludedAsWritten(inc) == inc

\* The proxy an include names: by default in the namespace of the root.
Included(inc) == IF inc.ns = "" THEN [inc EXCEPT !.ns = call.id.ns] ELSE inc

\* An include without a name is passed over.
PassOver ==
  /\ pc = "leaves" /\ todo # <<>> /\ Head(todo).name = ""
  /\ todo' = Tail(todo)
  /\ UNCHANGED <<proxies, changes, began, during, call, pc, answer>>

\* One leaf; one that cannot be read is an entry with its error.
AddLeaf(seen) ==
  /\ pc = "leaves" /\ todo # <<>> /\ Head(todo).name # ""
  /\ answer' = [answer EXCEPT !.leaves =
                  Append(@, [id |-> Included(Head(todo)), seen |-> seen])]
  /\ todo' = Tail(todo)
  /\ UNCHANGED <<proxies, changes, began, during, call, pc>>

GetLeaf      == todo # <<>> /\ AddLeaf(Get(Included(Head(todo))))
GetLeafFails == AddLeaf(Broken)

ReturnTree ==
  /\ pc = "leaves" /\ todo = <<>>
  /\ pc' = "idle"
  /\ UNCHANGED <<proxies, changes, began, during, call, answer, todo>>

------------------------------------------------------------------------------
\* The cluster: a proxy is created, edited or deleted, or its status set.
ChangeProxy(i) ==
  /\ changes < MaxChanges /\ changes' = changes + 1
  /\ \E v \in (Version \cup {Absent}) \ {proxies[i]} :
       /\ proxies' = [proxies EXCEPT ![i] = v]
       /\ during' = IF pc = "idle" THEN during
                    ELSE [during EXCEPT ![i] = @ \cup {v}]
  /\ UNCHANGED <<began, call, pc, answer, todo>>

Init ==
  /\ proxies \in [Proxies -> Version \cup {Absent}]
  /\ changes = 0
  /\ began = proxies
  /\ during = [i \in Proxies |-> {}]
  /\ call = NoCall /\ pc = "idle" /\ answer = Failed /\ todo = <<>>

OneRequest ==
  \/ \E i \in Proxies : GetProxy(i)
  \/ \E ns \in Namespaces : \/ ListHTTPProxies(ns)
                           \/ ListTLSCertDelegations(ns) \/ ListExtensionServices(ns)
  \/ \E h \in Hosts : SearchByFQDN(h)
  \/ \E b \in Backends : SearchByBackend(b)
  \/ ListInvalidProxies

Status == (\E i \in Proxies : GetStatus(i)) \/ GetConditions \/ GetConditionsFails
Tree ==
  \/ \E i \in Proxies : GetRoot(i)
  \/ PassOver \/ GetLeaf \/ GetLeafFails \/ ReturnTree

Next ==
  \/ Incomplete
  \/ \E q \in Queries : FirstRequestFails(q)
  \/ OneRequest \/ Status \/ Tree
  \/ \E i \in Proxies : ChangeProxy(i)

Spec == Init /\ [][Next]_vars

------------------------------------------------------------------------------
(* Properties.                                                             *)

Answered(kind) == pc = "idle" /\ answer.kind = kind

\* The proxies that were there, and were so, when a call of one request ran.
FoundAmong(P(_)) == {i \in Proxies : began[i] # Absent /\ P(i)}

\* The two Gets of get_httpproxy_status may read two versions, but never in
\* the wrong order: the status is of the proxy asked for as the first found
\* it, and the conditions, unless they are missing, of that version or of a
\* later one (registry.go:615-620).
StatusOfThisCall ==
  Answered("status") =>
    /\ began[call.id] # Absent /\ answer.status = began[call.id].status
    /\ answer.conditions
         \in {v.status : v \in during[call.id] \ {Absent}} \cup {""}

\* What a leaf has to be for an include: in the namespace that the include or
\* else the root gives, and, if it is missing, missing at some time of the call.
LeafOf(leaf, inc) ==
  /\ leaf.id = [name |-> inc.name, ns |-> IF inc.ns = "" THEN call.id.ns ELSE inc.ns]
  /\ leaf.seen # Broken =>
       IF leaf.id \in Proxies THEN leaf.seen \in during[leaf.id]
                              ELSE leaf.seen = Absent

\* at goes through the numbers of S once each, in their order.
InOrder(at, S) ==
  /\ \A k, l \in DOMAIN at : k < l => at[k] < at[l]
  /\ \A m \in S : \E k \in DOMAIN at : at[k] = m

\* The numbers of the includes, among the first n, that have a name.
Named(includes, n) == {m \in 1..n : includes[m].name # ""}

\* The first n includes of the root, those with a name, have one leaf each, in
\* their order: at[k] is the include that leaf k is for.
ShowsIncludes(n) ==
  LET includes == answer.root.spec.includes
      named    == Named(includes, n)
  IN  \E at \in [1..Len(answer.leaves) -> named] :
        /\ InOrder(at, named)
        /\ \A k \in DOMAIN at : LeafOf(answer.leaves[k], includes[at[k]])

\* get_httpproxy_tree answers one leaf for every named include of the root it
\* shows, in that order, each of the right proxy in the version that it had
\* with that root or got later: no leaf is older than the root.
TreeShowsIncludes ==
  Answered("tree") =>
    /\ answer.root = began[call.id]
    /\ ShowsIncludes(Len(answer.root.spec.includes))

\* A pattern serves a name if putting one label or more in place of a leading
\* "*" makes it that name, in either case.
Serves(pattern, host) ==
  \/ pattern # <<>> /\ Folded(pattern) = Folded(host)
  \/ /\ Len(pattern) > 1 /\ pattern[1] = "*"
     /\ \E n \in 1..Len(host) :
          Folded(SubSeq(host, 1, n) \o Tail(pattern)) = Folded(host)

\* "Search for Contour HTTPProxies that match a given fully qualified domain
\* name.  Supports wildcard matching" (registry.go:142): exactly those.
FQDNSearchExact ==
  Answered("found") /\ call.tool = "fqdn" =>
    answer.found = FoundAmong(LAMBDA i : Serves(began[i].spec.fqdn, call.host))

\* A service that names no namespace is in that of its proxy.
RoutesTo(i, b) ==
  LET spec  == began[i].spec
      at(s) == IF s.ns = "" THEN i.ns ELSE s.ns
  IN  \/ \E s \in spec.services : s.name = b.name /\ b.ns \in {"", at(s)}
      \/ spec.tcp = b.name /\ b.ns \in {"", i.ns}

\* search_httpproxy_by_backend leaves out no proxy that routes to the service.
BackendSearchComplete ==
  Answered("found") /\ call.tool = "backend" =>
    FoundAmong(LAMBDA i : RoutesTo(i, call.service)) \subseteq answer.found

\* "All HTTPProxies have Valid status" (registry.go:728), which is answered
\* when none was found.
NoneInvalidMeansAllValid ==
  Answered("found") /\ call.tool = "invalid" /\ answer.found = {} =>
    \A i \in Proxies : began[i] # Absent => began[i].status = "Valid"

\* "Get the full HTTPProxy tree including the root proxy and all included
\* (child) proxies" (registry.go:127): what a leaf includes is in it too.
TreeIsFull ==
  Answered("tree") =>
    \A k \in DOMAIN answer.leaves :
      LET leaf == answer.leaves[k]
      IN  leaf.seen \in Version =>
            \A inc \in ToSet(leaf.seen.spec.includes) :
              inc.name # "" =>
                \E n \in DOMAIN answer.leaves \cup {0} :
                  [name |-> inc.name, ns |-> IF inc.ns = "" THEN leaf.id.ns ELSE inc.ns]
                    = IF n = 0 THEN call.id ELSE answer.leaves[n].id
==============================================================================
