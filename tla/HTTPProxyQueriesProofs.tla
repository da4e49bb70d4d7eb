------------------------ MODULE HTTPProxyQueriesProofs ------------------------
(***************************************************************************)
(* Proofs about HTTPProxyQueries for any proxies, specs and searches.      *)
(***************************************************************************)
EXTENDS HTTPProxyQueries, SequenceTheorems, TLAPS

------------------------------------------------------------------------------
(* matchFQDN finds exactly the patterns that serve a name.                 *)

\* A suffix, place by place.
LEMMA SuffixByPlace ==
  ASSUME NEW S, NEW s \in Seq(S), NEW t \in Seq(S)
  PROVE  IsSuffix(s, t) <=>
           /\ Len(s) <= Len(t)
           /\ \A j \in 1..Len(s) : s[j] = t[Len(t) - Len(s) + j]
<1> DEFINE r == Reverse(s)  u == Reverse(t)
<1>1. /\ r \in Seq(S) /\ Len(r) = Len(s)
      /\ \A i \in 1..Len(s) : r[i] = s[Len(s) - i + 1]
  BY DEF Reverse
<1>2. /\ u \in Seq(S) /\ Len(u) = Len(t)
      /\ \A i \in 1..Len(t) : u[i] = t[Len(t) - i + 1]
  BY DEF Reverse
<1>3. IsPrefix(r, u) <=> Len(r) <= Len(u) /\ \A i \in 1..Len(r) : r[i] = u[i]
  <2> HIDE DEF r, u
  <2>1. CASE Len(r) <= Len(u)
    <3>1. /\ SubSeq(r, 1, Len(r)) \in Seq(S) /\ SubSeq(u, 1, Len(r)) \in Seq(S)
          /\ Len(SubSeq(r, 1, Len(r))) = Len(r) /\ Len(SubSeq(u, 1, Len(r))) = Len(r)
          /\ \A i \in 1..Len(r) : /\ SubSeq(r, 1, Len(r))[i] = r[i]
                                  /\ SubSeq(u, 1, Len(r))[i] = u[i]
      BY <1>1, <1>2, <2>1, SubSeqProperties
    <3> QED
      BY <2>1, <3>1, SeqEqual DEF IsPrefix
  <2>2. CASE ~(Len(r) <= Len(u))
    BY <2>2 DEF IsPrefix
  <2> QED
    BY <2>1, <2>2
<1> QED
  <2> HIDE DEF r, u
  <2>1. IsSuffix(s, t) <=> IsPrefix(r, u)
    BY DEF IsSuffix, r, u
  <2>2. ASSUME Len(s) <= Len(t), \A i \in 1..Len(r) : r[i] = u[i], NEW j \in 1..Len(s)
        PROVE  s[j] = t[Len(t) - Len(s) + j]
    <3> DEFINE i == Len(s) - j + 1
    <3>1. i \in 1..Len(s) /\ i \in 1..Len(t) /\ Len(s) - i + 1 = j
          /\ Len(t) - i + 1 = Len(t) - Len(s) + j
      BY <2>2
    <3> QED
      BY <1>1, <1>2, <2>2, <3>1
  <2>3. ASSUME Len(s) <= Len(t), NEW i \in 1..Len(r),
               \A j \in 1..Len(s) : s[j] = t[Len(t) - Len(s) + j]
        PROVE  r[i] = u[i]
    <3> DEFINE j == Len(s) - i + 1
    <3>1. j \in 1..Len(s) /\ i \in 1..Len(s) /\ i \in 1..Len(t)
          /\ Len(t) - Len(s) + j = Len(t) - i + 1
      BY <1>1, <2>3
    <3> QED
      BY <1>1, <1>2, <2>3, <3>1
  <2> QED
    BY <1>1, <1>2, <1>3, <2>1, <2>2, <2>3

Lowered == {Lower[l] : l \in STRING}

\* Folding a name, label by label.
LEMMA FoldedByPlace ==
  ASSUME NEW h \in Seq(STRING)
  PROVE  /\ Folded(h) \in Seq(Lowered) /\ Len(Folded(h)) = Len(h)
         /\ \A k \in 1..Len(h) : Folded(h)[k] = Lower[h[k]]
<1>1. DOMAIN h = 1..Len(h) /\ Len(h) \in Nat /\ \A k \in 1..Len(h) : h[k] \in STRING
  BY LenProperties, ElementOfSeq
<1>a. \A k \in 1..Len(h) : Lower[h[k]] \in Lowered
  BY <1>1 DEF Lowered
<1>2. Folded(h) = [k \in 1..Len(h) |-> Lower[h[k]]]
  BY <1>1 DEF Folded
<1> QED
  BY <1>1, <1>a, <1>2

\* Two names that fold to the same.
LEMMA SameFolded ==
  ASSUME NEW g \in Seq(STRING), NEW h \in Seq(STRING)
  PROVE  Folded(g) = Folded(h) <=>
           Len(g) = Len(h) /\ \A k \in 1..Len(g) : Lower[g[k]] = Lower[h[k]]
<1>1. ASSUME Folded(g) = Folded(h)
      PROVE  Len(g) = Len(h) /\ \A k \in 1..Len(g) : Lower[g[k]] = Lower[h[k]]
  BY <1>1, FoldedByPlace
<1>2. ASSUME Len(g) = Len(h), \A k \in 1..Len(g) : Lower[g[k]] = Lower[h[k]]
      PROVE  Folded(g) = Folded(h)
  <2>1. /\ Folded(g) \in Seq(Lowered) /\ Folded(h) \in Seq(Lowered)
        /\ Len(Folded(g)) = Len(Folded(h))
        /\ \A k \in 1..Len(Folded(g)) : Folded(g)[k] = Folded(h)[k]
    BY <1>2, FoldedByPlace
  <2> QED
    BY <2>1, SeqEqual
<1> QED
  BY <1>1, <1>2

\* One that ends as another does.
LEMMA FoldedSuffix ==
  ASSUME NEW q \in Seq(STRING), NEW h \in Seq(STRING)
  PROVE  IsSuffix(Folded(q), Folded(h)) <=>
           /\ Len(q) <= Len(h)
           /\ \A j \in 1..Len(q) : Lower[q[j]] = Lower[h[Len(h) - Len(q) + j]]
<1>2. /\ Folded(q) \in Seq(Lowered) /\ Len(Folded(q)) = Len(q)
      /\ \A k \in 1..Len(q) : Folded(q)[k] = Lower[q[k]]
  BY FoldedByPlace
<1>3. /\ Folded(h) \in Seq(Lowered) /\ Len(Folded(h)) = Len(h)
      /\ \A k \in 1..Len(h) : Folded(h)[k] = Lower[h[k]]
  BY FoldedByPlace
<1>4. IsSuffix(Folded(q), Folded(h)) <=>
        /\ Len(q) <= Len(h)
        /\ \A j \in 1..Len(q) : Folded(q)[j] = Folded(h)[Len(h) - Len(q) + j]
  <2> DEFINE s == Folded(q)  t == Folded(h)
  <2>1. s \in Seq(Lowered) /\ t \in Seq(Lowered) /\ Len(s) = Len(q) /\ Len(t) = Len(h)
    BY <1>2, <1>3
  <2> HIDE DEF s, t
  <2>2. IsSuffix(s, t) <=> /\ Len(s) <= Len(t)
                           /\ \A j \in 1..Len(s) : s[j] = t[Len(t) - Len(s) + j]
    BY <2>1, SuffixByPlace
  <2> QED
    BY <2>1, <2>2 DEF s, t
<1>5. Len(q) <= Len(h) => \A j \in 1..Len(q) : Len(h) - Len(q) + j \in 1..Len(h)
  OBVIOUS
<1> QED
  BY <1>2, <1>3, <1>4, <1>5

\* One in which n labels of another stand before its own.
LEMMA FoldedConcat ==
  ASSUME NEW q \in Seq(STRING), NEW h \in Seq(STRING), NEW n \in 1..Len(h)
  PROVE  Folded(SubSeq(h, 1, n) \o q) = Folded(h) <=>
           /\ n + Len(q) = Len(h)
           /\ \A j \in 1..Len(q) : Lower[q[j]] = Lower[h[n + j]]
<1>1. PICK a \in Seq(STRING) :
        a = SubSeq(h, 1, n) /\ Len(a) = n /\ \A k \in 1..n : a[k] = h[k]
  <2>1. \A i \in 1..n : h[i] \in STRING
    BY ElementOfSeq
  <2>2. /\ SubSeq(h, 1, n) \in Seq(STRING)
        /\ Len(SubSeq(h, 1, n)) = IF 1 <= n THEN n - 1 + 1 ELSE 0
        /\ \A i \in 1..(n - 1 + 1) : SubSeq(h, 1, n)[i] = h[1 + i - 1]
    BY <2>1, SubSeqProperties
  <2>3. n - 1 + 1 = n /\ 1 <= n /\ \A i \in 1..n : 1 + i - 1 = i
    OBVIOUS
  <2> QED
    BY <2>2, <2>3
<1>2. PICK g \in Seq(STRING) :
        /\ g = a \o q /\ Len(g) = n + Len(q)
        /\ \A k \in 1..(n + Len(q)) : g[k] = IF k <= n THEN h[k] ELSE q[k - n]
  <2>1. /\ a \o q \in Seq(STRING) /\ Len(a \o q) = n + Len(q)
        /\ \A k \in 1..(n + Len(q)) : (a \o q)[k] = IF k <= n THEN a[k] ELSE q[k - n]
    BY <1>1, ConcatProperties
  <2>2. \A k \in 1..(n + Len(q)) : k <= n => a[k] = h[k]
    BY <1>1
  <2> QED
    BY <2>1, <2>2
<1>3. Folded(g) = Folded(h) <=>
        /\ n + Len(q) = Len(h)
        /\ \A k \in 1..(n + Len(q)) : Lower[g[k]] = Lower[h[k]]
  <2>1. Folded(g) = Folded(h) <=>
          Len(g) = Len(h) /\ \A k \in 1..Len(g) : Lower[g[k]] = Lower[h[k]]
    BY SameFolded
  <2>2. Len(g) = n + Len(q)
    BY <1>2
  <2> QED
    BY <2>1, <2>2
<1>4. ASSUME \A k \in 1..(n + Len(q)) : Lower[g[k]] = Lower[h[k]], NEW j \in 1..Len(q)
      PROVE  Lower[q[j]] = Lower[h[n + j]]
  <2>1. n + j \in 1..(n + Len(q)) /\ ~(n + j <= n) /\ (n + j) - n = j
    OBVIOUS
  <2> QED
    BY <1>2, <1>4, <2>1
<1>5. ASSUME \A j \in 1..Len(q) : Lower[q[j]] = Lower[h[n + j]],
             NEW k \in 1..(n + Len(q))
      PROVE  Lower[g[k]] = Lower[h[k]]
  <2>1. CASE k <= n
    BY <1>2, <2>1
  <2>2. CASE ~(k <= n)
    <3>1. k - n \in 1..Len(q) /\ n + (k - n) = k
      BY <2>2
    <3> QED
      BY <1>2, <1>5, <2>2, <3>1
  <2> QED
    BY <2>1, <2>2
<1> QED
  BY <1>1, <1>2, <1>3, <1>4, <1>5

\* matchFQDN, written with the suffix that begins at a dot, is the meaning of a
\* wildcard: one label or more in place of the "*".
LEMMA MatchIsServes ==
  ASSUME NEW p \in Seq(STRING), NEW h \in Seq(STRING)
  PROVE  matchFQDN(p, h) <=> Serves(p, h)
<1>1. CASE ~(Len(p) > 1 /\ p[1] = "*")
  BY <1>1 DEF matchFQDN, Serves
<1>2. CASE Len(p) > 1 /\ p[1] = "*"
  <2> DEFINE q == Tail(p)  m == Len(q)
             Ends(n) == n + m = Len(h) /\ \A j \in 1..m : Lower[q[j]] = Lower[h[n + j]]
  <2>1. /\ q \in Seq(STRING) /\ m \in Nat /\ m = Len(p) - 1
        /\ \A j \in 1..m : q[j] = p[j + 1]
        /\ p # <<>> /\ Len(h) \in Nat
    BY <1>2, HeadTailProperties
  <2>2. matchFQDN(p, h) <=> Len(h) >= Len(p) /\ Ends(Len(h) - m)
    <3>1. matchFQDN(p, h) <=> Len(h) >= Len(p) /\ IsSuffix(Folded(q), Folded(h))
      BY <1>2, <2>1 DEF matchFQDN
    <3>2. IsSuffix(Folded(q), Folded(h)) <=>
            m <= Len(h) /\ \A j \in 1..m : Lower[q[j]] = Lower[h[Len(h) - m + j]]
      BY <2>1, FoldedSuffix
    <3> HIDE DEF q
    <3> QED
      BY <2>1, <3>1, <3>2
  <2>3. ASSUME NEW n \in 1..Len(h)
        PROVE  Folded(SubSeq(h, 1, n) \o q) = Folded(h) <=> Ends(n)
    BY <2>1, FoldedConcat
  <2>4. Folded(p) = Folded(h) => Len(h) >= Len(p) /\ Ends(Len(h) - m)
    <3> SUFFICES ASSUME Folded(p) = Folded(h)
                 PROVE  Len(h) >= Len(p) /\ Ends(Len(h) - m)
      OBVIOUS
    <3>1. Len(p) = Len(h) /\ \A k \in 1..Len(p) : Lower[p[k]] = Lower[h[k]]
      BY SameFolded
    <3> HIDE DEF q
    <3>2. Len(h) - m = 1
      BY <2>1, <3>1
    <3> QED
      BY <2>1, <3>1, <3>2
  <2>5. Serves(p, h) <=> Folded(p) = Folded(h) \/ \E n \in 1..Len(h) : Ends(n)
    BY <1>2, <2>1, <2>3 DEF Serves
  <2>6. \A n \in 1..Len(h) : Ends(n) => n = Len(h) - m /\ Len(h) >= Len(p)
    BY <2>1
  <2>7. Len(h) >= Len(p) => Len(h) - m \in 1..Len(h)
    BY <2>1
  <2> HIDE DEF Ends
  <2> QED
    BY <2>2, <2>4, <2>5, <2>6, <2>7
<1> QED
  BY <1>1, <1>2

------------------------------------------------------------------------------
(* The invariant.                                                          *)

\* In the middle of a call, every proxy is as it has been during the call.
DuringInv == pc # "idle" => \A i \in Proxies : proxies[i] \in during[i]

\* get_httpproxy_status between its two Gets.
ConditionsInv ==
  pc = "conditions" =>
    /\ call \in [tool : {"status"}, id : Proxies]
    /\ answer.kind = "status" /\ answer.conditions = ""
    /\ began[call.id] # Absent /\ answer.status = began[call.id].status

\* get_httpproxy_tree between two leaves: the includes read so far are shown,
\* and the others are still to be read.
LeavesInv ==
  pc = "leaves" =>
    LET includes == answer.root.spec.includes
    IN  /\ call \in [tool : {"tree"}, id : Proxies]
        /\ answer.kind = "tree" /\ answer.root = began[call.id]
        /\ \E n \in 0..Len(includes) : /\ todo = SubSeq(includes, n + 1, Len(includes))
                                       /\ ShowsIncludes(n)

IInv ==
  /\ TypeOK /\ DuringInv /\ ConditionsInv /\ LeavesInv
  /\ StatusOfThisCall /\ TreeShowsIncludes /\ FQDNSearchExact /\ BackendSearchComplete

\* What is left of it when a call of one request is over.
LEMMA OneRequestOver ==
  ASSUME IInv, UNCHANGED <<proxies, changes, pc>>, pc = "idle", todo' = <<>>,
         began' = proxies, during' = [i \in Proxies |-> {proxies[i]}],
         call' \in Queries \cup [tool : {"incomplete"}],
         \/ answer' = Failed
         \/ answer' \in [kind : {"proxy"}, proxy : Version]
         \/ /\ answer' \in [kind : {"found"}, found : SUBSET (Proxies \cup Others)]
            /\ FQDNSearchExact' /\ BackendSearchComplete'
  PROVE  IInv'
<1>1. TypeOK'
  BY DEF IInv, TypeOK
<1>2. answer'.kind \in {"failed", "proxy", "found"}
  BY DEF Failed
<1>3. DuringInv' /\ ConditionsInv' /\ LeavesInv'
  BY DEF DuringInv, ConditionsInv, LeavesInv
<1>4. StatusOfThisCall' /\ TreeShowsIncludes'
  BY <1>2 DEF StatusOfThisCall, TreeShowsIncludes, Answered
<1>5. answer'.kind # "found" \/ (FQDNSearchExact' /\ BackendSearchComplete')
  BY DEF Failed
<1>6. FQDNSearchExact' /\ BackendSearchComplete'
  BY <1>5 DEF FQDNSearchExact, BackendSearchComplete, Answered
<1> QED
  BY <1>1, <1>3, <1>4, <1>6 DEF IInv

LEMMA OneRequestInv == ASSUME IInv, OneRequest PROVE IInv'
<1> USE DEF Begin, Return
<1>1. ASSUME NEW i \in Proxies, GetProxy(i) PROVE IInv'
  <2>1. answer' = Failed \/ answer' \in [kind : {"proxy"}, proxy : Version]
    BY <1>1 DEF GetProxy, Get, IInv, TypeOK
  <2>2. call' \in Queries
    BY <1>1 DEF GetProxy, Queries, ByProxy
  <2> QED
    BY <1>1, <2>1, <2>2, OneRequestOver DEF GetProxy
<1>2. ASSUME NEW ns \in Namespaces, ListHTTPProxies(ns) PROVE IInv'
  <2>1. call' = [tool |-> "list", ns |-> ns] /\ call' \in Queries /\ call'.tool = "list"
    BY <1>2 DEF ListHTTPProxies, List, Queries
  <2>2. answer' \in [kind : {"found"}, found : SUBSET (Proxies \cup Others)]
    BY <1>2 DEF ListHTTPProxies, List, Existing
  <2> QED
    BY <1>2, <2>1, <2>2, OneRequestOver
    DEF ListHTTPProxies, List, FQDNSearchExact, BackendSearchComplete
<1>3. ASSUME NEW ns \in Namespaces, ListTLSCertDelegations(ns) PROVE IInv'
  <2>1. /\ call' = [tool |-> "delegations", ns |-> ns] /\ call' \in Queries
        /\ call'.tool = "delegations"
    BY <1>3 DEF ListTLSCertDelegations, List, Queries
  <2>2. answer' \in [kind : {"found"}, found : SUBSET (Proxies \cup Others)]
    BY <1>3 DEF ListTLSCertDelegations, List
  <2> QED
    BY <1>3, <2>1, <2>2, OneRequestOver
    DEF ListTLSCertDelegations, List, FQDNSearchExact, BackendSearchComplete
<1>4. ASSUME NEW ns \in Namespaces, ListExtensionServices(ns) PROVE IInv'
  <2>1. /\ call' = [tool |-> "extensions", ns |-> ns] /\ call' \in Queries
        /\ call'.tool = "extensions"
    BY <1>4 DEF ListExtensionServices, List, Queries
  <2>2. answer' \in [kind : {"found"}, found : SUBSET (Proxies \cup Others)]
    BY <1>4 DEF ListExtensionServices, List
  <2> QED
    BY <1>4, <2>1, <2>2, OneRequestOver
    DEF ListExtensionServices, List, FQDNSearchExact, BackendSearchComplete
<1>5. ASSUME NEW h \in Hosts, SearchByFQDN(h) PROVE IInv'
  <2>1. call' = [tool |-> "fqdn", host |-> h] /\ call' \in Queries /\ call'.tool = "fqdn"
    BY <1>5 DEF SearchByFQDN, List, Queries
  <2>2. /\ answer' \in [kind : {"found"}, found : SUBSET (Proxies \cup Others)]
        /\ answer'.found = {i \in Existing : matchFQDN(proxies[i].spec.fqdn, h)}
    BY <1>5 DEF SearchByFQDN, List, Existing
  <2>3. \A i \in Existing : matchFQDN(proxies[i].spec.fqdn, h) <=> Serves(proxies[i].spec.fqdn, h)
    <3> SUFFICES ASSUME NEW i \in Existing
                 PROVE matchFQDN(proxies[i].spec.fqdn, h) <=> Serves(proxies[i].spec.fqdn, h)
      OBVIOUS
    <3>1. proxies[i].spec.fqdn \in Seq(STRING) /\ h \in Seq(STRING)
      BY ConstantsAssumption DEF IInv, TypeOK, Existing, Version
    <3> QED
      BY <3>1, MatchIsServes
  <2>4. began' = proxies
    BY <1>5 DEF SearchByFQDN, List
  <2>5. FQDNSearchExact'
    BY <2>1, <2>2, <2>3, <2>4 DEF FQDNSearchExact, FoundAmong, Existing
  <2>6. BackendSearchComplete'
    BY <2>1 DEF BackendSearchComplete
  <2> QED
    BY <1>5, <2>1, <2>2, <2>5, <2>6, OneRequestOver DEF SearchByFQDN, List
<1>6. ASSUME NEW b \in Backends, SearchByBackend(b) PROVE IInv'
  <2>1. /\ call' = [tool |-> "backend", service |-> b] /\ call' \in Queries
        /\ call'.tool = "backend"
    BY <1>6 DEF SearchByBackend, List, Queries
  <2>2. /\ answer' \in [kind : {"found"}, found : SUBSET (Proxies \cup Others)]
        /\ answer'.found = {i \in Existing : proxyHasBackend(proxies[i].spec, b)}
    BY <1>6 DEF SearchByBackend, List, Existing
  <2>3. began' = proxies
    BY <1>6 DEF SearchByBackend, List
  <2>4. \A i \in Proxies : RoutesTo(i, b)' => proxyHasBackend(proxies[i].spec, b)
    BY <2>3 DEF RoutesTo, proxyHasBackend
  <2>5. BackendSearchComplete'
    BY <2>1, <2>2, <2>3, <2>4 DEF BackendSearchComplete, FoundAmong, Existing
  <2>6. FQDNSearchExact'
    BY <2>1 DEF FQDNSearchExact
  <2> QED
    BY <1>6, <2>1, <2>2, <2>5, <2>6, OneRequestOver DEF SearchByBackend, List
<1>7. CASE ListInvalidProxies
  <2>1. call' = [tool |-> "invalid"] /\ call' \in Queries /\ call'.tool = "invalid"
    BY <1>7 DEF ListInvalidProxies, List, Queries
  <2>2. answer' \in [kind : {"found"}, found : SUBSET (Proxies \cup Others)]
    BY <1>7 DEF ListInvalidProxies, List, Existing
  <2> QED
    BY <1>7, <2>1, <2>2, OneRequestOver
    DEF ListInvalidProxies, List, FQDNSearchExact, BackendSearchComplete
<1> QED
  BY <1>1, <1>2, <1>3, <1>4, <1>5, <1>6, <1>7 DEF OneRequest

\* A call that ends with an error, at once.
LEMMA FailedInv ==
  ASSUME IInv, Incomplete \/ \E q \in Queries : FirstRequestFails(q) PROVE IInv'
<1>1. call' \in Queries \cup [tool : {"incomplete"}]
  BY DEF Incomplete, FirstRequestFails, Begin
<1> QED
  BY <1>1, OneRequestOver DEF Incomplete, FirstRequestFails, Begin, Return

\* The searches are over and done with while another call is running.
LEMMA NotFound ==
  ASSUME answer'.kind # "found" \/ pc' # "idle" PROVE FQDNSearchExact' /\ BackendSearchComplete'
BY DEF FQDNSearchExact, BackendSearchComplete, Answered

\* The kind of an answer says what else it has.
LEMMA KindTells ==
  ASSUME TypeOK
  PROVE  /\ answer.kind = "status" =>
              answer \in [kind : {"status"}, status : Statuses, conditions : Statuses]
         /\ answer.kind = "tree" =>
              answer \in [kind : {"tree"}, root : Version, leaves : Seq(Leaf)]
<1>1. \/ answer.kind = "failed"
      \/ answer.kind = "proxy"
      \/ answer.kind = "found"
      \/ answer \in [kind : {"status"}, status : Statuses, conditions : Statuses]
      \/ answer \in [kind : {"tree"}, root : Version, leaves : Seq(Leaf)]
  BY DEF TypeOK, Failed
<1>2. /\ answer \in [kind : {"status"}, status : Statuses, conditions : Statuses] =>
           answer.kind = "status"
      /\ answer \in [kind : {"tree"}, root : Version, leaves : Seq(Leaf)] =>
           answer.kind = "tree"
  OBVIOUS
<1> QED
  BY <1>1, <1>2

LEMMA StatusInv == ASSUME IInv, Status PROVE IInv'
<1>1. ASSUME NEW i \in Proxies, GetStatus(i) PROVE IInv'
  <2>1. call' = [tool |-> "status", id |-> i] /\ call' \in Queries
    BY <1>1 DEF GetStatus, Begin, Queries, ByProxy
  <2>2. CASE Get(i) = Absent
    BY <1>1, <2>1, <2>2, OneRequestOver DEF GetStatus, Begin, Return
  <2>3. CASE Get(i) # Absent
    <3>1. proxies[i] \in Version /\ Get(i) = proxies[i]
      BY <2>3 DEF IInv, TypeOK, Get
    <3>2. /\ answer' = [kind |-> "status", status |-> proxies[i].status, conditions |-> ""]
          /\ pc' = "conditions" /\ todo' = <<>>
          /\ began' = proxies /\ during' = [j \in Proxies |-> {proxies[j]}]
          /\ UNCHANGED <<proxies, changes>>
      BY <1>1, <2>3, <3>1 DEF GetStatus, Begin
    <3>3. TypeOK'
      <4>1. answer' \in [kind : {"status"}, status : Statuses, conditions : Statuses]
        BY <3>1, <3>2, ConstantsAssumption DEF Version
      <4>2. during' \in [Proxies -> SUBSET (Version \cup {Absent})]
        <5>1. \A j \in Proxies : {proxies[j]} \in SUBSET (Version \cup {Absent})
          BY DEF IInv, TypeOK
        <5> QED
          BY <3>2, <5>1
      <4>3. /\ proxies' \in [Proxies -> Version \cup {Absent}] /\ changes' \in 0..MaxChanges
            /\ began' \in [Proxies -> Version \cup {Absent}]
            /\ pc' \in {"idle", "conditions", "leaves"}
        BY <3>2 DEF IInv, TypeOK
      <4>4. todo' \in Seq(Ref)
        BY <3>2, EmptySeq
      <4> QED
        BY <2>1, <4>1, <4>2, <4>3, <4>4 DEF TypeOK
    <3>4. DuringInv' /\ LeavesInv'
      BY <3>2 DEF DuringInv, LeavesInv
    <3>5. ConditionsInv'
      BY <2>1, <2>3, <3>1, <3>2 DEF ConditionsInv
    <3>6. StatusOfThisCall' /\ TreeShowsIncludes'
      BY <3>2 DEF StatusOfThisCall, TreeShowsIncludes, Answered
    <3> QED
      BY <3>2, <3>3, <3>4, <3>5, <3>6, NotFound DEF IInv
  <2> QED
    BY <2>2, <2>3
<1>2. CASE GetConditions \/ GetConditionsFails
  <2>1. /\ pc = "conditions" /\ pc' = "idle"
        /\ UNCHANGED <<proxies, changes, began, during, call, todo>>
    BY <1>2 DEF GetConditions, GetConditionsFails
  <2>2. /\ call \in [tool : {"status"}, id : Proxies]
        /\ answer.kind = "status" /\ answer.conditions = ""
        /\ began[call.id] # Absent /\ answer.status = began[call.id].status
        /\ proxies[call.id] \in during[call.id]
    BY <2>1 DEF IInv, ConditionsInv, DuringInv
  <2>3. answer \in [kind : {"status"}, status : Statuses, conditions : Statuses]
    BY <2>2, KindTells DEF IInv
  <2>4. PICK c \in {v.status : v \in during[call.id] \ {Absent}} \cup {""} :
          answer' = [answer EXCEPT !.conditions = c] /\ c \in Statuses
    <3>1. CASE GetConditions
      <4>1. CASE Get(call.id) = Absent
        BY <3>1, <4>1, ConstantsAssumption DEF GetConditions
      <4>2. CASE Get(call.id) # Absent
        <5>1. Get(call.id) = proxies[call.id] /\ proxies[call.id] \in Version
          BY <2>2, <4>2 DEF IInv, TypeOK, Get
        <5>2. answer' = [answer EXCEPT !.conditions = proxies[call.id].status]
          BY <3>1, <4>2, <5>1 DEF GetConditions
        <5> QED
          BY <2>2, <4>2, <5>1, <5>2 DEF Version
      <4> QED
        BY <4>1, <4>2
    <3>2. CASE GetConditionsFails
      <4>1. answer' = [answer EXCEPT !.conditions = ""]
        BY <2>2, <2>3, <3>2 DEF GetConditionsFails
      <4> QED
        BY <4>1, ConstantsAssumption
    <3> QED
      BY <1>2, <3>1, <3>2
  <2>5. /\ answer' \in [kind : {"status"}, status : Statuses, conditions : Statuses]
        /\ answer'.status = answer.status /\ answer'.conditions = c
        /\ answer'.kind = "status"
    BY <2>3, <2>4
  <2>6. TypeOK'
    BY <2>1, <2>5 DEF IInv, TypeOK
  <2>7. DuringInv' /\ ConditionsInv' /\ LeavesInv'
    BY <2>1 DEF DuringInv, ConditionsInv, LeavesInv
  <2>8. StatusOfThisCall' /\ TreeShowsIncludes'
    BY <2>1, <2>2, <2>4, <2>5 DEF StatusOfThisCall, TreeShowsIncludes, Answered
  <2> QED
    BY <2>5, <2>6, <2>7, <2>8, NotFound DEF IInv
<1> QED
  BY <1>1, <1>2 DEF Status

------------------------------------------------------------------------------
(* The tree.                                                               *)

\* A leaf stays right while proxies change.
LEMMA LeafStays ==
  ASSUME NEW leaf, NEW inc, LeafOf(leaf, inc), call' = call,
         \A i \in Proxies : during[i] \subseteq during'[i]
  PROVE  LeafOf(leaf, inc)'
BY DEF LeafOf

LEMMA ShownStays ==
  ASSUME NEW n \in Nat, ShowsIncludes(n), UNCHANGED <<answer, call>>,
         \A i \in Proxies : during[i] \subseteq during'[i]
  PROVE  ShowsIncludes(n)'
<1> DEFINE includes == answer.root.spec.includes
           named    == Named(includes, n)
<1>1. PICK at \in [1..Len(answer.leaves) -> named] :
        /\ InOrder(at, named)
        /\ \A k \in DOMAIN at : LeafOf(answer.leaves[k], includes[at[k]])
  BY DEF ShowsIncludes
<1>2. \A k \in DOMAIN at : LeafOf(answer.leaves[k], includes[at[k]])'
  BY <1>1, LeafStays
<1> QED
  BY <1>1, <1>2 DEF ShowsIncludes

LEMMA UpToNext == ASSUME NEW n \in Nat PROVE 1..(n + 1) = 1..n \cup {n + 1}
OBVIOUS

LEMMA NamedNext ==
  ASSUME NEW includes, NEW n \in Nat, NEW inc, inc = includes[n + 1]
  PROVE  Named(includes, n + 1) = IF inc.name = "" THEN Named(includes, n)
                                  ELSE Named(includes, n) \cup {n + 1}
BY UpToNext DEF Named

\* The call has passed over an include without a name.
LEMMA ShownPassedOver ==
  ASSUME NEW n \in Nat, ShowsIncludes(n), UNCHANGED <<answer, call, during>>,
         Named(answer.root.spec.includes, n + 1) = Named(answer.root.spec.includes, n)
  PROVE  ShowsIncludes(n + 1)'
<1>1. ShowsIncludes(n)'
  BY ShownStays
<1> QED
  BY <1>1 DEF ShowsIncludes

\* An increasing enumeration of some numbers up to n, with n + 1 at its end.
LEMMA OneMore ==
  ASSUME NEW n \in Nat, NEW len \in Nat, NEW S \in SUBSET (1..n),
         NEW at \in [1..len -> S], InOrder(at, S)
  PROVE  \E new \in [1..(len + 1) -> S \cup {n + 1}] :
           /\ InOrder(new, S \cup {n + 1})
           /\ new[len + 1] = n + 1 /\ \A k \in 1..len : new[k] = at[k]
<1> DEFINE new == [k \in 1..(len + 1) |-> IF k = len + 1 THEN n + 1 ELSE at[k]]
<1>1. 1..(len + 1) = 1..len \cup {len + 1} /\ \A k \in 1..len : k # len + 1 /\ k < len + 1
  BY UpToNext
<1>2. new[len + 1] = n + 1 /\ \A k \in 1..len : new[k] = at[k]
  BY <1>1
<1>3. DOMAIN new = 1..(len + 1) /\ DOMAIN at = 1..len
  OBVIOUS
<1> HIDE DEF new
<1>4. ASSUME NEW k \in 1..len PROVE at[k] \in S /\ at[k] \in Nat /\ at[k] < n + 1
  <2>1. at[k] \in S
    OBVIOUS
  <2>2. at[k] \in 1..n
    BY <2>1
  <2> QED
    BY <2>1, <2>2
<1>5. new \in [1..(len + 1) -> S \cup {n + 1}]
  BY <1>1, <1>4 DEF new
<1>6. ASSUME NEW k \in DOMAIN new, NEW l \in DOMAIN new, k < l PROVE new[k] < new[l]
  <2>1. k \in 1..len /\ (l \in 1..len \/ l = len + 1)
    BY <1>3, <1>6
  <2> QED
    BY <1>2, <1>3, <1>4, <1>6, <2>1 DEF InOrder
<1>7. ASSUME NEW m \in S \cup {n + 1} PROVE \E k \in DOMAIN new : new[k] = m
  <2>1. CASE m \in S
    <3>1. PICK k \in 1..len : at[k] = m
      BY <1>3, <2>1 DEF InOrder
    <3>2. k \in DOMAIN new /\ new[k] = m
      BY <1>1, <1>2, <1>3, <3>1
    <3> QED
      BY <3>2
  <2>2. CASE m = n + 1
    <3>1. len + 1 \in DOMAIN new
      BY <1>1, <1>3
    <3> QED
      BY <1>2, <2>2, <3>1
  <2> QED
    BY <2>1, <2>2
<1> QED
  BY <1>2, <1>5, <1>6, <1>7 DEF InOrder

\* The call has added the leaf of an include.
LEMMA ShownWithLeaf ==
  ASSUME NEW n \in Nat, ShowsIncludes(n), UNCHANGED <<call, during>>,
         Named(answer.root.spec.includes, n + 1)
           = Named(answer.root.spec.includes, n) \cup {n + 1},
         NEW leaf \in Leaf, LeafOf(leaf, answer.root.spec.includes[n + 1]),
         NEW leaves \in Seq(Leaf), answer.leaves = leaves,
         answer'.root = answer.root, answer'.leaves = Append(leaves, leaf)
  PROVE  ShowsIncludes(n + 1)'
<1> DEFINE includes == answer.root.spec.includes
<1>1. PICK len \in Nat : len = Len(leaves)
  BY LenProperties
<1>2. /\ Len(answer'.leaves) = len + 1
      /\ \A k \in 1..len : answer'.leaves[k] = leaves[k]
      /\ answer'.leaves[len + 1] = leaf
  BY <1>1, AppendProperties
<1>3. PICK S \in SUBSET (1..n) : S = Named(includes, n)
  BY DEF Named
<1>4. PICK at \in [1..len -> S] :
        InOrder(at, S) /\ \A k \in DOMAIN at : LeafOf(leaves[k], includes[at[k]])
  BY <1>1, <1>3 DEF ShowsIncludes
<1>6. PICK new \in [1..(len + 1) -> S \cup {n + 1}] :
        /\ InOrder(new, S \cup {n + 1})
        /\ new[len + 1] = n + 1 /\ \A k \in 1..len : new[k] = at[k]
  BY <1>4, OneMore
<1>7. ASSUME NEW k \in DOMAIN new PROVE LeafOf(answer'.leaves[k], includes[new[k]])
  <2>1. k \in 1..len \/ k = len + 1
    BY <1>6
  <2>2. DOMAIN at = 1..len
    BY <1>4
  <2> QED
    BY <1>2, <1>4, <1>6, <2>1, <2>2
<1>8. \A k \in DOMAIN new : LeafOf(answer.leaves[k], includes[new[k]])'
  BY <1>7 DEF LeafOf
<1>9. S \cup {n + 1} = Named(includes, n + 1) /\ includes' = includes
  BY <1>3
<1> QED
  BY <1>2, <1>6, <1>8, <1>9 DEF ShowsIncludes

\* No include has been read yet.
LEMMA ShowsNothing ==
  ASSUME answer'.leaves = <<>> PROVE ShowsIncludes(0)'
<1>1. Named(answer.root.spec.includes, 0)' = {} /\ 1..0 = {}
  BY DEF Named
<1>2. PICK at : at \in [1..0 -> {}] /\ DOMAIN at = {}
  <2>1. <<>> \in [1..0 -> {}] /\ DOMAIN <<>> = {}
    OBVIOUS
  <2> QED
    BY <2>1
<1>3. InOrder(at, {})
  BY <1>2 DEF InOrder
<1>4. Len(answer.leaves)' = 0
  OBVIOUS
<1> QED
  BY <1>1, <1>2, <1>3, <1>4 DEF ShowsIncludes

\* The next include to be read.
LEMMA NextInclude ==
  ASSUME NEW includes \in Seq(Ref), NEW n \in 0..Len(includes),
         NEW rest, rest = SubSeq(includes, n + 1, Len(includes)), rest # <<>>
  PROVE  /\ n + 1 \in 1..Len(includes) /\ Head(rest) = includes[n + 1]
         /\ Tail(rest) = SubSeq(includes, (n + 1) + 1, Len(includes))
<1>1. n + 1 \in 1..Len(includes)
  BY SubSeqEmpty
<1> QED
  BY <1>1, HeadTailOfSubSeq

\* A step of the loop: what is known of the call, and what is left to prove.
LEMMA LoopStep ==
  ASSUME IInv, pc = "leaves", UNCHANGED <<proxies, changes, began, during, call, pc>>,
         answer' \in [kind : {"tree"}, root : Version, leaves : Seq(Leaf)],
         answer'.root = answer.root, todo' \in Seq(Ref),
         LeavesInv'
  PROVE  IInv'
<1>1. TypeOK'
  BY DEF IInv, TypeOK
<1>2. DuringInv' /\ ConditionsInv' /\ StatusOfThisCall' /\ TreeShowsIncludes'
  BY DEF IInv, DuringInv, ConditionsInv, StatusOfThisCall, TreeShowsIncludes, Answered
<1> QED
  BY <1>1, <1>2, NotFound DEF IInv

\* One include further in the loop.
LEMMA OneFurther ==
  ASSUME NEW n, n + 1 \in 1..Len(answer'.root.spec.includes), ShowsIncludes(n + 1)',
         todo' = SubSeq(answer'.root.spec.includes, (n + 1) + 1,
                        Len(answer'.root.spec.includes))
  PROVE  \E k \in 0..Len(answer'.root.spec.includes) :
           /\ todo' = SubSeq(answer'.root.spec.includes, k + 1,
                             Len(answer'.root.spec.includes))
           /\ ShowsIncludes(k)'
<1>1. n + 1 \in 0..Len(answer'.root.spec.includes)
  OBVIOUS
<1> QED
  BY <1>1

LEMMA PassOverInv == ASSUME IInv, PassOver PROVE IInv'
<1> DEFINE includes == answer.root.spec.includes
<1>1. /\ pc = "leaves" /\ todo # <<>> /\ Head(todo).name = "" /\ todo' = Tail(todo)
      /\ UNCHANGED <<proxies, changes, began, during, call, pc, answer>>
  BY DEF PassOver
<1>2. /\ call \in [tool : {"tree"}, id : Proxies]
      /\ answer.kind = "tree" /\ answer.root = began[call.id]
  BY <1>1 DEF IInv, LeavesInv
<1>3. PICK n \in 0..Len(includes) :
        todo = SubSeq(includes, n + 1, Len(includes)) /\ ShowsIncludes(n)
  BY <1>1 DEF IInv, LeavesInv
<1>4. /\ answer \in [kind : {"tree"}, root : Version, leaves : Seq(Leaf)]
      /\ todo \in Seq(Ref)
  BY <1>2, KindTells DEF IInv, TypeOK
<1>5. includes \in Seq(Ref) /\ n \in Nat
  <2>1. includes \in Seq(Ref)
    BY <1>4, ConstantsAssumption DEF Version
  <2>2. Len(includes) \in Nat
    BY <2>1, LenProperties
  <2> QED
    BY <2>1, <2>2
<1>6. /\ n + 1 \in 1..Len(includes) /\ Head(todo) = includes[n + 1]
      /\ Tail(todo) = SubSeq(includes, (n + 1) + 1, Len(includes))
  BY <1>1, <1>3, <1>5, NextInclude
<1>7. Named(includes, n + 1) = Named(includes, n)
  <2> HIDE DEF includes
  <2>1. PICK inc : inc = Head(todo)
    OBVIOUS
  <2> QED
    BY <1>1, <1>5, <1>6, <2>1, NamedNext
<1>8. ShowsIncludes(n + 1)'
  BY <1>1, <1>3, <1>5, <1>7, ShownPassedOver
<1>9. LeavesInv'
  BY <1>1, <1>2, <1>6, <1>8, OneFurther DEF LeavesInv
<1>10. Tail(todo) \in Seq(Ref)
  BY <1>1, <1>4, HeadTailProperties
<1> QED
  BY <1>1, <1>4, <1>9, <1>10, LoopStep

\* What a Get of an include shows is a leaf for it.
LEMMA GetIsLeaf ==
  ASSUME IInv, pc = "leaves", NEW inc \in Ref,
         NEW seen, seen \in {Broken, Get(Included(inc))}
  PROVE  /\ [id |-> Included(inc), seen |-> seen] \in Leaf
         /\ LeafOf([id |-> Included(inc), seen |-> seen], inc)
<1>1. call.id \in Proxies
  BY DEF IInv, LeavesInv
<1>2. /\ Included(inc) \in Ref
      /\ Included(inc) = [name |-> inc.name,
                          ns |-> IF inc.ns = "" THEN call.id.ns ELSE inc.ns]
  BY <1>1, ConstantsAssumption DEF Included, Ref
<1>3. /\ Get(Included(inc)) \in Version \cup {Absent}
      /\ IF Included(inc) \in Proxies
           THEN Get(Included(inc)) \in during[Included(inc)]
           ELSE Get(Included(inc)) = Absent
  BY DEF IInv, TypeOK, DuringInv, Get
<1> QED
  BY <1>2, <1>3 DEF Leaf, Seen, LeafOf

LEMMA AddLeafInv ==
  ASSUME IInv, NEW seen, AddLeaf(seen), seen \in {Broken, Get(Included(Head(todo)))}
  PROVE  IInv'
<1> DEFINE includes == answer.root.spec.includes
           leaf == [id |-> Included(Head(todo)), seen |-> seen]
<1>1. /\ pc = "leaves" /\ todo # <<>> /\ Head(todo).name # "" /\ todo' = Tail(todo)
      /\ UNCHANGED <<proxies, changes, began, during, call, pc>>
      /\ answer' = [answer EXCEPT !.leaves = Append(@, leaf)]
  BY DEF AddLeaf
<1>2. /\ call \in [tool : {"tree"}, id : Proxies]
      /\ answer.kind = "tree" /\ answer.root = began[call.id]
  BY <1>1 DEF IInv, LeavesInv
<1>3. PICK n \in 0..Len(includes) :
        todo = SubSeq(includes, n + 1, Len(includes)) /\ ShowsIncludes(n)
  BY <1>1 DEF IInv, LeavesInv
<1>4. /\ answer \in [kind : {"tree"}, root : Version, leaves : Seq(Leaf)]
      /\ todo \in Seq(Ref)
  BY <1>2, KindTells DEF IInv, TypeOK
<1>5. includes \in Seq(Ref) /\ n \in Nat
  <2>1. includes \in Seq(Ref)
    BY <1>4, ConstantsAssumption DEF Version
  <2>2. Len(includes) \in Nat
    BY <2>1, LenProperties
  <2> QED
    BY <2>1, <2>2
<1>6. /\ n + 1 \in 1..Len(includes) /\ Head(todo) = includes[n + 1]
      /\ Tail(todo) = SubSeq(includes, (n + 1) + 1, Len(includes))
  BY <1>1, <1>3, <1>5, NextInclude
<1>7. Head(todo) \in Ref /\ Tail(todo) \in Seq(Ref)
  BY <1>1, <1>4, HeadTailProperties
<1>8. leaf \in Leaf /\ LeafOf(leaf, Head(todo))
  BY <1>1, <1>7, GetIsLeaf
<1> HIDE DEF leaf
<1>9. Named(includes, n + 1) = Named(includes, n) \cup {n + 1}
  <2> HIDE DEF includes
  <2>1. PICK inc : inc = Head(todo)
    OBVIOUS
  <2> QED
    BY <1>1, <1>5, <1>6, <2>1, NamedNext
<1>10. PICK leaves \in Seq(Leaf) :
         answer.leaves = leaves /\ answer'.leaves = Append(leaves, leaf)
  BY <1>1, <1>4
<1>11. /\ answer' \in [kind : {"tree"}, root : Version, leaves : Seq(Leaf)]
       /\ answer'.root = answer.root /\ answer'.kind = "tree"
  <2>1. Append(leaves, leaf) \in Seq(Leaf)
    BY <1>8, AppendProperties
  <2> QED
    BY <1>1, <1>4, <1>10, <2>1
<1>12. ShowsIncludes(n + 1)'
  <2>1. LeafOf(leaf, includes[n + 1])
    BY <1>6, <1>8
  <2> QED
    BY <1>1, <1>3, <1>5, <1>8, <1>9, <1>10, <1>11, <2>1, ShownWithLeaf
<1>13. LeavesInv'
  BY <1>1, <1>2, <1>6, <1>11, <1>12, OneFurther DEF LeavesInv
<1> QED
  BY <1>1, <1>7, <1>11, <1>13, LoopStep

LEMMA TreeInv == ASSUME IInv, Tree PROVE IInv'
<1>1. ASSUME NEW i \in Proxies, GetRoot(i) PROVE IInv'
  <2>1. call' = [tool |-> "tree", id |-> i] /\ call' \in Queries
    BY <1>1 DEF GetRoot, Begin, Queries, ByProxy
  <2>2. CASE Get(i) = Absent
    BY <1>1, <2>1, <2>2, OneRequestOver DEF GetRoot, Begin, Return
  <2>3. CASE Get(i) # Absent
    <3>1. proxies[i] \in Version /\ Get(i) = proxies[i]
      BY <2>3 DEF IInv, TypeOK, Get
    <3>2. /\ answer' = [kind |-> "tree", root |-> proxies[i], leaves |-> <<>>]
          /\ pc' = "leaves" /\ todo' = proxies[i].spec.includes
          /\ began' = proxies /\ during' = [j \in Proxies |-> {proxies[j]}]
          /\ UNCHANGED <<proxies, changes>>
      BY <1>1, <2>3, <3>1 DEF GetRoot, Begin
    <3>3. todo' \in Seq(Ref) /\ todo' = answer'.root.spec.includes
      BY <3>1, <3>2, ConstantsAssumption DEF Version
    <3>4. TypeOK'
      <4>1. answer' \in [kind : {"tree"}, root : Version, leaves : Seq(Leaf)]
        BY <3>1, <3>2, EmptySeq
      <4>2. during' \in [Proxies -> SUBSET (Version \cup {Absent})]
        <5>1. \A j \in Proxies : {proxies[j]} \in SUBSET (Version \cup {Absent})
          BY DEF IInv, TypeOK
        <5> QED
          BY <3>2, <5>1
      <4>3. /\ proxies' \in [Proxies -> Version \cup {Absent}] /\ changes' \in 0..MaxChanges
            /\ began' \in [Proxies -> Version \cup {Absent}]
            /\ pc' \in {"idle", "conditions", "leaves"}
        BY <3>2 DEF IInv, TypeOK
      <4> QED
        BY <2>1, <3>3, <4>1, <4>2, <4>3 DEF TypeOK
    <3>5. DuringInv' /\ ConditionsInv'
      BY <3>2 DEF DuringInv, ConditionsInv
    <3>6. LeavesInv'
      <4>1. /\ call' \in [tool : {"tree"}, id : Proxies]
            /\ answer'.kind = "tree" /\ answer'.root = began'[call'.id]
        BY <2>1, <3>2
      <4>2. ShowsIncludes(0)'
        BY <3>2, ShowsNothing
      <4>3. /\ 0 \in 0..Len(answer'.root.spec.includes)
            /\ todo' = SubSeq(answer'.root.spec.includes, 0 + 1,
                              Len(answer'.root.spec.includes))
        BY <3>3, SubSeqFull, LenProperties
      <4> QED
        BY <4>1, <4>2, <4>3 DEF LeavesInv
    <3>7. StatusOfThisCall' /\ TreeShowsIncludes'
      BY <3>2 DEF StatusOfThisCall, TreeShowsIncludes, Answered
    <3> QED
      BY <3>2, <3>4, <3>5, <3>6, <3>7, NotFound DEF IInv
  <2> QED
    BY <2>2, <2>3
<1>2. CASE GetLeaf
  BY <1>2, AddLeafInv DEF GetLeaf
<1>3. CASE GetLeafFails
  BY <1>3, AddLeafInv DEF GetLeafFails
<1>4. CASE ReturnTree
  <2> DEFINE includes == answer.root.spec.includes
  <2>1. /\ pc = "leaves" /\ todo = <<>> /\ pc' = "idle"
        /\ UNCHANGED <<proxies, changes, began, during, call, answer, todo>>
    BY <1>4 DEF ReturnTree
  <2>2. answer.kind = "tree" /\ answer.root = began[call.id]
    BY <2>1 DEF IInv, LeavesInv
  <2>3. includes \in Seq(Ref)
    BY <2>2, KindTells, ConstantsAssumption DEF IInv, Version
  <2>4. PICK n \in 0..Len(includes) :
          todo = SubSeq(includes, n + 1, Len(includes)) /\ ShowsIncludes(n)
    BY <2>1 DEF IInv, LeavesInv
  <2>5. n = Len(includes)
    <3> HIDE DEF includes
    <3>1. Len(includes) \in Nat /\ \A k \in 1..Len(includes) : includes[k] \in Ref
      BY <2>3, LenProperties
    <3>2. Len(SubSeq(includes, n + 1, Len(includes)))
            = IF n + 1 <= Len(includes) THEN Len(includes) - (n + 1) + 1 ELSE 0
      BY <3>1, SubSeqProperties
    <3>3. Len(SubSeq(includes, n + 1, Len(includes))) = 0
      <4>1. SubSeq(includes, n + 1, Len(includes)) = <<>>
        BY <2>1, <2>4
      <4>2. Len(<<>>) = 0
        BY EmptySeq
      <4> QED
        BY <4>1, <4>2
    <3> QED
      BY <3>1, <3>2, <3>3
  <2>6. ShowsIncludes(Len(includes))'
    <3>1. Len(includes) \in Nat /\ ShowsIncludes(Len(includes))
      BY <2>3, <2>4, <2>5, LenProperties
    <3> QED
      BY <2>1, <3>1, ShownStays
  <2>7. TreeShowsIncludes'
    BY <2>1, <2>2, <2>6 DEF TreeShowsIncludes
  <2>8. TypeOK' /\ DuringInv' /\ ConditionsInv' /\ LeavesInv' /\ StatusOfThisCall'
    BY <2>1, <2>2
    DEF IInv, TypeOK, DuringInv, ConditionsInv, LeavesInv, StatusOfThisCall, Answered
  <2> QED
    BY <2>1, <2>2, <2>7, <2>8, NotFound DEF IInv
<1> QED
  BY <1>1, <1>2, <1>3, <1>4, PassOverInv DEF Tree

------------------------------------------------------------------------------
(* The cluster, and the theorems.                                          *)

\* A step of the cluster between two calls leaves the answer what it was.
LEMMA AnswerStays ==
  ASSUME IInv, UNCHANGED <<began, call, pc, answer, during>>
  PROVE  StatusOfThisCall' /\ TreeShowsIncludes' /\ FQDNSearchExact' /\ BackendSearchComplete'
<1>1. StatusOfThisCall'
  BY DEF IInv, StatusOfThisCall, Answered
<1>2. TreeShowsIncludes'
  BY DEF IInv, TreeShowsIncludes, ShowsIncludes, LeafOf, Answered
<1>3. FQDNSearchExact'
  BY DEF IInv, FQDNSearchExact, FoundAmong, Answered
<1>4. BackendSearchComplete'
  BY DEF IInv, BackendSearchComplete, FoundAmong, RoutesTo, Answered
<1> QED
  BY <1>1, <1>2, <1>3, <1>4

LEMMA ChangeInv == ASSUME IInv, NEW i \in Proxies, ChangeProxy(i) PROVE IInv'
<1>1. PICK v \in Version \cup {Absent} :
        /\ proxies' = [proxies EXCEPT ![i] = v]
        /\ during' = IF pc = "idle" THEN during ELSE [during EXCEPT ![i] = @ \cup {v}]
  BY DEF ChangeProxy
<1>2. /\ changes < MaxChanges /\ changes' = changes + 1
      /\ UNCHANGED <<began, call, pc, answer, todo>>
  BY DEF ChangeProxy
<1>3. \A j \in Proxies : during[j] \subseteq during'[j]
  BY <1>1 DEF IInv, TypeOK
<1>4. TypeOK'
  <2>1. changes' \in 0..MaxChanges
    <3>1. changes \in 0..MaxChanges
      BY DEF IInv, TypeOK
    <3>2. MaxChanges \in Nat
      BY ConstantsAssumption
    <3> QED
      BY <1>2, <3>1, <3>2
  <2>2. /\ proxies' \in [Proxies -> Version \cup {Absent}]
        /\ during' \in [Proxies -> SUBSET (Version \cup {Absent})]
    BY <1>1 DEF IInv, TypeOK
  <2> QED
    BY <1>2, <2>1, <2>2 DEF IInv, TypeOK
<1>5. CASE pc = "idle"
  <2>1. UNCHANGED <<began, call, pc, answer, todo, during>>
    BY <1>1, <1>2, <1>5
  <2>2. DuringInv' /\ ConditionsInv' /\ LeavesInv'
    BY <1>5, <2>1 DEF DuringInv, ConditionsInv, LeavesInv
  <2> QED
    BY <1>4, <2>1, <2>2, AnswerStays DEF IInv
<1>6. CASE pc # "idle"
  <2>1. DuringInv'
    BY <1>1, <1>2, <1>6 DEF IInv, TypeOK, DuringInv
  <2>2. ConditionsInv'
    BY <1>2, <1>3 DEF IInv, ConditionsInv
  <2>3. LeavesInv'
    <3>1. \A n \in Nat : ShowsIncludes(n) => ShowsIncludes(n)'
      BY <1>2, <1>3, ShownStays
    <3>2. SUFFICES ASSUME pc = "leaves" PROVE LeavesInv'
      BY <1>2 DEF LeavesInv
    <3>3. /\ call \in [tool : {"tree"}, id : Proxies]
          /\ answer.kind = "tree" /\ answer.root = began[call.id]
      BY <3>2 DEF IInv, LeavesInv
    <3>4. PICK n \in 0..Len(answer.root.spec.includes) :
            /\ todo = SubSeq(answer.root.spec.includes, n + 1,
                             Len(answer.root.spec.includes))
            /\ ShowsIncludes(n)
      BY <3>2 DEF IInv, LeavesInv
    <3>5. n \in Nat
      <4>1. answer.root.spec.includes \in Seq(Ref)
        BY <3>3, KindTells, ConstantsAssumption DEF IInv, Version
      <4>2. Len(answer.root.spec.includes) \in Nat
        BY <4>1, LenProperties
      <4> QED
        BY <4>2
    <3> QED
      BY <1>2, <1>3, <3>1, <3>3, <3>4, <3>5 DEF LeavesInv
  <2>4. StatusOfThisCall' /\ TreeShowsIncludes' /\ FQDNSearchExact' /\ BackendSearchComplete'
    BY <1>2, <1>6
    DEF StatusOfThisCall, TreeShowsIncludes, FQDNSearchExact, BackendSearchComplete, Answered
  <2> QED
    BY <1>4, <2>1, <2>2, <2>3, <2>4 DEF IInv
<1> QED
  BY <1>5, <1>6

LEMMA InitInv == Init => IInv
<1> SUFFICES ASSUME Init PROVE IInv
  OBVIOUS
<1>1. TypeOK
  <2>1. changes \in 0..MaxChanges
    <3>1. changes = 0 /\ MaxChanges \in Nat
      BY ConstantsAssumption DEF Init
    <3> QED
      BY <3>1
  <2>2. during \in [Proxies -> SUBSET (Version \cup {Absent})]
    BY DEF Init
  <2>3. todo \in Seq(Ref)
    BY EmptySeq DEF Init
  <2> QED
    BY <2>1, <2>2, <2>3 DEF Init, TypeOK
<1>2. answer.kind = "failed" /\ pc = "idle"
  BY DEF Init, Failed
<1> QED
  BY <1>1, <1>2
  DEF IInv, DuringInv, ConditionsInv, LeavesInv, StatusOfThisCall, TreeShowsIncludes,
      FQDNSearchExact, BackendSearchComplete, Answered

LEMMA NextInv == ASSUME IInv, [Next]_vars PROVE IInv'
<1>1. CASE UNCHANGED vars
  <2>1. UNCHANGED <<proxies, changes, began, during, call, pc, answer, todo>>
    BY <1>1 DEF vars
  <2>2. TypeOK'
    BY <2>1 DEF IInv, TypeOK
  <2>3. DuringInv' /\ ConditionsInv'
    BY <2>1 DEF IInv, DuringInv, ConditionsInv
  <2>4. LeavesInv'
    BY <2>1 DEF IInv, LeavesInv, ShowsIncludes, LeafOf
  <2> QED
    BY <2>1, <2>2, <2>3, <2>4, AnswerStays DEF IInv
<1> QED
  BY <1>1, FailedInv, OneRequestInv, StatusInv, TreeInv, ChangeInv DEF Next

\* The inductive invariant: what a call of several requests has put together so
\* far was there while it ran.
THEOREM Invariance == Spec => []IInv
BY InitInv, NextInv, PTL DEF Spec

\* Every variable keeps its type.
THEOREM TypeCorrect == Spec => []TypeOK
BY Invariance, PTL DEF IInv

\* Both parts of a status are of the proxy asked for, the conditions of a version
\* that is not older than that of the status.
THEOREM StatusCorrect == Spec => []StatusOfThisCall
BY Invariance, PTL DEF IInv

\* The tree has one leaf for each named include, in their order, and each is the
\* proxy that it should be, in a version not older than the root.
THEOREM TreeCorrect == Spec => []TreeShowsIncludes
BY Invariance, PTL DEF IInv

\* A search by host name finds the proxies that serve it and no others.
THEOREM FQDNCorrect == Spec => []FQDNSearchExact
BY Invariance, PTL DEF IInv

\* A search by backend misses no proxy that routes to it.
THEOREM BackendComplete == Spec => []BackendSearchComplete
BY Invariance, PTL DEF IInv
==============================================================================
