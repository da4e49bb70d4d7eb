-------------------------- MODULE MCHTTPProxyQueries --------------------------
(***************************************************************************)
(* Small instances of HTTPProxyQueries for TLC.  Namespaces and names      *)
(* overlap, so that one taken for the other can still name a proxy.         *)
(***************************************************************************)
EXTENDS HTTPProxyQueries, TLC

In(ns, name) == [ns |-> ns, name |-> name]

\* Two proxies, the name of each being the namespace of the other.
MCProxies == {In("a", "b"), In("b", "a")}

\* One resource of each other kind in each namespace.
MCOthers == [kind : {"delegation", "extension"}, ns : {"a", "b"}]

MCStatuses == {"", "Valid", "Invalid"}

Plain == [fqdn |-> <<>>, includes |-> <<>>, services |-> {}, tcp |-> ""]

\* Virtual hosts that differ in case, in depth and in the wildcard, and none;
\* services with and without a namespace, and TCP; includes without and with a
\* namespace, without a name, and of a proxy that there never is: the first,
\* in the root "b".
MCSpecs ==
  {[Plain EXCEPT !.tcp = "a"],
   [Plain EXCEPT !.fqdn = <<"*", "x", "y">>, !.services = {In("", "a")}],
   [Plain EXCEPT !.fqdn = <<"x", "Y">>,
                 !.services = {In("b", "a"), In("a", "c")}],
   [Plain EXCEPT !.fqdn = <<"*">>,
                 !.includes = <<In("", "a"), In("", ""), In("a", "b")>>]}

\* A chain of includes, for the tree alone.
ChainProxies == {In("a", "root"), In("a", "child"), In("a", "leaf")}
ChainSpecs ==
  {[Plain EXCEPT !.includes = <<In("", n)>>] : n \in {"child", "leaf"}}
    \cup {Plain}

MCHosts == {<<"z", "x", "y">>, <<"X", "Y">>, <<"", "x", "y">>,
            <<"z", "z", "X", "y">>, <<"*", "y">>, <<"*", "x", "y">>, <<"zx", "y">>}

MCBackends == {In(ns, "a") : ns \in {"", "a", "b"}}

Labels  == {"*", "x", "y", "z", "X", "Y", "", "zx"}
MCLower ==
  [l \in Labels |-> CASE l = "X" -> "x" [] l = "Y" -> "y" [] OTHER -> l]

==============================================================================
