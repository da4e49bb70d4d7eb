------------------------- MODULE IngressTargetsProofs -------------------------
(***************************************************************************)
(* Proofs about IngressTargets for any number of pods, configurations and  *)
(* changes, and any names.                                                 *)
(***************************************************************************)
EXTENDS IngressTargets, FiniteSetTheorems, WellFoundedInduction, TLAPS

------------------------------------------------------------------------------
(* The first pod, or configuration, of a list.                             *)

\* A set of numbers that is not empty has a least one, and Min is it.
LEMMA MinOf ==
  ASSUME NEW S, S \subseteq Nat, S # {}
  PROVE  Min(S) \in S /\ \A y \in S : Min(S) <= y
<1> DEFINE Less == {ss \in Nat \X Nat : ss[1] < ss[2]}
<1>1. IsWellFoundedOn(Less, Nat)
  BY NatLessThanWellFounded, Zenon DEF OpToRel
<1>2. PICK x \in S : \A y \in S : ~(<<y, x>> \in Less)
  <2> HIDE DEF Less
  <2> QED
    BY <1>1, WFMin
<1>3. ASSUME NEW y \in S PROVE x <= y
  <2>1. x \in Nat /\ y \in Nat
    OBVIOUS
  <2>2. y < x => <<y, x>> \in Less
    BY <2>1
  <2>3. ~(y < x)
    BY <1>2, <2>2, Zenon
  <2> QED
    BY <2>1, <2>3
<1> QED
  BY <1>3 DEF Min

\* matchIngressClassConfig returns a configuration with the exact name if
\* there is one, else one with the words of the class if there is one.
LEMMA MatchCorrect ==
  ASSUME DOMAIN configs \subseteq Nat, NEW c
  PROVE  /\ Exact(c) # {} => matchIngressClassConfig(c) \in Exact(c)
         /\ Exact(c) = {} /\ Loose(c) # {} => matchIngressClassConfig(c) \in Loose(c)
         /\ Exact(c) \cup Loose(c) = {} => matchIngressClassConfig(c) = NoConfig
<1>1. Exact(c) \subseteq Nat /\ Loose(c) \subseteq Nat
  BY DEF Exact, Loose
<1> QED
  BY <1>1, MinOf DEF matchIngressClassConfig

\* The port of a class is what the comments in ingressclass.go say it is.
LEMMA PortCorrect ==
  ASSUME DOMAIN configs \subseteq Configs, NEW c, NEW field
  PROVE  /\ IsPortOf(PortsForIngressClass(c, field), c, field)
         /\ PortsForIngressClass(c, field) \in Configs \cup {DefaultPort}
         /\ PortsForIngressClass(c, field) \in Configs /\ Exact(c) # {}
              => PortsForIngressClass(c, field) \in Exact(c)
<1>1. Exact(c) \subseteq DOMAIN configs /\ Loose(c) \subseteq DOMAIN configs
      /\ \A k \in Exact(c) : ConfigName[k] = Conventional(c)
  BY DEF Exact, Loose
<1>2. DOMAIN configs \subseteq Nat \ {NoConfig} /\ DefaultPort \notin Configs
  BY ConstantsAssumption
<1>3. CASE Exact(c) # {}
  BY <1>1, <1>2, <1>3, MatchCorrect DEF PortsForIngressClass, IsPortOf
<1>4. CASE Exact(c) = {} /\ Loose(c) # {}
  BY <1>1, <1>2, <1>4, MatchCorrect DEF PortsForIngressClass, IsPortOf
<1>5. CASE Exact(c) \cup Loose(c) = {}
  BY <1>1, <1>2, <1>5, MatchCorrect DEF PortsForIngressClass, IsPortOf
<1> QED
  BY <1>3, <1>4, <1>5

------------------------------------------------------------------------------
(* The inductive invariant: how far each call has come.                    *)

\* Where an envoy_* call is, what it has resolved so far is right, unless the
\* cluster or a failed request has come in between.
EnvoyInv ==
  tool = "envoy" =>
    /\ pc \in {"idle", "select", "derive", "port"}
    /\ pc # "idle" => ~args.url
    /\ pc = "select" => /\ args.pod = NoPod /\ class # NoClass
                        /\ class = ClassAsked
    /\ pc = "derive" => /\ args.pod # NoPod /\ pod = args.pod
                        /\ args.class = NoClass /\ class = NoClass
    /\ pc = "port" => /\ IF args.pod # NoPod
                           THEN pod = args.pod
                           ELSE /\ class # NoClass
                                /\ settled => IsFirstReady(pod, "envoy", class)
                      /\ settled => class = ClassAsked

\* The same of get_contour_dag.
DAGInv ==
  tool = "dag" =>
    /\ pc \in {"idle", "select", "port"}
    /\ pc # "idle" => result = "none"
    /\ pc = "select" => args.pod = NoPod
    /\ pc = "port" => IF args.pod # NoPod
                       THEN pod = args.pod
                       ELSE settled => IsFirstReady(pod, "dag", class)

IInv == TypeOK /\ EnvoyInv /\ DAGInv /\ EnvoyResolvedAsDocumented

\* What the definitions of the constant sets contain.
LEMMA Constants ==
  /\ NoClass # Unlabeled
  /\ NoClass \in Classes /\ DefaultClass \in Classes /\ NoArgs \in Args
  /\ \A a \in Args : a.class \in Classes /\ a.pod \in Pods \cup {NoPod}
  /\ \A c \in Labels : c \in Classes /\ c # Unlabeled
BY ConstantsAssumption DEF NoClass, Unlabeled, Classes, NoArgs, Args

\* Before the first call nothing is resolved.
LEMMA InitInv == Init => IInv
<1> SUFFICES ASSUME Init PROVE IInv
  OBVIOUS
<1>1. DOMAIN pods \subseteq Pods /\ pods \in [DOMAIN pods -> PodState]
  BY DEF Init, SubsetFunctions
<1>2. DOMAIN configs \subseteq Configs /\ configs \in [DOMAIN configs -> Settings]
  BY DEF Init, SubsetFunctions
<1>3. IsSummary(summary) /\ IsSummary(listed)
  BY DEF Init, IsSummary, Nothing
<1>4. changes \in 0..MaxChanges
  <2>1. changes = 0 /\ MaxChanges \in Nat
    BY ConstantsAssumption DEF Init
  <2> QED
    BY <2>1
<1>5. args \in Args /\ class \in Classes /\ pod \in Pods \cup {NoPod}
  BY Constants DEF Init
<1>6. TypeOK
  BY <1>1, <1>2, <1>3, <1>4, <1>5 DEF Init, TypeOK, Tools, Places, Results, Ports
<1> QED
  BY <1>6 DEF Init, IInv, EnvoyInv, DAGInv, EnvoyResolvedAsDocumented

\* A call keeps the cluster; a change of the cluster keeps the call.
LEMMA NextType == IInv /\ [Next]_vars => TypeOK'
<1> SUFFICES ASSUME IInv, [Next]_vars PROVE TypeOK'
  OBVIOUS
<1> USE ConstantsAssumption, Constants
    DEF IInv, TypeOK, cluster, locals, listing, Tools, Places, Results
<1>e. IsSummary(Nothing)
  BY DEF IsSummary, Nothing
<1>p. \A c, field : PortsForIngressClass(c, field) \in Ports
  BY PortCorrect DEF Ports
<1>d. DefaultPort \in Ports /\ OverridePort \in Ports
  BY DEF Ports
<1>c. ASSUME Changed
      PROVE  /\ changes' \in 0..MaxChanges /\ settled' \in BOOLEAN
             /\ listed' = Nothing /\ tool' = tool /\ args' = args /\ pc' = pc
             /\ class' = class /\ pod' = pod /\ port' = port
             /\ summary' = summary /\ todo' = todo /\ result' = result
  <2>1. changes < MaxChanges /\ changes' = changes + 1
    BY <1>c DEF Changed
  <2>2. changes \in 0..MaxChanges /\ MaxChanges \in Nat
    BY Zenon
  <2>3. changes' \in 0..MaxChanges
    BY ONLY <2>1, <2>2
  <2> QED
    BY <1>c, <2>3, Zenon DEF Changed
<1>s. ASSUME NEW c \in DOMAIN summary, NEW n \in Ports
      PROVE  IsSummary([summary EXCEPT ![c].port = n])
  BY <1>s DEF IsSummary, Summary
<1>1. ASSUME NEW a \in Args, EnvoyByURL(a) PROVE TypeOK'
  BY <1>1, <1>e, <1>d DEF EnvoyByURL, Begin, EndAtOnce
<1>2. ASSUME NEW a \in Args, EnvoyByDefault(a) PROVE TypeOK'
  BY <1>2, <1>e, <1>d DEF EnvoyByDefault, Begin, EndAtOnce
<1>3. ASSUME NEW a \in Args, EnvoyByClass(a) PROVE TypeOK'
  BY <1>3, <1>e, <1>d DEF EnvoyByClass, Begin, Continue
<1>4. ASSUME NEW a \in Args, EnvoyByPod(a) PROVE TypeOK'
  BY <1>4, <1>e, <1>d DEF EnvoyByPod, Begin, Continue
<1>5. ASSUME NEW a \in Args, DAGUnclassed(a) PROVE TypeOK'
  BY <1>5, <1>e, <1>d DEF DAGUnclassed, Begin, EndAtOnce
<1>6. ASSUME NEW a \in Args, DAG(a) PROVE TypeOK'
  BY <1>6, <1>e, <1>d DEF DAG, Begin, Continue
<1>7. ASSUME ListClasses PROVE TypeOK'
  BY <1>7, <1>e, <1>d DEF ListClasses, Begin, Continue
<1>8. ASSUME ListFails PROVE TypeOK'
  BY <1>8, <1>e, <1>d DEF ListFails, Finish
<1>9. ASSUME SelectReadyPod PROVE TypeOK'
  <2>1. PICK ready \in SUBSET Pods : ready # {} /\ pod' = Min(ready)
    BY <1>9 DEF SelectReadyPod, Selected, Selector, Pods
  <2>2. pod' \in Pods
    BY <2>1, MinOf
  <2> QED
    BY <1>9, <2>2 DEF SelectReadyPod
<1>10. ASSUME NoReadyPod PROVE TypeOK'
  BY <1>10, <1>e, <1>d DEF NoReadyPod, Finish
<1>11. ASSUME DeriveClass PROVE TypeOK'
  <2>1. class' \in Classes
    BY <1>11 DEF DeriveClass, PodState, Pods
  <2> QED
    BY <1>11, <2>1 DEF DeriveClass
<1>12. ASSUME UsePort PROVE TypeOK'
  BY <1>12, <1>e, <1>d DEF UsePort, Finish
<1>13. ASSUME LookUpPort PROVE TypeOK'
  BY <1>13, <1>p DEF LookUpPort, Finish
<1>14. ASSUME LookUpFails PROVE TypeOK'
  BY <1>14, <1>e, <1>d DEF LookUpFails, Finish
<1>15. ASSUME Summarize PROVE TypeOK'
  <2>1. IsSummary(summary')
    <3> DEFINE envoys == Envoys \cap DOMAIN pods
               of(c) == {p \in envoys : Grouped(p) = c}
    <3>1. \A c : IsFiniteSet(of(c)) /\ IsFiniteSet({p \in of(c) : pods[p].ready})
      BY FS_Subset DEF Pods
    <3>2. \A c : Cardinality(of(c)) \in Nat
                /\ Cardinality({p \in of(c) : pods[p].ready}) \in Nat
      BY <3>1, FS_CardinalityType
    <3>3. {Grouped(p) : p \in envoys} \subseteq (Labels \ {NoClass}) \cup {Unlabeled}
      BY DEF Grouped, PodState, Pods
    <3>4. summary' = [c \in {Grouped(p) : p \in envoys} |->
                       [pods  |-> Cardinality(of(c)),
                        ready |-> Cardinality({p \in of(c) : pods[p].ready}),
                        port  |-> DefaultPort]]
      BY <1>15, Zenon DEF Summarize
    <3> HIDE DEF of
    <3> QED
      BY <3>2, <3>3, <3>4, <1>d DEF IsSummary, Summary
  <2> QED
    BY <1>15, <2>1 DEF Summarize
<1>16. ASSUME NEW c \in todo, SummarizePort(c) PROVE TypeOK'
  BY <1>16, <1>s, <1>p DEF SummarizePort
<1>17. ASSUME NEW c \in todo, SummarizePortFails(c) PROVE TypeOK'
  BY <1>17, <1>s, <1>d DEF SummarizePortFails
<1>18. ASSUME ReturnListing PROVE TypeOK'
  BY <1>18, <1>e DEF ReturnListing, Finish
<1>19. ASSUME NEW p \in Pods, ChangePod(p) PROVE TypeOK'
  <2>1. DOMAIN pods' \subseteq Pods /\ pods' \in [DOMAIN pods' -> PodState]
    BY <1>19 DEF ChangePod, Set, Unset
  <2> QED
    BY <1>19, <2>1, <1>e, <1>c DEF ChangePod
<1>20. ASSUME NEW k \in Configs, ChangeConfig(k) PROVE TypeOK'
  <2>1. DOMAIN configs' \subseteq Configs /\ configs' \in [DOMAIN configs' -> Settings]
    BY <1>20 DEF ChangeConfig, Set, Unset
  <2> QED
    BY <1>20, <2>1, <1>e, <1>c DEF ChangeConfig
<1>21. ASSUME UNCHANGED vars PROVE TypeOK'
  BY <1>21, <1>e, <1>d DEF vars
<1> QED
  BY <1>1, <1>2, <1>3, <1>4, <1>5, <1>6, <1>7, <1>8, <1>9, <1>10, <1>11,
     <1>12, <1>13, <1>14, <1>15, <1>16, <1>17, <1>18, <1>19, <1>20, <1>21
  DEF Next, Call, EnvoyTarget, Look, Discover

\* A step of an envoy_* call resolves its part correctly.
LEMMA NextEnvoyInv == IInv /\ [Next]_vars => EnvoyInv'
<1> SUFFICES ASSUME IInv, [Next]_vars PROVE EnvoyInv'
  OBVIOUS
<1> USE DEF IInv, EnvoyInv, cluster, locals, listing, ClassAsked
<1>1. ASSUME NEW a \in Args, EnvoyByURL(a) PROVE EnvoyInv'
  BY <1>1 DEF EnvoyByURL, Begin, EndAtOnce
<1>2. ASSUME NEW a \in Args, EnvoyByDefault(a) PROVE EnvoyInv'
  BY <1>2 DEF EnvoyByDefault, Begin, EndAtOnce
<1>3. ASSUME NEW a \in Args, EnvoyByClass(a) PROVE EnvoyInv'
  BY <1>3, Constants DEF EnvoyByClass, Begin, Continue, Args
<1>4. ASSUME NEW a \in Args, EnvoyByPod(a) PROVE EnvoyInv'
  BY <1>4, Constants DEF EnvoyByPod, Begin, Continue, Args
<1>5. ASSUME NEW a \in Args, DAGUnclassed(a) PROVE EnvoyInv'
  BY <1>5 DEF DAGUnclassed, Begin, EndAtOnce
<1>6. ASSUME NEW a \in Args, DAG(a) PROVE EnvoyInv'
  BY <1>6 DEF DAG, Begin, Continue
<1>7. ASSUME ListClasses PROVE EnvoyInv'
  BY <1>7 DEF ListClasses, Begin, Continue
<1>8. ASSUME ListFails PROVE EnvoyInv'
  BY <1>8 DEF ListFails, Finish
<1>9. ASSUME SelectReadyPod PROVE EnvoyInv'
  <2> DEFINE ready == {p \in Selected(tool, class) : pods[p].ready}
  <2>1. CASE tool = "envoy"
    <3>1. ready # {} /\ ready \subseteq Nat /\ pod' = Min(ready)
      BY <1>9, ConstantsAssumption DEF SelectReadyPod, Selected, Selector, Pods
    <3>2. pod' \in ready /\ \A y \in ready : pod' <= y
      <4> HIDE DEF ready
      <4> QED
        BY <3>1, MinOf
    <3>3. pods' = pods /\ class' = class /\ tool' = "envoy"
      BY <1>9, <2>1 DEF SelectReadyPod
    <3>4. IsFirstReady(pod, "envoy", class)'
      BY <2>1, <3>2, <3>3 DEF IsFirstReady, Selected, Selector
    <3> QED
      BY <1>9, <2>1, <3>4 DEF SelectReadyPod
  <2>2. CASE tool # "envoy"
    BY <1>9, <2>2 DEF SelectReadyPod
  <2> QED
    BY <2>1, <2>2
<1>10. ASSUME NoReadyPod PROVE EnvoyInv'
  BY <1>10 DEF NoReadyPod, Finish
<1>11. ASSUME DeriveClass PROVE EnvoyInv'
  BY <1>11 DEF DeriveClass
<1>12. ASSUME UsePort PROVE EnvoyInv'
  BY <1>12 DEF UsePort, Finish
<1>13. ASSUME LookUpPort PROVE EnvoyInv'
  BY <1>13 DEF LookUpPort, Finish
<1>14. ASSUME LookUpFails PROVE EnvoyInv'
  BY <1>14 DEF LookUpFails, Finish
<1>15. ASSUME Summarize PROVE EnvoyInv'
  <2>1. pc = "list" /\ tool' = tool
    BY <1>15 DEF Summarize
  <2> QED
    BY <2>1
<1>16. ASSUME NEW c \in todo, SummarizePort(c) PROVE EnvoyInv'
  BY <1>16 DEF SummarizePort
<1>17. ASSUME NEW c \in todo, SummarizePortFails(c) PROVE EnvoyInv'
  BY <1>17 DEF SummarizePortFails
<1>18. ASSUME ReturnListing PROVE EnvoyInv'
  BY <1>18 DEF ReturnListing, Finish
<1>19. ASSUME NEW p \in Pods, ChangePod(p) PROVE EnvoyInv'
  BY <1>19 DEF ChangePod, Changed
<1>20. ASSUME NEW k \in Configs, ChangeConfig(k) PROVE EnvoyInv'
  BY <1>20 DEF ChangeConfig, Changed
<1>21. ASSUME UNCHANGED vars PROVE EnvoyInv'
  BY <1>21 DEF vars, IsFirstReady, Selected, Selector
<1> QED
  BY <1>1, <1>2, <1>3, <1>4, <1>5, <1>6, <1>7, <1>8, <1>9, <1>10, <1>11,
     <1>12, <1>13, <1>14, <1>15, <1>16, <1>17, <1>18, <1>19, <1>20, <1>21
  DEF Next, Call, EnvoyTarget, Look, Discover

\* A step of a get_contour_dag call picks its pod correctly.
LEMMA NextDAGInv == IInv /\ [Next]_vars => DAGInv'
<1> SUFFICES ASSUME IInv, [Next]_vars PROVE DAGInv'
  OBVIOUS
<1> USE DEF IInv, DAGInv, cluster, locals, listing
<1>1. ASSUME NEW a \in Args, EnvoyByURL(a) PROVE DAGInv'
  BY <1>1 DEF EnvoyByURL, Begin, EndAtOnce
<1>2. ASSUME NEW a \in Args, EnvoyByDefault(a) PROVE DAGInv'
  BY <1>2 DEF EnvoyByDefault, Begin, EndAtOnce
<1>3. ASSUME NEW a \in Args, EnvoyByClass(a) PROVE DAGInv'
  BY <1>3 DEF EnvoyByClass, Begin, Continue
<1>4. ASSUME NEW a \in Args, EnvoyByPod(a) PROVE DAGInv'
  BY <1>4 DEF EnvoyByPod, Begin, Continue
<1>5. ASSUME NEW a \in Args, DAGUnclassed(a) PROVE DAGInv'
  BY <1>5 DEF DAGUnclassed, Begin, EndAtOnce
<1>6. ASSUME NEW a \in Args, DAG(a) PROVE DAGInv'
  BY <1>6 DEF DAG, Begin, Continue
<1>7. ASSUME ListClasses PROVE DAGInv'
  BY <1>7 DEF ListClasses, Begin, Continue
<1>8. ASSUME ListFails PROVE DAGInv'
  BY <1>8 DEF ListFails, Finish
<1>9. ASSUME SelectReadyPod PROVE DAGInv'
  <2> DEFINE ready == {p \in Selected(tool, class) : pods[p].ready}
  <2>1. CASE tool = "dag"
    <3>1. ready # {} /\ ready \subseteq Nat /\ pod' = Min(ready)
      BY <1>9, ConstantsAssumption DEF SelectReadyPod, Selected, Selector, Pods
    <3>2. pod' \in ready /\ \A y \in ready : pod' <= y
      <4> HIDE DEF ready
      <4> QED
        BY <3>1, MinOf
    <3>3. pods' = pods /\ class' = class /\ tool' = "dag"
      BY <1>9, <2>1 DEF SelectReadyPod
    <3>4. IsFirstReady(pod, "dag", class)'
      BY <2>1, <3>2, <3>3 DEF IsFirstReady, Selected, Selector
    <3> QED
      BY <1>9, <2>1, <3>4 DEF SelectReadyPod
  <2>2. CASE tool # "dag"
    BY <1>9, <2>2 DEF SelectReadyPod
  <2> QED
    BY <2>1, <2>2
<1>10. ASSUME NoReadyPod PROVE DAGInv'
  BY <1>10 DEF NoReadyPod, Finish
<1>11. ASSUME DeriveClass PROVE DAGInv'
  BY <1>11 DEF DeriveClass
<1>12. ASSUME UsePort PROVE DAGInv'
  BY <1>12 DEF UsePort, Finish
<1>13. ASSUME LookUpPort PROVE DAGInv'
  BY <1>13 DEF LookUpPort, Finish
<1>14. ASSUME LookUpFails PROVE DAGInv'
  BY <1>14 DEF LookUpFails, Finish
<1>15. ASSUME Summarize PROVE DAGInv'
  <2>1. pc = "list" /\ tool' = tool
    BY <1>15 DEF Summarize
  <2> QED
    BY <2>1
<1>16. ASSUME NEW c \in todo, SummarizePort(c) PROVE DAGInv'
  BY <1>16 DEF SummarizePort
<1>17. ASSUME NEW c \in todo, SummarizePortFails(c) PROVE DAGInv'
  BY <1>17 DEF SummarizePortFails
<1>18. ASSUME ReturnListing PROVE DAGInv'
  BY <1>18 DEF ReturnListing, Finish
<1>19. ASSUME NEW p \in Pods, ChangePod(p) PROVE DAGInv'
  BY <1>19 DEF ChangePod, Changed
<1>20. ASSUME NEW k \in Configs, ChangeConfig(k) PROVE DAGInv'
  BY <1>20 DEF ChangeConfig, Changed
<1>21. ASSUME UNCHANGED vars PROVE DAGInv'
  BY <1>21 DEF vars, IsFirstReady, Selected, Selector
<1> QED
  BY <1>1, <1>2, <1>3, <1>4, <1>5, <1>6, <1>7, <1>8, <1>9, <1>10, <1>11,
     <1>12, <1>13, <1>14, <1>15, <1>16, <1>17, <1>18, <1>19, <1>20, <1>21
  DEF Next, Call, EnvoyTarget, Look, Discover

\* A call that ends undisturbed ends as documented.
LEMMA NextResolved == IInv /\ [Next]_vars => EnvoyResolvedAsDocumented'
<1> SUFFICES ASSUME IInv, [Next]_vars PROVE EnvoyResolvedAsDocumented'
  OBVIOUS
<1> USE DEF IInv, EnvoyInv, EnvoyResolvedAsDocumented, cluster, locals, listing,
        ClassAsked
<1>t. \A p, c : IsFirstReady(p, "envoy", c) => p \in Pods
  BY DEF IsFirstReady, Selected, Selector, Pods
<1>1. ASSUME NEW a \in Args, EnvoyByURL(a) PROVE EnvoyResolvedAsDocumented'
  BY <1>1 DEF EnvoyByURL, Begin, EndAtOnce
<1>2. ASSUME NEW a \in Args, EnvoyByDefault(a) PROVE EnvoyResolvedAsDocumented'
  BY <1>2 DEF EnvoyByDefault, Begin, EndAtOnce
<1>3. ASSUME NEW a \in Args, EnvoyByClass(a) PROVE EnvoyResolvedAsDocumented'
  BY <1>3 DEF EnvoyByClass, Begin, Continue
<1>4. ASSUME NEW a \in Args, EnvoyByPod(a) PROVE EnvoyResolvedAsDocumented'
  BY <1>4 DEF EnvoyByPod, Begin, Continue
<1>5. ASSUME NEW a \in Args, DAGUnclassed(a) PROVE EnvoyResolvedAsDocumented'
  BY <1>5 DEF DAGUnclassed, Begin, EndAtOnce
<1>6. ASSUME NEW a \in Args, DAG(a) PROVE EnvoyResolvedAsDocumented'
  BY <1>6 DEF DAG, Begin, Continue
<1>7. ASSUME ListClasses PROVE EnvoyResolvedAsDocumented'
  BY <1>7 DEF ListClasses, Begin, Continue
<1>8. ASSUME ListFails PROVE EnvoyResolvedAsDocumented'
  <2>1. CASE tool = "envoy" /\ settled'
    <3>1. pc = "select" /\ class = Unlabeled /\ pods' = pods
      BY <1>8, <2>1, Constants DEF ListFails
    <3>2. \A p : ~IsFirstReady(p, "envoy", Unlabeled)'
      BY <3>1, Constants DEF TypeOK, PodState, IsFirstReady, Selected, Selector
    <3> QED
      BY <1>8, <2>1, <3>1, <3>2 DEF ListFails, Finish
  <2>2. CASE tool # "envoy" \/ ~settled'
    BY <1>8, <2>2 DEF ListFails
  <2> QED
    BY <2>1, <2>2
<1>9. ASSUME SelectReadyPod PROVE EnvoyResolvedAsDocumented'
  BY <1>9 DEF SelectReadyPod, Selected, Selector
<1>10. ASSUME NoReadyPod PROVE EnvoyResolvedAsDocumented'
  <2>1. CASE tool = "envoy"
    <3>1. \A p : ~IsFirstReady(p, "envoy", class)'
      BY <1>10, <2>1 DEF NoReadyPod, IsFirstReady, Selected, Selector
    <3> QED
      BY <1>10, <2>1, <3>1 DEF NoReadyPod, Finish
  <2>2. CASE tool # "envoy"
    BY <1>10, <2>2 DEF NoReadyPod
  <2> QED
    BY <2>1, <2>2
<1>11. ASSUME DeriveClass PROVE EnvoyResolvedAsDocumented'
  BY <1>11 DEF DeriveClass
<1>12. ASSUME UsePort PROVE EnvoyResolvedAsDocumented'
  BY <1>12 DEF UsePort, Finish, IsFirstReady, Selected, Selector
<1>13. ASSUME LookUpPort PROVE EnvoyResolvedAsDocumented'
  <2>1. CASE tool = "envoy"
    <3>1. IsPortOf(port', class, "adminPort")
      BY <1>13, <2>1, PortCorrect DEF LookUpPort, Field, TypeOK
    <3>2. configs' = configs /\ pods' = pods /\ class' = class
      BY <1>13 DEF LookUpPort
    <3>3. IsPortOf(port, class, "adminPort")'
      BY <3>1, <3>2 DEF IsPortOf, Exact, Loose
    <3> QED
      BY <1>13, <2>1, <3>3 DEF LookUpPort, Finish, IsFirstReady, Selected, Selector
  <2>2. CASE tool # "envoy"
    BY <1>13, <2>2 DEF LookUpPort
  <2> QED
    BY <2>1, <2>2
<1>14. ASSUME LookUpFails PROVE EnvoyResolvedAsDocumented'
  BY <1>14 DEF LookUpFails, Finish
<1>15. ASSUME Summarize PROVE EnvoyResolvedAsDocumented'
  <2>1. pc = "list" /\ tool' = tool
    BY <1>15 DEF Summarize
  <2> QED
    BY <2>1
<1>16. ASSUME NEW c \in todo, SummarizePort(c) PROVE EnvoyResolvedAsDocumented'
  BY <1>16 DEF SummarizePort
<1>17. ASSUME NEW c \in todo, SummarizePortFails(c) PROVE EnvoyResolvedAsDocumented'
  BY <1>17 DEF SummarizePortFails
<1>18. ASSUME ReturnListing PROVE EnvoyResolvedAsDocumented'
  BY <1>18 DEF ReturnListing, Finish
<1>19. ASSUME NEW p \in Pods, ChangePod(p) PROVE EnvoyResolvedAsDocumented'
  BY <1>19 DEF ChangePod, Changed
<1>20. ASSUME NEW k \in Configs, ChangeConfig(k) PROVE EnvoyResolvedAsDocumented'
  BY <1>20 DEF ChangeConfig, Changed
<1>21. ASSUME UNCHANGED vars PROVE EnvoyResolvedAsDocumented'
  BY <1>21 DEF vars, IsFirstReady, Selected, Selector, IsPortOf, Exact, Loose
<1> QED
  BY <1>1, <1>2, <1>3, <1>4, <1>5, <1>6, <1>7, <1>8, <1>9, <1>10, <1>11,
     <1>12, <1>13, <1>14, <1>15, <1>16, <1>17, <1>18, <1>19, <1>20, <1>21
  DEF Next, Call, EnvoyTarget, Look, Discover

\* The invariant is inductive.
LEMMA NextInv == IInv /\ [Next]_vars => IInv'
BY NextType, NextEnvoyInv, NextDAGInv, NextResolved DEF IInv

------------------------------------------------------------------------------
\* The invariant holds of every behaviour.
THEOREM Invariance == Spec => []IInv
BY InitInv, NextInv, PTL DEF Spec

\* Every variable keeps its type: the port of a target is always one that a
\* configuration, Contour's default or the caller gave.
THEOREM TypeCorrect == Spec => []TypeOK
<1>1. IInv => TypeOK
  BY DEF IInv
<1> QED
  BY <1>1, Invariance, PTL

\* Every envoy_* call that nothing disturbs is aimed at the documented pod and
\* port, however many pods, classes and configurations there are.
THEOREM EnvoyCorrect == Spec => []EnvoyResolvedAsDocumented
<1>1. IInv => EnvoyResolvedAsDocumented
  BY DEF IInv
<1> QED
  BY <1>1, Invariance, PTL

------------------------------------------------------------------------------
(* The failures of an envoy_* call.                                        *)

\* A call that has still to find a pod has none.
FailInv ==
  /\ EnvoyFailsForPodsOnly
  /\ tool = "envoy" /\ pc = "select" => pod = NoPod
  /\ tool = "envoy" /\ pc # "idle" => result = "none"

LEMMA NextFails == IInv /\ FailInv /\ [Next]_vars => FailInv'
<1> SUFFICES ASSUME IInv, FailInv, [Next]_vars PROVE FailInv'
  OBVIOUS
<1> USE DEF FailInv, EnvoyFailsForPodsOnly
<1>1. ASSUME NEW a \in Args, Call(a) PROVE FailInv'
  BY <1>1 DEF Call, EnvoyByURL, EnvoyByDefault, EnvoyByClass, EnvoyByPod, DAGUnclassed, DAG,
              Begin, EndAtOnce, Continue
<1>2. ASSUME ListClasses PROVE FailInv'
  BY <1>2 DEF ListClasses, Begin, Continue
<1>3. ASSUME ListFails PROVE FailInv'
  BY <1>3, Constants DEF ListFails, Finish, locals, IInv, EnvoyInv
<1>4. ASSUME NoReadyPod PROVE FailInv'
  BY <1>4 DEF NoReadyPod, Finish, locals, IInv, EnvoyInv
<1>5. ASSUME DeriveClass \/ UsePort \/ SelectReadyPod \/ LookUpPort \/ LookUpFails
      PROVE  FailInv'
  BY <1>5 DEF DeriveClass, UsePort, SelectReadyPod, LookUpPort, LookUpFails, Finish
<1>6. ASSUME Discover PROVE FailInv'
  BY <1>6 DEF Discover, Summarize, SummarizePort, SummarizePortFails, ReturnListing, Finish,
              IInv, EnvoyInv
<1>7. ASSUME NEW p \in Pods, ChangePod(p) PROVE FailInv'
  BY <1>7 DEF ChangePod, Changed, locals
<1>8. ASSUME NEW k \in Configs, ChangeConfig(k) PROVE FailInv'
  BY <1>8 DEF ChangeConfig, Changed, locals
<1>9. ASSUME UNCHANGED vars PROVE FailInv'
  BY <1>9 DEF vars, locals
<1> QED
  BY <1>1, <1>2, <1>3, <1>4, <1>5, <1>6, <1>7, <1>8, <1>9 DEF Next, EnvoyTarget, Look

\* An envoy_* call fails for want of a pod or of the list of pods, and for
\* nothing else, for any pods, classes, configurations and changes.
THEOREM EnvoyFailures == Spec => []EnvoyFailsForPodsOnly
<1>1. Init => FailInv
  BY DEF Init, FailInv, EnvoyFailsForPodsOnly
<1>2. FailInv => EnvoyFailsForPodsOnly
  BY DEF FailInv
<1> QED
  BY <1>1, <1>2, NextFails, Invariance, PTL DEF Spec

------------------------------------------------------------------------------
(* get_contour_dag.                                                        *)

\* get_contour_dag reaches the documented pod, and never a default port that
\* the configurations do not give.
THEOREM DAGCorrect == Spec => DAGResolvedAsDocumented
<1>1. ASSUME IInv, [Next]_vars, tool = "dag", pc # "idle", result' = "target"
      PROVE  /\ IsPortOf(port', class, "debugPort")
             /\ IF args.pod # NoPod THEN pod = args.pod
                                    ELSE settled => IsFirstReady(pod, "dag", class)
  <2>1. pc \in {"select", "port"} /\ result = "none"
    BY <1>1 DEF IInv, DAGInv
  <2>2. LookUpPort
    <3>1. ~Discover /\ ~ListClasses /\ \A a \in Args : ~Call(a)
      BY <2>1 DEF Discover, Summarize, SummarizePort, SummarizePortFails,
         ReturnListing, ListClasses, Call, Begin, EnvoyByURL, EnvoyByDefault,
         EnvoyByClass, EnvoyByPod, DAGUnclassed, DAG
    <3>2. ~EnvoyTarget /\ ~UNCHANGED vars
      BY <1>1, <2>1 DEF EnvoyTarget, DeriveClass, UsePort, vars
    <3>3. (\A p \in Pods : ~ChangePod(p)) /\ (\A k \in Configs : ~ChangeConfig(k))
      BY <1>1, <2>1 DEF ChangePod, ChangeConfig, Changed
    <3>4. Look => LookUpPort
      BY <1>1, <2>1
      DEF Look, ListFails, SelectReadyPod, NoReadyPod, LookUpFails, Finish
    <3> QED
      BY <1>1, <3>1, <3>2, <3>3, <3>4 DEF Next
  <2>3. IsPortOf(port', class, "debugPort")
    BY <1>1, <2>2, PortCorrect DEF LookUpPort, Field, IInv, TypeOK
  <2> QED
    BY <1>1, <2>2, <2>3 DEF IInv, DAGInv, LookUpPort
<1> QED
  BY <1>1, Invariance, PTL DEF Spec, DAGResolvedAsDocumented

------------------------------------------------------------------------------
(* A class's own configuration.                                            *)

\* The port n, when it replaces m, is not of a configuration with another
\* name if the class c has its own.
Kept(c, m, n) == n # m /\ n \in Configs /\ Exact(c) # {} => n \in Exact(c)
KeptByAll ==
  /\ Kept(class, port, port')
  /\ \A c \in DOMAIN summary \cap DOMAIN summary' :
       Kept(c, summary[c].port, summary'[c].port)

\* The two ports that no configuration gives are none of a configuration.
LEMMA DefaultUnset == DefaultPort \notin Configs /\ OverridePort \notin Configs
BY ConstantsAssumption

\* No step gives a class the port of a configuration that is not its own when
\* it has one of its own.
LEMMA NextKept == TypeOK /\ [Next]_vars => KeptByAll
<1> SUFFICES ASSUME TypeOK, [Next]_vars PROVE KeptByAll
  OBVIOUS
<1> USE DEF KeptByAll, cluster, locals, listing
<1>1. ASSUME NEW a \in Args, EnvoyByURL(a) PROVE KeptByAll
  BY <1>1, DefaultUnset DEF EnvoyByURL, Begin, EndAtOnce, Kept, Nothing
<1>2. ASSUME NEW a \in Args, EnvoyByDefault(a) PROVE KeptByAll
  BY <1>2, DefaultUnset DEF EnvoyByDefault, Begin, EndAtOnce, Kept, Nothing
<1>3. ASSUME NEW a \in Args, EnvoyByClass(a) PROVE KeptByAll
  BY <1>3, DefaultUnset DEF EnvoyByClass, Begin, Continue, Kept, Nothing
<1>4. ASSUME NEW a \in Args, EnvoyByPod(a) PROVE KeptByAll
  BY <1>4, DefaultUnset DEF EnvoyByPod, Begin, Continue, Kept, Nothing
<1>5. ASSUME NEW a \in Args, DAGUnclassed(a) PROVE KeptByAll
  BY <1>5, DefaultUnset DEF DAGUnclassed, Begin, EndAtOnce, Kept, Nothing
<1>6. ASSUME NEW a \in Args, DAG(a) PROVE KeptByAll
  BY <1>6, DefaultUnset DEF DAG, Begin, Continue, Kept, Nothing
<1>7. ASSUME ListClasses PROVE KeptByAll
  BY <1>7, DefaultUnset DEF ListClasses, Begin, Continue, Kept, Nothing
<1>8. ASSUME ListFails PROVE KeptByAll
  BY <1>8, DefaultUnset DEF ListFails, Finish, Kept, Nothing
<1>9. ASSUME SelectReadyPod PROVE KeptByAll
  BY <1>9, DefaultUnset DEF SelectReadyPod, Kept, Nothing
<1>10. ASSUME NoReadyPod PROVE KeptByAll
  BY <1>10, DefaultUnset DEF NoReadyPod, Finish, Kept, Nothing
<1>11. ASSUME DeriveClass PROVE KeptByAll
  BY <1>11, DefaultUnset DEF DeriveClass, Kept, Nothing
<1>12. ASSUME UsePort PROVE KeptByAll
  BY <1>12, DefaultUnset DEF UsePort, Finish, Kept
<1>13. ASSUME LookUpPort PROVE KeptByAll
  BY <1>13, PortCorrect DEF LookUpPort, Finish, Kept, TypeOK
<1>14. ASSUME LookUpFails PROVE KeptByAll
  BY <1>14, DefaultUnset DEF LookUpFails, Finish, Kept, Nothing
<1>15. ASSUME Summarize PROVE KeptByAll
  <2>1. port' = port /\ \A c \in DOMAIN summary' : summary'[c].port = DefaultPort
    BY <1>15 DEF Summarize
  <2> QED
    BY <2>1, DefaultUnset DEF Kept
<1>16. ASSUME NEW c \in todo, SummarizePort(c) PROVE KeptByAll
  <2>1. /\ port' = port
        /\ summary' = [summary EXCEPT ![c].port = PortsForIngressClass(c, "adminPort")]
    BY <1>16 DEF SummarizePort
  <2> QED
    BY <1>16, <2>1, PortCorrect DEF Kept, TypeOK, IsSummary, Summary
<1>17. ASSUME NEW c \in todo, SummarizePortFails(c) PROVE KeptByAll
  <2>1. port' = port /\ summary' = [summary EXCEPT ![c].port = DefaultPort]
    BY <1>17 DEF SummarizePortFails
  <2> QED
    BY <1>17, <2>1, DefaultUnset DEF Kept, TypeOK, IsSummary, Summary
<1>18. ASSUME ReturnListing PROVE KeptByAll
  BY <1>18, DefaultUnset DEF ReturnListing, Finish, Kept, Nothing
<1>19. ASSUME NEW p \in Pods, ChangePod(p) PROVE KeptByAll
  BY <1>19, DefaultUnset DEF ChangePod, Changed, Kept, Nothing
<1>20. ASSUME NEW k \in Configs, ChangeConfig(k) PROVE KeptByAll
  BY <1>20, DefaultUnset DEF ChangeConfig, Changed, Kept, Nothing
<1>21. ASSUME UNCHANGED vars PROVE KeptByAll
  BY <1>21, DefaultUnset DEF vars, Kept, Nothing
<1> QED
  BY <1>1, <1>2, <1>3, <1>4, <1>5, <1>6, <1>7, <1>8, <1>9, <1>10, <1>11,
     <1>12, <1>13, <1>14, <1>15, <1>16, <1>17, <1>18, <1>19, <1>20, <1>21
  DEF Next, Call, EnvoyTarget, Look, Discover

\* A class that has a configuration of its own gets no other's port, in any
\* tool, whatever happens to the cluster meanwhile.
THEOREM OwnConfig == Spec => OwnConfigWins
<1>1. KeptByAll => /\ port' # port /\ port' \in Configs /\ Exact(class) # {}
                        => port' \in Exact(class)
                   /\ \A c \in DOMAIN summary \cap DOMAIN summary' :
                        LET n == summary'[c].port
                        IN  n # summary[c].port /\ n \in Configs /\ Exact(c) # {}
                              => n \in Exact(c)
  BY DEF KeptByAll, Kept
<1> QED
  BY <1>1, NextKept, TypeCorrect, PTL DEF Spec, OwnConfigWins

------------------------------------------------------------------------------
(* What the listing reports and what the next call resolves.               *)

HasReady(c) == \E p \in Envoys \cap DOMAIN pods : Grouped(p) = c /\ pods[p].ready
PortOf(c)   == PortsForIngressClass(c, "adminPort")

\* s says which classes have ready pods; and the ports of the classes in done.
ShowsReady(s)       == \A c \in DOMAIN s : s[c].ready > 0 <=> HasReady(c)
ShowsPorts(s, done) == \A c \in done : s[c].port = PortOf(c)

\* A listing under way is right as far as it has come, if nothing disturbed it,
\* and what the client has of an earlier one is right.
ListingInv ==
  /\ pc = "summarize" /\ settled =>
       ShowsReady(summary) /\ ShowsPorts(summary, DOMAIN summary \ todo)
  /\ ShowsReady(listed) /\ ShowsPorts(listed, DOMAIN listed)

\* How an envoy_* call ends, and with which port of the several that IsPortOf
\* allows.
EndedInv ==
  tool = "envoy" /\ pc = "idle" =>
    /\ result \in {"url", "default", "target", "failed"}
    /\ settled /\ result = "target" /\ ~args.port =>
         \E c : c = ClassAsked /\ port = PortOf(c)

DInv == IInv /\ ListingInv /\ EndedInv

\* A step that keeps the cluster keeps what is said of it.
LEMMA SameCluster ==
  ASSUME UNCHANGED <<pods, configs>>, NEW c
  PROVE  HasReady(c)' = HasReady(c) /\ PortOf(c)' = PortOf(c)
<1>1. HasReady(c)' = HasReady(c)
  BY DEF HasReady, Grouped
<1>2. Exact(c)' = Exact(c) /\ Loose(c)' = Loose(c)
  BY DEF Exact, Loose
<1>3. matchIngressClassConfig(c)' = matchIngressClassConfig(c)
  BY <1>2 DEF matchIngressClassConfig
<1>4. PortOf(c)' = PortOf(c)
  BY <1>3 DEF PortOf, PortsForIngressClass
<1> QED
  BY <1>1, <1>4

\* Nothing is said by an empty listing.
LEMMA NothingShown ==
  ASSUME NEW s, s = Nothing
  PROVE  ShowsReady(s) /\ ShowsPorts(s, DOMAIN s)
BY DEF Nothing, ShowsReady, ShowsPorts

\* A call that begins, or a step of one that keeps to the cluster it finds,
\* leaves the last listing as it is.
LEMMA ListedStays ==
  ASSUME ListingInv, UNCHANGED <<pods, configs, listed>>
  PROVE  (ShowsReady(listed) /\ ShowsPorts(listed, DOMAIN listed))'
BY SameCluster DEF ListingInv, ShowsReady, ShowsPorts

\* Before the first call nothing is listed.
LEMMA InitListing == Init => ListingInv /\ EndedInv
<1> SUFFICES ASSUME Init PROVE ListingInv /\ EndedInv
  OBVIOUS
<1>1. pc = "idle" /\ tool = "none" /\ listed = Nothing
  BY DEF Init
<1> QED
  BY <1>1, NothingShown DEF ListingInv, EndedInv

\* A step from a place outside the listing to another, in the same cluster.
LEMMA OutsideListing ==
  ASSUME DInv, UNCHANGED <<pods, configs, listed>>, pc' # "summarize", EndedInv'
  PROVE  ListingInv' /\ EndedInv'
BY ListedStays DEF DInv, ListingInv

\* A call that begins.
LEMMA BeginListing ==
  ASSUME DInv, (\E a \in Args : Call(a)) \/ ListClasses
  PROVE  ListingInv' /\ EndedInv'
<1>1. UNCHANGED <<pods, configs, listed>>
  BY DEF Call, ListClasses, EnvoyByURL, EnvoyByDefault, EnvoyByClass, EnvoyByPod,
         DAGUnclassed, DAG, Begin, cluster
<1>2. pc' # "summarize"
  BY DEF Call, ListClasses, EnvoyByURL, EnvoyByDefault, EnvoyByClass, EnvoyByPod,
         DAGUnclassed, DAG, Begin, EndAtOnce, Continue
<1>3. tool' = "envoy" /\ pc' = "idle" => result' \in {"url", "default"}
  BY DEF Call, ListClasses, EnvoyByURL, EnvoyByDefault, EnvoyByClass, EnvoyByPod,
         DAGUnclassed, DAG, Begin, EndAtOnce, Continue
<1>4. EndedInv'
  BY <1>3 DEF EndedInv
<1> QED
  BY <1>1, <1>2, <1>4, OutsideListing

\* A step on the way to a target.
LEMMA TargetListing ==
  ASSUME DInv, EnvoyTarget \/ Look
  PROVE  ListingInv' /\ EndedInv'
<1> USE DEF cluster, locals, listing, Finish
<1>1. UNCHANGED <<pods, configs, listed, tool, args>>
  BY DEF EnvoyTarget, DeriveClass, UsePort, Look, ListFails, SelectReadyPod, NoReadyPod,
         LookUpPort, LookUpFails
<1>2. pc' # "summarize"
  BY DEF EnvoyTarget, DeriveClass, UsePort, Look, ListFails, SelectReadyPod, NoReadyPod,
         LookUpPort, LookUpFails
<1>3. ASSUME LookUpPort PROVE EndedInv'
  <2>1. ASSUME tool = "envoy", settled, ~args.port
        PROVE  \E c : c = ClassAsked' /\ port' = PortOf(c)'
    <3>1. class = ClassAsked /\ Field = "adminPort"
      BY <1>3, <2>1 DEF LookUpPort, DInv, IInv, EnvoyInv, Field
    <3>2. PICK c : c = class
      OBVIOUS
    <3>3. port' = PortOf(c)
      BY <1>3, <3>1, <3>2 DEF LookUpPort, PortOf
    <3>4. ClassAsked' = ClassAsked
      BY <1>1 DEF ClassAsked
    <3>5. PortOf(c)' = PortOf(c)
      BY <1>1, SameCluster
    <3> QED
      BY <3>1, <3>2, <3>3, <3>4, <3>5
  <2> QED
    BY <1>1, <1>3, <2>1 DEF LookUpPort, EndedInv
<1>4. ASSUME UsePort PROVE EndedInv'
  BY <1>1, <1>4 DEF UsePort, EndedInv
<1>5. ASSUME LookUpFails PROVE EndedInv'
  BY <1>1, <1>5 DEF LookUpFails, EndedInv
<1>6. ASSUME ListFails \/ NoReadyPod PROVE EndedInv'
  BY <1>1, <1>6 DEF ListFails, NoReadyPod, EndedInv
<1>7. ASSUME DeriveClass \/ SelectReadyPod PROVE EndedInv'
  BY <1>7 DEF DeriveClass, SelectReadyPod, EndedInv
<1> QED
  BY <1>1, <1>2, <1>3, <1>4, <1>5, <1>6, <1>7, OutsideListing DEF EnvoyTarget, Look

\* The listing counts the ready pods of a class, so that it says exactly which
\* classes have one.
LEMMA SummarizeShows ==
  ASSUME DInv, Summarize
  PROVE  ShowsReady(summary)'
<1> DEFINE envoys == Envoys \cap DOMAIN pods
           of(c)    == {p \in envoys : Grouped(p) = c}
           ready(c) == {p \in of(c) : pods[p].ready}
<1>1. /\ DOMAIN summary' = {Grouped(p) : p \in envoys}
      /\ \A c \in DOMAIN summary' : summary'[c].ready = Cardinality(ready(c))
      /\ UNCHANGED <<pods, configs>>
  BY DEF Summarize, cluster
<1>2. ASSUME NEW c
      PROVE  Cardinality(ready(c)) > 0 <=> HasReady(c)
  <2>1. IsFiniteSet(ready(c))
    BY ConstantsAssumption, FS_Subset DEF Pods
  <2>2. Cardinality(ready(c)) \in Nat /\ (Cardinality(ready(c)) = 0 <=> ready(c) = {})
    <3> HIDE DEF ready
    <3> QED
      BY <2>1, FS_CardinalityType, FS_EmptySet
  <2>3. ready(c) # {} <=> HasReady(c)
    BY DEF HasReady
  <2> HIDE DEF ready
  <2> QED
    BY <2>2, <2>3
<1>3. \A c : HasReady(c)' = HasReady(c)
  BY <1>1, SameCluster
<1> HIDE DEF ready
<1> QED
  BY <1>1, <1>2, <1>3 DEF ShowsReady

\* A port that is looked up is that of its class, and no count changes.
LEMMA SetPort ==
  ASSUME TypeOK, NEW c \in todo, NEW n, UNCHANGED <<pods, configs>>,
         summary' = [summary EXCEPT ![c].port = n], todo' = todo \ {c}
  PROVE  /\ DOMAIN summary' = DOMAIN summary /\ summary'[c].port = n
         /\ \A d \in DOMAIN summary : /\ summary'[d].ready = summary[d].ready
                                      /\ d # c => summary'[d] = summary[d]
         /\ ShowsReady(summary) => ShowsReady(summary)'
<1>1. c \in DOMAIN summary /\ summary \in [DOMAIN summary -> Summary]
  BY DEF TypeOK, IsSummary
<1>2. /\ DOMAIN summary' = DOMAIN summary /\ summary'[c].port = n
      /\ \A d \in DOMAIN summary : /\ summary'[d].ready = summary[d].ready
                                   /\ d # c => summary'[d] = summary[d]
  BY <1>1 DEF Summary
<1>3. \A d : HasReady(d)' = HasReady(d)
  BY SameCluster
<1>4. ShowsReady(summary) => ShowsReady(summary)'
  BY <1>2, <1>3 DEF ShowsReady
<1> QED
  BY <1>2, <1>4

\* A step of the listing.
LEMMA DiscoverListing ==
  ASSUME DInv, Discover
  PROVE  ListingInv' /\ EndedInv'
<1> USE DEF cluster, locals, listing
<1>1. UNCHANGED <<pods, configs>> /\ tool' = tool /\ pc \in {"list", "summarize"}
  BY DEF Discover, Summarize, SummarizePort, SummarizePortFails, ReturnListing
<1>2. tool # "envoy" /\ tool # "dag"
  BY <1>1 DEF DInv, IInv, EnvoyInv, DAGInv
<1>3. EndedInv'
  BY <1>1, <1>2 DEF EndedInv
<1>4. ASSUME Summarize PROVE ListingInv'
  <2>1. ShowsReady(summary)' /\ ShowsPorts(summary, DOMAIN summary \ todo)'
    BY <1>4, SummarizeShows DEF Summarize, ShowsPorts
  <2>2. ShowsReady(listed)' /\ ShowsPorts(listed, DOMAIN listed)'
    BY <1>1, <1>4, ListedStays DEF Summarize, DInv
  <2> QED
    BY <2>1, <2>2 DEF ListingInv
<1>5. ASSUME NEW c \in todo, SummarizePort(c) PROVE ListingInv'
  <2>1. /\ summary' = [summary EXCEPT ![c].port = PortOf(c)] /\ todo' = todo \ {c}
        /\ pc = "summarize" /\ UNCHANGED <<settled, pc, listed>>
    BY <1>5 DEF SummarizePort, PortOf
  <2>2. TypeOK /\ ListingInv
    BY DEF DInv, IInv
  <2>3. /\ DOMAIN summary' = DOMAIN summary /\ summary'[c].port = PortOf(c)
        /\ \A d \in DOMAIN summary : d # c => summary'[d] = summary[d]
        /\ ShowsReady(summary) => ShowsReady(summary)'
    BY <1>1, <2>1, <2>2, SetPort
  <2>4. settled => ShowsReady(summary)' /\ ShowsPorts(summary, DOMAIN summary \ todo)'
    <3>1. \A d : PortOf(d)' = PortOf(d)
      BY <1>1, SameCluster
    <3> QED
      BY <2>1, <2>2, <2>3, <3>1 DEF ListingInv, ShowsPorts
  <2> QED
    BY <1>1, <2>1, <2>2, <2>4, ListedStays DEF ListingInv
<1>6. ASSUME NEW c \in todo, SummarizePortFails(c) PROVE ListingInv'
  <2>1. ~settled' /\ UNCHANGED <<pc, listed>>
    BY <1>6 DEF SummarizePortFails
  <2> QED
    BY <1>1, <2>1, ListedStays DEF DInv, ListingInv
<1>7. ASSUME ReturnListing PROVE ListingInv'
  <2>1. /\ pc = "summarize" /\ pc' = "idle" /\ todo = {}
        /\ listed' = IF settled THEN summary ELSE Nothing
    BY <1>7 DEF ReturnListing, Finish
  <2>2. \A d : HasReady(d)' = HasReady(d) /\ PortOf(d)' = PortOf(d)
    BY <1>1, SameCluster
  <2>3. ShowsReady(listed)' /\ ShowsPorts(listed, DOMAIN listed)'
    <3>1. CASE settled
      <4>1. ShowsReady(summary) /\ ShowsPorts(summary, DOMAIN summary) /\ listed' = summary
        BY <2>1, <3>1 DEF DInv, ListingInv
      <4> QED
        BY <2>2, <4>1 DEF ShowsReady, ShowsPorts
    <3>2. CASE ~settled
      BY <2>1, <3>2 DEF Nothing, ShowsReady, ShowsPorts
    <3> QED
      BY <3>1, <3>2
  <2> QED
    BY <2>1, <2>3 DEF ListingInv
<1> QED
  BY <1>3, <1>4, <1>5, <1>6, <1>7 DEF Discover

\* A change of the cluster: the client is told nothing that it could hold
\* against a later call.
LEMMA ChangeListing ==
  ASSUME DInv, Changed
  PROVE  ListingInv' /\ EndedInv'
<1>1. /\ listed' = Nothing /\ settled' = FALSE
      /\ UNCHANGED <<tool, pc, result>>
  BY DEF Changed
<1>2. ShowsReady(listed)' /\ ShowsPorts(listed, DOMAIN listed)'
  BY <1>1 DEF Nothing, ShowsReady, ShowsPorts
<1> QED
  BY <1>1, <1>2 DEF DInv, ListingInv, EndedInv

LEMMA NextListing == DInv /\ [Next]_vars => DInv'
<1> SUFFICES ASSUME DInv, [Next]_vars PROVE ListingInv' /\ EndedInv'
  BY NextInv DEF DInv
<1>1. ASSUME UNCHANGED vars PROVE ListingInv' /\ EndedInv'
  <2>1. /\ UNCHANGED <<pods, configs, listed, tool, args, pc, result, settled, port>>
        /\ UNCHANGED <<summary, todo>>
    BY <1>1 DEF vars, cluster, locals, listing
  <2>2. \A d : HasReady(d)' = HasReady(d) /\ PortOf(d)' = PortOf(d)
    BY <2>1, SameCluster
  <2>3. ClassAsked' = ClassAsked
    BY <2>1 DEF ClassAsked
  <2>4. EndedInv'
    BY <2>1, <2>2, <2>3 DEF DInv, EndedInv
  <2>5. ListingInv'
    BY <2>1, <2>2 DEF DInv, ListingInv, ShowsReady, ShowsPorts
  <2> QED
    BY <2>4, <2>5
<1>2. ASSUME NEW p \in Pods, ChangePod(p) PROVE ListingInv' /\ EndedInv'
  BY <1>2, ChangeListing DEF ChangePod
<1>3. ASSUME NEW k \in Configs, ChangeConfig(k) PROVE ListingInv' /\ EndedInv'
  BY <1>3, ChangeListing DEF ChangeConfig
<1> QED
  BY <1>1, <1>2, <1>3, BeginListing, TargetListing, DiscoverListing DEF Next

\* A call that ends, and the listing of its class.
LEMMA AgreesFromInv == DInv => DiscoveryAgrees
<1> SUFFICES ASSUME DInv, settled, pc = "idle", ListedClass, args.class # Unlabeled
             PROVE  /\ result = "target" <=> listed[args.class].ready > 0
                    /\ result = "target" => port = listed[args.class].port
  BY DEF DiscoveryAgrees
<1>1. PICK c : c = args.class
  OBVIOUS
<1>2. /\ tool = "envoy" /\ c \in DOMAIN listed /\ c # Unlabeled
      /\ args.pod = NoPod /\ args.url = FALSE /\ args.port = FALSE
  BY <1>1 DEF ListedClass, NoArgs
<1>3. c # NoClass /\ ClassAsked = c
  <2>1. c \in (Labels \ {NoClass}) \cup {Unlabeled}
    BY <1>2 DEF DInv, IInv, TypeOK, IsSummary
  <2> QED
    BY <1>1, <1>2, <2>1 DEF ClassAsked
<1>4. (listed[c].ready > 0 <=> HasReady(c)) /\ listed[c].port = PortOf(c)
  BY <1>2 DEF DInv, ListingInv, ShowsReady, ShowsPorts
<1>5. result \in {"target", "failed"} /\ (result = "target" => port = PortOf(c))
  BY <1>2, <1>3 DEF DInv, EndedInv, IInv, EnvoyResolvedAsDocumented
<1>6. result = "target" => HasReady(c)
  <2>1. result = "target" => IsFirstReady(pod, "envoy", c)
    BY <1>2, <1>3 DEF DInv, IInv, EnvoyResolvedAsDocumented
  <2> QED
    BY <1>2, <1>3, <2>1 DEF IsFirstReady, Selected, Selector, HasReady, Grouped
<1>7. result = "failed" => ~HasReady(c)
  <2> DEFINE ready == {p \in Selected("envoy", c) : pods[p].ready}
  <2> SUFFICES ASSUME result = "failed", HasReady(c) PROVE FALSE
    OBVIOUS
  <2>1. ready # {}
    BY <1>2, <1>3 DEF HasReady, Grouped, Selected, Selector
  <2>2. ready \subseteq Nat /\ ready \subseteq Pods
    BY ConstantsAssumption DEF Selected, Selector, Pods
  <2>3. Min(ready) \in ready /\ \A q \in ready : Min(ready) <= q
    <3> HIDE DEF ready
    <3> QED
      BY <2>1, <2>2, MinOf
  <2>4. PICK p : p = Min(ready)
    OBVIOUS
  <2>5. IsFirstReady(p, "envoy", c) /\ p \in Pods
    BY <2>2, <2>3, <2>4 DEF IsFirstReady
  <2> QED
    BY <1>2, <1>3, <2>5 DEF DInv, IInv, EnvoyResolvedAsDocumented
<1> QED
  BY <1>1, <1>4, <1>5, <1>6, <1>7

\* What list_envoy_ingress_classes told of a class holds of the next call with
\* it if nothing changed: it has a target exactly if ready pods were counted,
\* on the port reported, for any pods, classes and configurations.
THEOREM Discovery == Spec => []DiscoveryAgrees
<1>1. Init => DInv
  BY InitInv, InitListing DEF DInv
<1> QED
  BY <1>1, NextListing, AgreesFromInv, PTL DEF Spec
=============================================================================
