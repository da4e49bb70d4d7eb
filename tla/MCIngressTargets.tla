--------------------------- MODULE MCIngressTargets ---------------------------
(***************************************************************************)
(* Small instances of IngressTargets for TLC: two classes, the words of    *)
(* one being among those of the other, and the configuration of each.      *)
(***************************************************************************)
EXTENDS IngressTargets, TLC

Private    == <<"private">>
OdePrivate == <<"ode", "private">>

\* In the order of their names.
MCConfigName ==
  1 :> <<"contour", "ode", "private", "configuration">> @@
  2 :> <<"contour", "private", "configuration">>

MCLabels == {Private, OdePrivate, NoClass}
MCAsked  == {Private, NoClass, Unlabeled}

\* Each sets one of the two ports and leaves the other to its default.
MCSettings == {{"adminPort"}, {"debugPort"}}
==============================================================================
