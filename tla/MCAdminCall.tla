----------------------------- MODULE MCAdminCall -----------------------------
(***************************************************************************)
(* Small instances of AdminCall for TLC.                                   *)
(***************************************************************************)
EXTENDS AdminCall, TLC

\* Calls, pods and local ports are interchangeable: no action and no safety
\* property tells one from another.
Symmetry ==
  Permutations(Calls) \cup Permutations(Pods) \cup Permutations(LocalPorts)
==============================================================================
