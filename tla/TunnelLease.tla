----------------------------- MODULE TunnelLease -----------------------------
(***************************************************************************)
(* What the server promises about one remote request, with the goroutines  *)
(* and the channels left out: a call is asked once and answered once; it   *)
(* may lease one tunnel, which it gives up by the time it is answered; and *)
(* an answer is an error, or comes from the endpoint that was asked for,   *)
(* through the tunnel if that is a pod, or came after the tunnel had ended. *)
(***************************************************************************)
CONSTANTS Calls, Pods, DirectURL, DefaultURL, NoTarget, Unanswered, Failed

VARIABLES
  phase,  \* phase[c]: "idle", "pending" or "answered"
  target, \* target[c]: what the call asks for
  lease,  \* lease[c]: "none", "held", "ending" (given up) or "ended"
  reply   \* reply[c]: what the call was answered

vars == <<phase, target, lease, reply>>

Init ==
  /\ phase  = [c \in Calls |-> "idle"]
  /\ target = [c \in Calls |-> NoTarget]
  /\ lease  = [c \in Calls |-> "none"]
  /\ reply  = [c \in Calls |-> Unanswered]

\* The endpoint a target stands for.
Endpoint(t) == IF t = NoTarget THEN DefaultURL ELSE t

Ask(c, t) ==
  /\ phase[c] = "idle"
  /\ phase'  = [phase EXCEPT ![c] = "pending"]
  /\ target' = [target EXCEPT ![c] = t]
  /\ UNCHANGED <<lease, reply>>

Open(c) ==
  /\ phase[c] = "pending" /\ target[c] \in Pods /\ lease[c] = "none"
  /\ lease' = [lease EXCEPT ![c] = "held"]
  /\ UNCHANGED <<phase, target, reply>>

\* The tunnel ends: it broke, or it was given up.
End(c) ==
  /\ lease[c] \in {"held", "ending"}
  /\ lease' = [lease EXCEPT ![c] = "ended"]
  /\ UNCHANGED <<phase, target, reply>>

Answer(c, r) ==
  /\ phase[c] = "pending"
  /\ \/ r = Failed
     \/ r = Endpoint(target[c]) /\ (r \in Pods => lease[c] # "none")
     \/ r \in Pods /\ lease[c] = "ended"
  /\ phase' = [phase EXCEPT ![c] = "answered"]
  /\ reply' = [reply EXCEPT ![c] = r]
  /\ lease' = [lease EXCEPT ![c] = IF @ = "held" THEN "ending" ELSE @]
  /\ UNCHANGED target

Next ==
  \E c \in Calls :
    \/ \E t \in Pods \cup {DirectURL, NoTarget} : Ask(c, t)
    \/ Open(c)
    \/ End(c)
    \/ \E r \in Pods \cup {DirectURL, DefaultURL, Failed} : Answer(c, r)

Spec == Init /\ [][Next]_vars
==============================================================================
