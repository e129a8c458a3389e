------------------------------ MODULE MCSession ------------------------------
(***************************************************************************)
(* Instances of Session for TLC.                                           *)
(***************************************************************************)
EXTENDS Session

\* Current-thread runtimes of both kinds, a prompt runtime with threads, and one
\* with threads whose only race is in the signaling layer.
AnyRuntime ==
  {r \in [preemptive : BOOLEAN, prompt : BOOLEAN, racing : BOOLEAN] :
     /\ r.preemptive \/ r.racing => r.prompt
     /\ ~(r.preemptive /\ r.racing)}

\* The runtime with the fewest interleavings.
CurrentThread == {[preemptive |-> FALSE, prompt |-> TRUE, racing |-> FALSE]}
=============================================================================
