-------------------------- MODULE MCSessionControl --------------------------
(***************************************************************************)
(* Instances of SessionControl for TLC.                                    *)
(***************************************************************************)
EXTENDS SessionControl, TLC

CONSTANTS r1, k1

\* Nobody calls close from a request handler, or the handler of r1 does.
Outside == [c \in Closers |-> None]
OnceInHandler == [c \in Closers |-> IF c = k1 THEN r1 ELSE None]

\* Operations, requests and calls of close from outside are each interchangeable.
ControlSymmetry == Permutations(Ops) \cup Permutations(Requests) \cup Permutations(Closers)
=============================================================================
