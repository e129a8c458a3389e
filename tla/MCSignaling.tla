---------------------------- MODULE MCSignaling ----------------------------
(***************************************************************************)
(* Instances of Signaling for TLC: how many dApps and wallets share the    *)
(* topic, and whose URL each wallet was given.                             *)
(***************************************************************************)
EXTENDS Signaling, TLC

CONSTANTS h1, h2, c1, c2, c3

\* Every wallet was given the URL of h1.
ScanFirst == [c \in Clients |-> h1]

\* Handlers are interchangeable, and so are wallets with the same URL and valid
\* capabilities.
Symmetry == Permutations(Handlers) \cup Permutations(Clients \ InvalidInfo)
=============================================================================
