----------------------------- MODULE MCRendezvous -----------------------------
(***************************************************************************)
(* Instances of Rendezvous for TLC.                                        *)
(***************************************************************************)
EXTENDS Rendezvous
=============================================================================
