-------------------------- MODULE MCNativeRequests --------------------------
(***************************************************************************)
(* Instances of NativeRequests for TLC.                                    *)
(***************************************************************************)
EXTENDS NativeRequests
=============================================================================
