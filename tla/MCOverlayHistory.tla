-------------------------- MODULE MCOverlayHistory --------------------------
(* The instance of MCOverlayStore, with the fork's past remembered. *)
EXTENDS MCOverlayStore, OverlayHistory
=============================================================================
