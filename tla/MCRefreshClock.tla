--------------------------- MODULE MCRefreshClock ---------------------------
(* RefreshClock on small instances; all there is to choose is in the configurations. *)
EXTENDS RefreshClock
=============================================================================
