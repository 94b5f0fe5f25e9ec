------------------------ MODULE MCHistorianService --------------------------
(* An instance of HistorianService for TLC; the constants are in the .cfg. *)
EXTENDS HistorianService
=============================================================================
