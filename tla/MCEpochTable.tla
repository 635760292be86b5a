---------------------------- MODULE MCEpochTable ----------------------------
(* Model value for the run of EpochTable. *)
EXTENDS EpochTable

CONSTANT r1
=============================================================================
