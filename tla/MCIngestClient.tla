--------------------------- MODULE MCIngestClient ---------------------------
(* Instances of IngestClient for TLC: liveness is checked, so no symmetry. *)
EXTENDS IngestClient
=============================================================================
