----------------------------- MODULE MCRetrieval -----------------------------
(* Retrieval for TLC: the retrievals are model values of the configuration. *)
EXTENDS Retrieval
=============================================================================
