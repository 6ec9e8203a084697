----------------------------- MODULE MCRetrySpool -----------------------------
(* RetrySpool for TLC. *)
EXTENDS RetrySpool
=============================================================================
