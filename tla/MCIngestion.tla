------------------------------ MODULE MCIngestion ------------------------------
(* Small instances of Ingestion for TLC: uploads and deletes of one collection. *)
EXTENDS Ingestion
================================================================================
