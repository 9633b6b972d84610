------------------------------ MODULE MCIngest ------------------------------
(* Instances of Ingest for TLC.  No symmetry: the files of an instance     *)
(* differ (ignored, deletable), and most runs check liveness.              *)
EXTENDS Ingest, TLC

=============================================================================
