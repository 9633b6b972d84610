------------------------------ MODULE MCLspClient ------------------------------
(* Instances of LspClient for TLC.  Nothing is interchangeable: ids are     *)
(* given out in order.                                                      *)
EXTENDS LspClient, TLC

=============================================================================
