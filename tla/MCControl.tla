------------------------------- MODULE MCControl -------------------------------
(* Instances of Control for TLC.                                           *)
EXTENDS Control

CONSTANTS r1, r2, v1, v2, c1, c2, p1, p2, p3

=============================================================================
