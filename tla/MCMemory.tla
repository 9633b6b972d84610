------------------------------- MODULE MCMemory -------------------------------
(* Instances of Memory for TLC.                                            *)
EXTENDS Memory, TLC

\* Clients are interchangeable; the two texts are not.
ClientSymmetry == Permutations(Clients)

=============================================================================
