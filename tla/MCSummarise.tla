------------------------------ MODULE MCSummarise ------------------------------
(* Instances of Summarise for TLC: bodies of different sizes, and two      *)
(* overloads of one method.                                                *)
EXTENDS Summarise, TLC

CONSTANTS s1, s2, s3, m, f

MCNode == s1 :> m @@ s2 :> f @@ s3 :> m
MCBigger == s1 :> {} @@ s2 :> {s1} @@ s3 :> {s1, s2}

=============================================================================
