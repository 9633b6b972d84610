------------------------------- MODULE MCQuery -------------------------------
(* Instances of Query for TLC.                                             *)
EXTENDS Query

CONSTANTS f1, f2, s1, s2, k1, k2, k3, d1, d2, o1

MCHome == s1 :> f1 @@ s2 :> f2
MCNamed == {{s1, s2}}
MCImports == {<<f1, f2>>}
MCCalls == {<<s1, s2>>}

\* A chunk of each file, and one more.
MCChunkOf == k1 :> f1 @@ k2 :> f2 @@ k3 :> f1
MCLine == k1 :> 1 @@ k2 :> 1 @@ k3 :> 2

\* A decision about a file, one about the repository, an observation about a
\* symbol.
MCKind == d1 :> "decisions" @@ d2 :> "decisions" @@ o1 :> "observations"
MCAbout == d1 :> {f1} @@ d2 :> {} @@ o1 :> {s2}

\* A bonus of 0.02, and one of 0.03 that is added to it.
MCPriors == [Files -> {0, 7564}] \cup {f1 :> 18910 @@ f2 :> 7564}

\* More is fetched than is shown.
MCMost == [p \in Parts |-> IF p = "chunks" THEN 1 ELSE 2]

MCWeight == [p \in Parts |-> IF p = "docs_long" THEN 3 ELSE 1]

=============================================================================
