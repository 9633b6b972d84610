------------------------------ MODULE Query_proof ------------------------------
(***************************************************************************)
(* Proofs about Query.                                                     *)
(***************************************************************************)
EXTENDS Query, FiniteSetTheorems, SequenceTheorems, TLAPS

-----------------------------------------------------------------------------
(* Lists.                                                                  *)

\* An arrangement of a finite set lists each member once.
LEMMA Arrangement ==
    ASSUME NEW S, IsFiniteSet(S), NEW q \in SetToSeqs(S)
    PROVE  /\ q \in Seq(S) /\ ToSet(q) = S
           /\ \A i, j \in DOMAIN q : q[i] = q[j] => i = j
<1> DEFINE n == Cardinality(S)
<1>1. n \in Nat
  BY FS_CardinalityType
<1>2. /\ q \in [1..n -> S]
      /\ \A i, j \in 1..n : i # j => q[i] # q[j]
  BY DEF SetToSeqs
<1>3. q \in Seq(S) /\ DOMAIN q = 1..n
  BY <1>1, <1>2, IsASeq
<1>4. ToSet(q) = S
  <2>1. ToSet(q) \subseteq S
    BY <1>2 DEF ToSet
  <2>2. ToSet(q) # S => FALSE
    <3> SUFFICES ASSUME ToSet(q) # S PROVE FALSE
      OBVIOUS
    <3>0. /\ IsFiniteSet(ToSet(q)) /\ Cardinality(ToSet(q)) <= n
          /\ Cardinality(ToSet(q)) # n
      BY <2>1, FS_Subset
    <3>1. IsFiniteSet(ToSet(q)) /\ Cardinality(ToSet(q)) < n
      BY <1>1, <3>0, FS_CardinalityType
    <3>2. IsFiniteSet(1..n) /\ Cardinality(1..n) = n
      BY <1>1, FS_Interval
    <3>3. q \in [1..n -> ToSet(q)]
      BY <1>2 DEF ToSet
    <3>4. \E i, j \in 1..n : i # j /\ q[i] = q[j]
      BY <3>1, <3>2, <3>3, FS_PigeonHole
    <3>5. QED
      BY <3>4, <1>2
  <2>3. QED
    BY <2>2
<1>5. QED
  BY <1>2, <1>3, <1>4

\* The members of a list are what stands at its places.
LEMMA Elements ==
    ASSUME NEW S, NEW q \in Seq(S)
    PROVE  ToSet(q) \subseteq S /\ \A x : x \in ToSet(q) <=> \E i \in 1..Len(q) : q[i] = x
<1>1. q \in [1..Len(q) -> S]
  BY LenProperties
<1>2. QED
  BY <1>1 DEF ToSet

\* The empty list has no members.
LEMMA NoElements == ToSet(<<>>) = {}
BY DEF ToSet

\* The first n of a list are a list of members of it (the slices of the code).
LEMMA TopType ==
    ASSUME NEW S, NEW q \in Seq(S), NEW n \in Nat
    PROVE  Top(q, n) \in Seq(S) /\ ToSet(Top(q, n)) \subseteq ToSet(q)
<1> DEFINE m == IF n < Len(q) THEN n ELSE Len(q)
<1>1. Len(q) \in Nat /\ m \in 0..Len(q) /\ Top(q, n) = SubSeq(q, 1, m)
  BY LenProperties DEF Top
<1>2. /\ SubSeq(q, 1, m) \in Seq(S) /\ Len(SubSeq(q, 1, m)) = m
      /\ \A i \in 1..m : SubSeq(q, 1, m)[i] = q[i]
  BY <1>1
<1>3. ASSUME NEW x \in ToSet(Top(q, n))
      PROVE  x \in ToSet(q)
  <2>1. PICK i \in 1..m : Top(q, n)[i] = x
    <3>1. Top(q, n) \in Seq(S) /\ Len(Top(q, n)) = m
      BY <1>1, <1>2
    <3>2. \E i \in 1..Len(Top(q, n)) : Top(q, n)[i] = x
      BY <3>1, Elements
    <3>3. QED
      BY <3>1, <3>2
  <2>2. q[i] = x /\ i \in 1..Len(q)
    BY <1>1, <1>2, <2>1
  <2>3. QED
    BY <2>2, Elements
<1>4. QED
  BY <1>1, <1>2, <1>3

\* Two lists, one after the other, have the members of both.
LEMMA Joined ==
    ASSUME NEW S, NEW p \in Seq(S), NEW q \in Seq(S)
    PROVE  p \o q \in Seq(S) /\ ToSet(p \o q) = ToSet(p) \cup ToSet(q)
<1>1. /\ p \o q \in Seq(S) /\ Len(p \o q) = Len(p) + Len(q)
      /\ \A i \in 1..Len(p) + Len(q) :
            (p \o q)[i] = IF i <= Len(p) THEN p[i] ELSE q[i - Len(p)]
      /\ Len(p) \in Nat /\ Len(q) \in Nat
  BY ConcatProperties, LenProperties
<1>2. ASSUME NEW x, x \in ToSet(p) \cup ToSet(q)
      PROVE  x \in ToSet(p \o q)
  <2>1. CASE x \in ToSet(p)
    <3>1. PICK i \in 1..Len(p) : p[i] = x
      BY <2>1, Elements
    <3>2. i \in 1..Len(p \o q) /\ (p \o q)[i] = x
      BY <1>1, <3>1
    <3>3. QED
      BY <3>2, <1>1, Elements
  <2>2. CASE x \in ToSet(q)
    <3>1. PICK i \in 1..Len(q) : q[i] = x
      BY <2>2, Elements
    <3>2. Len(p) + i \in 1..Len(p \o q) /\ (p \o q)[Len(p) + i] = x
      BY <1>1, <3>1
    <3>3. QED
      BY <3>2, <1>1, Elements
  <2>3. QED
    BY <1>2, <2>1, <2>2
<1>3. ASSUME NEW x, x \in ToSet(p \o q)
      PROVE  x \in ToSet(p) \cup ToSet(q)
  <2>1. PICK i \in 1..Len(p) + Len(q) : (p \o q)[i] = x
    BY <1>1, <1>3, Elements
  <2>2. CASE i <= Len(p)
    BY <1>1, <2>1, <2>2, Elements
  <2>3. CASE ~(i <= Len(p))
    <3>1. i - Len(p) \in 1..Len(q) /\ q[i - Len(p)] = x
      BY <1>1, <2>1, <2>3
    <3>2. QED
      BY <3>1, Elements
  <2>4. QED
    BY <2>2, <2>3
<1>4. QED
  BY <1>1, <1>2, <1>3

\* What a list names, each once and in order, is one of its arrangements.
LEMMA DistinctType ==
    ASSUME NEW S, IsFiniteSet(S), NEW q \in Seq(S), NEW r \in Distinct(q)
    PROVE  /\ r \in Seq(S) /\ ToSet(r) = ToSet(q)
           /\ \A i, j \in DOMAIN r : r[i] = r[j] => i = j
<1>1. ToSet(q) \subseteq S /\ IsFiniteSet(ToSet(q))
  BY Elements, FS_Subset
<1>2. r \in SetToSeqs(ToSet(q))
  BY DEF Distinct
<1>3. r \in Seq(ToSet(q))
  BY <1>1, <1>2, Arrangement
<1>4. r \in Seq(S)
  BY <1>1, <1>3, SeqMonotonic
<1>5. QED
  BY <1>1, <1>2, <1>4, Arrangement

\* The same of part of a finite set.
LEMMA Listing ==
    ASSUME NEW S, IsFiniteSet(S), NEW T \in SUBSET S, NEW q \in SetToSeqs(T)
    PROVE  /\ q \in Seq(S) /\ ToSet(q) = T
           /\ \A i, j \in DOMAIN q : q[i] = q[j] => i = j
<1>1. IsFiniteSet(T)
  BY FS_Subset
<1>2. q \in Seq(T)
  BY <1>1, Arrangement
<1>3. q \in Seq(S)
  BY <1>2, SeqMonotonic
<1>4. QED
  BY <1>1, <1>3, Arrangement

\* Rank fusion lists files of the two lists and no others.
LEMMA FusedType ==
    ASSUME found \in Seq(Files), fulltext \in Seq(Files), IsFiniteSet(Files),
           NEW P, NEW q \in Fused(P)
    PROVE  /\ q \in Seq(Files) /\ ToSet(q) = ToSet(found) \cup ToSet(fulltext)
           /\ \A i, j \in DOMAIN q : q[i] = q[j] => i = j
<1>1. /\ found \o fulltext \in Seq(Files)
      /\ ToSet(found \o fulltext) = ToSet(found) \cup ToSet(fulltext)
  BY Joined
<1>2. ToSet(found \o fulltext) \in SUBSET Files
  BY <1>1, Elements
<1>3. q \in SetToSeqs(ToSet(found \o fulltext))
  BY DEF Fused
<1>4. QED
  BY <1>1, <1>2, <1>3, Listing

\* A query with a LIMIT returns rows it was asked for, and none if there are none.
LEMMA RowsAre ==
    ASSUME NEW S, NEW n \in Nat
    PROVE  /\ \A T \in Rows(S, n) : T \in SUBSET S
           /\ S = {} => {} \in Rows(S, n)
<1>1. Cardinality({}) = 0
  BY FS_EmptySet
<1>2. QED
  BY <1>1 DEF Rows

\* So does the one that takes the chunks first in their files.
LEMMA EarliestAre ==
    ASSUME NEW S
    PROVE  /\ \A T \in Earliest(S) : T \in SUBSET S
           /\ S = {} => {} \in Earliest(S)
<1>1. ChunkLimit \in Nat
  BY QueryAssumption
<1>2. QED
  BY <1>1, RowsAre DEF Earliest

-----------------------------------------------------------------------------
(* Types.                                                                  *)

\* The kinds of facts of the memory layer, in the order they are read.
LEMMA MemoryKindsAre ==
    ToSet(MemoryKinds) = {"decisions", "observations", "notes", "docs"}
<1>1. DOMAIN MemoryKinds = 1..4
      /\ MemoryKinds[1] = "decisions" /\ MemoryKinds[2] = "observations"
      /\ MemoryKinds[3] = "notes" /\ MemoryKinds[4] = "docs"
  BY DEF MemoryKinds
<1>2. \A x : x \in ToSet(MemoryKinds) <=> \E i \in 1..4 : MemoryKinds[i] = x
  BY <1>1 DEF ToSet
<1>3. 1..4 = {1, 2, 3, 4}
  OBVIOUS
<1>4. QED
  BY <1>1, <1>2, <1>3

\* Whatever kind of fact is due, the stage after it is one of the request.
LEMMA AfterType ==
    ASSUME NEW kind \in ToSet(MemoryKinds)
    PROVE  /\ kind \in Stages
           /\ After(kind) \in {"observations", "vector", "docs", "cross_repo"}
           /\ After(kind) \in Stages
<1>1. kind \in {"decisions", "observations", "notes", "docs"}
  BY MemoryKindsAre
<1>2. /\ kind = "decisions" => After(kind) = "observations"
      /\ kind = "observations" => After(kind) = "vector"
      /\ kind = "notes" => After(kind) = "docs"
      /\ kind = "docs" => After(kind) = "cross_repo"
  BY DEF After
<1>3. {"decisions", "observations", "notes", "docs", "vector", "cross_repo"}
         \subseteq Stages
  BY MemoryKindsAre DEF Stages
<1>4. QED
  BY <1>1, <1>2, <1>3

\* What the fields of a bundle are.
LEMMA BundleParts ==
    ASSUME NEW b \in Bundles
    PROVE  /\ b.files \in Seq(Files) /\ b.symbols \in Seq(Symbols)
           /\ b.chunks \in Seq(Chunks) /\ b.facts \subseteq Facts
           /\ \A v \in SUBSET Services : [b EXCEPT !.services = v] \in Bundles
           /\ \A v \in Seq(Files) : [b EXCEPT !.files = v] \in Bundles
           /\ \A v \in Seq(Symbols) : [b EXCEPT !.symbols = v] \in Bundles
           /\ \A v \in SUBSET (Symbols \X Symbols) : [b EXCEPT !.calls = v] \in Bundles
           /\ \A v \in {"none", "long", "short"} : [b EXCEPT !.docs = v] \in Bundles
           /\ \A v \in SUBSET Files : [b EXCEPT !.map = v] \in Bundles
           /\ \A v \in Seq(Chunks) : [b EXCEPT !.chunks = v] \in Bundles
           /\ \A v \in SUBSET Facts : [b EXCEPT !.facts = v] \in Bundles
           /\ \A v \in SUBSET Related : [b EXCEPT !.cross = v] \in Bundles
BY DEF Bundles

\* Every variable of the request keeps its type.  A stage of the bundle is all
\* right if what it makes of the bundle is one.
LEMMA StageType ==
    ASSUME TypeOK, NEW stage \in Stages, bundle' \in Bundles, pc' \in Stages,
           failed' \subseteq failed \cup {stage}, errors' \subseteq errors \cup {stage},
           Bundling
    PROVE  TypeOK'
<1>1. UNCHANGED <<here, hit, budget, found, fulltext, cand, candSyms, catalog,
                  offered, g, whole, Hits>>
  BY DEF Bundling, request, locals, Hits
<1>2. UNCHANGED <<Stages, Bundles>>
  BY DEF Stages, Bundles, MemoryKinds, ToSet
<1>3. failed' \subseteq Stages /\ errors' \subseteq Stages
  BY DEF TypeOK
<1>4. QED
  BY <1>1, <1>2, <1>3 DEF TypeOK

\* The stages of the bundle are stages.
LEMMA StagesAre ==
    {"chunks", "symbols_in", "fulltext", "fuse", "rerank", "one-hop", "catalog",
     "summaries", "sym_summaries", "ground", "services", "files", "named",
     "symbols", "calls", "repo_docs", "repo_map", "code", "decisions", "vector",
     "notes", "cross_repo", "trim"} \subseteq Stages
BY MemoryKindsAre DEF Stages

\* Each cut of _trim_to_budget makes a bundle of a bundle.
LEMMA DroppedType ==
    ASSUME NEW b \in Bundles, NEW i
    PROVE  Dropped(b, i) \in Bundles
<1>1. KeepChunks \in Nat /\ KeepFiles \in Nat /\ KeepSymbols \in Nat
  BY QueryAssumption
<1>2. /\ b.chunks \in Seq(Chunks) /\ b.files \in Seq(Files) /\ b.symbols \in Seq(Symbols)
  BY BundleParts
<1>3. /\ Top(b.chunks, KeepChunks) \in Seq(Chunks)
      /\ Top(b.files, KeepFiles) \in Seq(Files)
      /\ Top(b.symbols, KeepSymbols) \in Seq(Symbols)
  BY <1>1, <1>2, TopType
<1>4. QED
  BY <1>3 DEF Dropped, Bundles

\* Every variable of a request keeps its type, through every stage of
\* translate and query, whichever fail and whatever is detached.
THEOREM TypeCorrect == Spec => []TypeOK
<1>0. /\ Empty \in Bundles
      /\ Nothing \in [services : SUBSET Services, files : SUBSET Files,
                      symbols : SUBSET Symbols]
      /\ [kind |-> "none", names |-> {}] \in Hits
      /\ <<>> \in Seq(Files) /\ <<>> \in Seq(Symbols) /\ <<>> \in Seq(Chunks)
  BY DEF Empty, Bundles, Nothing, Hits
<1>1. Init => TypeOK
  BY <1>0 DEF Init, TypeOK
<1>2. TypeOK /\ [Next]_vars => TypeOK'
  <2> SUFFICES ASSUME TypeOK, [Next]_vars
               PROVE  TypeOK'
    OBVIOUS
  <2>0. /\ IsFiniteSet(Files) /\ IsFiniteSet(Symbols) /\ IsFiniteSet(Chunks)
        /\ NameLimit \in Nat /\ CallLimit \in Nat /\ FactLimit \in Nat
        /\ LinkLimit \in Nat
    BY QueryAssumption
  <2>000. Named \subseteq SUBSET Symbols
    BY QueryAssumption
  <2>00. /\ here \subseteq Files /\ hit \in Hits
         /\ found \in Seq(Files) /\ fulltext \in Seq(Files) /\ cand \in Seq(Files)
         /\ candSyms \in Seq(Symbols) /\ catalog \subseteq Services
         /\ g \in [services : SUBSET Services, files : SUBSET Files,
                   symbols : SUBSET Symbols]
         /\ bundle \in Bundles
    BY DEF TypeOK
  <2>1. ASSUME Ask PROVE TypeOK'
    BY <2>1, StagesAre DEF TypeOK, Ask, Goto, locals
  <2>2. ASSUME FindChunks PROVE TypeOK'
    <3>1. ASSUME NEW q \in SetToAllKPermutations(here) PROVE q \in Seq(Files)
      <4>1. PICK T \in SUBSET here : q \in SetToSeqs(T)
        BY DEF SetToAllKPermutations
      <4>2. T \in SUBSET Files
        BY <2>00
      <4>3. QED
        BY <2>0, <4>1, <4>2, Listing
    <3>2. QED
      BY <2>2, <3>1, StagesAre DEF TypeOK, FindChunks, Goto, Fine, Fails, Told, request
  <2>3. ASSUME FindSymbolsIn PROVE TypeOK'
    <3>1. ASSUME NEW T \in Rows(SymbolsOf(ToSet(Top(found, TopK))), SymbolLimit),
                 NEW q \in SetToSeqs(T)
          PROVE  q \in Seq(Symbols)
      <4>1. T \in SUBSET Symbols
        BY QueryAssumption, RowsAre DEF SymbolsOf
      <4>2. QED
        BY <2>0, <4>1, Listing
    <3>2. QED
      BY <2>3, <3>1, StagesAre DEF TypeOK, FindSymbolsIn, Goto, Fine, Fails, Told, request
  <2>4. ASSUME FindFulltext PROVE TypeOK'
    <3>1. ASSUME NEW q \in SetToAllKPermutations(SymbolsOf(Files))
          PROVE  /\ Distinct([i \in DOMAIN q |-> Home[q[i]]]) \subseteq Seq(Files)
                 /\ Distinct(candSyms \o q) \subseteq Seq(Symbols)
      <4>1. PICK T \in SUBSET SymbolsOf(Files) : q \in SetToSeqs(T)
        BY DEF SetToAllKPermutations
      <4>2. T \in SUBSET Symbols
        BY DEF SymbolsOf
      <4>3. q \in Seq(Symbols)
        BY <2>0, <4>1, <4>2, Listing
      <4>4. Home \in [Symbols -> Files]
        BY QueryAssumption
      <4>5. [i \in DOMAIN q |-> Home[q[i]]] \in Seq(Files)
        BY <4>3, <4>4
      <4>6. candSyms \o q \in Seq(Symbols)
        BY <2>00, <4>3, Joined
      <4>7. QED
        BY <2>0, <4>5, <4>6, DistinctType
    <3>2. fulltext' \in Seq(Files) /\ candSyms' \in Seq(Symbols)
      BY <1>0, <2>00, <2>4, <3>1 DEF FindFulltext
    <3>3. QED
      BY <2>4, <3>2, StagesAre
      DEF TypeOK, FindFulltext, Goto, Fine, Fails, Untold, request
  <2>5. ASSUME Fuse PROVE TypeOK'
    <3>1. cand' \in Seq(Files)
      BY <2>0, <2>00, <2>5, FusedType DEF Fuse
    <3>2. QED
      BY <2>5, <3>1, StagesAre DEF TypeOK, Fuse, Goto, Fine, request
  <2>6. ASSUME Rerank PROVE TypeOK'
    <3>0. RerankTop \in Nat
      BY QueryAssumption
    <3>1. SubSeq(cand, RerankTop + 1, Len(cand)) \in Seq(Files)
      BY <2>00, <3>0
    <3>2. ToSet(Top(cand, RerankTop)) \in SUBSET Files
      <4>1. Top(cand, RerankTop) \in Seq(Files)
        BY <2>00, <3>0, TopType
      <4>2. QED
        BY <4>1, Elements
    <3>3. ASSUME NEW q \in SetToSeqs(ToSet(Top(cand, RerankTop)))
          PROVE  q \o SubSeq(cand, RerankTop + 1, Len(cand)) \in Seq(Files)
      <4>1. q \in Seq(Files)
        BY <2>0, <3>2, Listing
      <4>2. QED
        BY <3>1, <4>1, Joined
    <3>4. cand' \in Seq(Files)
      BY <2>00, <2>6, <3>3 DEF Rerank
    <3>5. QED
      BY <1>0, <2>6, <3>4, StagesAre
      DEF TypeOK, Rerank, Goto, Fine, Fails, Untold, request
  <2>7. ASSUME OneHop PROVE TypeOK'
    <3>0. CandidateCap \in Nat /\ HopLimit \in Nat
      BY QueryAssumption
    <3>1. ASSUME NEW q \in SetToSeqs(Neighbours(ToSet(Top(cand, HopTop)))),
                 NEW r \in Distinct(cand \o Top(q, HopLimit))
          PROVE  Top(r, CandidateCap) \in Seq(Files)
      <4>1. Neighbours(ToSet(Top(cand, HopTop))) \in SUBSET Files
        BY <2>00 DEF Neighbours
      <4>2. q \in Seq(Files) /\ Top(q, HopLimit) \in Seq(Files)
        BY <2>0, <3>0, <4>1, Listing, TopType
      <4>3. cand \o Top(q, HopLimit) \in Seq(Files)
        BY <2>00, <4>2, Joined
      <4>4. r \in Seq(Files)
        BY <2>0, <4>3, DistinctType
      <4>5. QED
        BY <3>0, <4>4, TopType
    <3>2. Top(cand, CandidateCap) \in Seq(Files)
      BY <2>00, <3>0, TopType
    <3>3. cand' \in Seq(Files)
      BY <2>7, <3>1, <3>2 DEF OneHop
    <3>4. QED
      BY <2>7, <3>3, StagesAre DEF TypeOK, OneHop, Goto, Fine, Fails, Untold, request
  <2>8. ASSUME ReadCatalog PROVE TypeOK'
    BY <2>8, StagesAre DEF TypeOK, ReadCatalog, Goto, Fine, Fails, Untold, request
  <2>9. ASSUME NEW stage \in {"summaries", "sym_summaries"}, NEW of,
               NEW next \in {"sym_summaries", "ground"}, ReadSummaries(stage, of, next)
        PROVE  TypeOK'
    BY <2>9, StagesAre
    DEF TypeOK, ReadSummaries, Goto, Fine, Fails, Told, request, locals
  <2>10. ASSUME Ground PROVE TypeOK'
    <3>0. FallbackTop \in Nat
      BY QueryAssumption
    <3>1. /\ ToSet(cand) \subseteq Files /\ ToSet(candSyms) \subseteq Symbols
          /\ ToSet(Top(cand, FallbackTop)) \subseteq ToSet(cand)
          /\ ToSet(Top(candSyms, FallbackTop)) \subseteq ToSet(candSyms)
      BY <2>00, <3>0, TopType, Elements
    <3>2. \A V, F, S : \A n \in 0..3 :
             OrElse(Chosen(V, F, S, n)) \in [services : SUBSET Services,
                files : SUBSET Files, symbols : SUBSET Symbols]
      BY <2>00, <3>1 DEF OrElse, Chosen, Nothing
    <3>3. g' \in [services : SUBSET Services, files : SUBSET Files,
                  symbols : SUBSET Symbols]
      BY <2>10, <3>2 DEF Ground
    <3>4. offered' \in [services : SUBSET Services, files : SUBSET Files,
                        symbols : SUBSET Symbols]
      BY <2>00, <2>10, <3>1 DEF Ground
    <3>5. failed' \subseteq failed \cup {"ground"} /\ errors' \subseteq errors \cup {"ground"}
      BY <2>10 DEF Ground, Fine, Fails, Told
    <3>6. /\ cand' = <<>> /\ candSyms' = <<>> /\ catalog' = {} /\ pc' = "services"
          /\ UNCHANGED <<here, request, found, fulltext, bundle, whole>>
      BY <2>10 DEF Ground, Goto
    <3>7. QED
      BY <1>0, <3>3, <3>4, <3>5, <3>6, StagesAre DEF TypeOK, request
  <2>11. ASSUME HydrateServices PROVE TypeOK'
    <3>1. [bundle EXCEPT !.services = g.services] \in Bundles
      BY <2>00, BundleParts
    <3>2. bundle' \in Bundles /\ pc' = "files" /\ Bundling
          /\ failed' \subseteq failed \cup {"services"}
          /\ errors' \subseteq errors \cup {"services"}
      BY <2>00, <2>11, <3>1
      DEF HydrateServices, Skips, Sets, Misses, Goto, Fine, Fails, Told
    <3>3. QED
      BY <3>2, StageType, StagesAre
  <2>12. ASSUME HydrateFiles PROVE TypeOK'
    <3>1. \A q \in SetToSeqs(Asked \cap here) : [bundle EXCEPT !.files = q] \in Bundles
      <4>1. Asked \cap here \in SUBSET Files
        BY <2>00
      <4>2. \A q \in SetToSeqs(Asked \cap here) : q \in Seq(Files)
        BY <2>0, <4>1, Listing
      <4>3. QED
        BY <2>00, <4>2, BundleParts
    <3>2. bundle' \in Bundles /\ pc' = "named" /\ Bundling
          /\ failed' \subseteq failed \cup {"files"}
          /\ errors' \subseteq errors \cup {"files"}
      BY <2>00, <2>12, <3>1
      DEF HydrateFiles, Skips, Sets, Misses, Goto, Fine, Fails, Told
    <3>3. QED
      BY <3>2, StageType, StagesAre
  <2>13. ASSUME HydrateNamed PROVE TypeOK'
    <3>1. ASSUME hit.kind = "symbol"
          PROVE  \A T \in Rows(hit.names \cap Live, NameLimit) :
                 \A q \in SetToSeqs(T) : [bundle EXCEPT !.symbols = q] \in Bundles
      <4>1. hit.names \in SUBSET Symbols
        BY <2>000, <2>00, <3>1 DEF Hits
      <4>2. \A T \in Rows(hit.names \cap Live, NameLimit) : T \in SUBSET Symbols
        BY <2>0, <4>1, RowsAre
      <4>3. \A T \in Rows(hit.names \cap Live, NameLimit) :
            \A q \in SetToSeqs(T) : q \in Seq(Symbols)
        BY <2>0, <4>2, Listing
      <4>4. QED
        BY <2>00, <4>3, BundleParts
    <3>2. bundle' \in Bundles /\ pc' \in {"symbols", "calls"} /\ Bundling
          /\ failed' \subseteq failed \cup {"symbols"}
          /\ errors' \subseteq errors \cup {"symbols"}
      BY <2>00, <2>13, <3>1
      DEF HydrateNamed, Skips, Sets, Misses, Goto, Fine, Fails, Told
    <3>3. QED
      BY <3>2, StageType, StagesAre
  <2>14. ASSUME HydrateSymbols PROVE TypeOK'
    <3>1. \A q \in SetToSeqs(g.symbols \cap Live) :
             [bundle EXCEPT !.symbols = q \o @] \in Bundles
      <4>1. g.symbols \cap Live \in SUBSET Symbols /\ bundle.symbols \in Seq(Symbols)
        BY <2>00, BundleParts
      <4>2. \A q \in SetToSeqs(g.symbols \cap Live) : q \in Seq(Symbols)
        BY <2>0, <4>1, Listing
      <4>3. \A q \in SetToSeqs(g.symbols \cap Live) : q \o bundle.symbols \in Seq(Symbols)
        BY <4>1, <4>2, Joined
      <4>4. QED
        BY <2>00, <4>3, BundleParts
    <3>2. bundle' \in Bundles /\ pc' = "calls" /\ Bundling
          /\ failed' \subseteq failed \cup {"symbols"}
          /\ errors' \subseteq errors \cup {"symbols"}
      BY <2>00, <2>14, <3>1
      DEF HydrateSymbols, Skips, Sets, Misses, Goto, Fine, Fails, Told
    <3>3. QED
      BY <3>2, StageType, StagesAre
  <2>15. ASSUME CallNeighbours PROVE TypeOK'
    <3> DEFINE R(end) == Rows(CallsAt(Head(bundle.symbols), end), CallLimit)
    <3>1. \A end : \A P \in R(end) : P \in SUBSET (Symbols \X Symbols)
      <4>1. \A s, end : CallsAt(s, end) \subseteq Symbols \X Symbols
        BY QueryAssumption DEF CallsAt
      <4>2. QED
        BY <2>0, <4>1, RowsAre
    <3>2. \A P \in R(2), Q \in R(1) : [bundle EXCEPT !.calls = P \cup Q] \in Bundles
      <4> HIDE DEF R
      <4>1. \A P \in R(2), Q \in R(1) : P \cup Q \in SUBSET (Symbols \X Symbols)
        BY <3>1
      <4>2. QED
        BY <2>00, <4>1, BundleParts
    <3>3. bundle' \in Bundles
      <4>1. \/ bundle' = bundle
            \/ \E P \in R(2), Q \in R(1) : bundle' = [bundle EXCEPT !.calls = P \cup Q]
        BY <2>15, Zenon DEF CallNeighbours, Skips, Sets, Misses
      <4> HIDE DEF R
      <4>2. QED
        BY <2>00, <3>2, <4>1
    <3>4. pc' = "repo_docs" /\ Bundling
          /\ failed' \subseteq failed \cup {"calls"}
          /\ errors' \subseteq errors \cup {"calls"}
      BY <2>15 DEF CallNeighbours, Skips, Sets, Misses, Goto, Fine, Fails, Told
    <3>5. QED
      BY <3>3, <3>4, StageType, StagesAre
  <2>16. ASSUME RepoDocs PROVE TypeOK'
    <3>1. \A d \in {"none", "long"} : [bundle EXCEPT !.docs = d] \in Bundles
      BY <2>00, BundleParts
    <3>2. bundle' \in Bundles /\ pc' = "repo_map" /\ Bundling
          /\ failed' \subseteq failed \cup {"repo_docs"}
          /\ errors' \subseteq errors \cup {"repo_docs"}
      BY <2>00, <2>16, <3>1 DEF RepoDocs, Sets, Misses, Goto, Fine, Fails, Told
    <3>3. QED
      BY <3>2, StageType, StagesAre
  <2>17. ASSUME RepoMap PROVE TypeOK'
    <3>1. [bundle EXCEPT !.map = Asked \cap here] \in Bundles
      BY <2>00, BundleParts
    <3>2. bundle' \in Bundles /\ pc' = "code" /\ Bundling
          /\ failed' \subseteq failed \cup {"repo_map"}
          /\ errors' \subseteq errors \cup {"repo_map"}
      BY <2>00, <2>17, <3>1 DEF RepoMap, Skips, Sets, Misses, Goto, Fine, Fails, Told
    <3>3. QED
      BY <3>2, StageType, StagesAre
  <2>18. ASSUME Code PROVE TypeOK'
    <3>1. \A T \in Earliest(ChunksDue) : \A q \in ByLine(T) :
             [bundle EXCEPT !.chunks = q] \in Bundles
      <4>1. \A T \in Earliest(ChunksDue) : T \in SUBSET Chunks
        BY EarliestAre DEF ChunksDue, ChunksOf
      <4>2. \A T \in Earliest(ChunksDue) : \A q \in ByLine(T) : q \in Seq(Chunks)
        BY <2>0, <4>1, Listing DEF ByLine
      <4>3. QED
        BY <2>00, <4>2, BundleParts
    <3>2. bundle' \in Bundles /\ pc' = "decisions" /\ Bundling
          /\ failed' \subseteq failed \cup {"code"}
          /\ errors' \subseteq errors \cup {"code"}
      BY <2>00, <2>18, <3>1 DEF Code, Skips, Sets, Misses, Goto, Fine, Fails, Told
    <3>3. QED
      BY <3>2, StageType, StagesAre
  <2>19. ASSUME NEW kind \in ToSet(MemoryKinds), Remembered(kind) PROVE TypeOK'
    <3>1. \A F \in SUBSET Facts : [bundle EXCEPT !.facts = bundle.facts \cup F] \in Bundles
      BY <2>00, BundleParts
    <3>2. \A T \in Rows(Due(bundle, kind), FactLimit) : T \in SUBSET Facts
      BY <2>0, RowsAre DEF Due
    <3>3. \A T \in Rows(Due(bundle, kind), FactLimit) :
             [bundle EXCEPT !.facts = @ \cup T] \in Bundles
      BY <3>1, <3>2
    <3>4. bundle' \in Bundles /\ pc' = After(kind) /\ Bundling
          /\ failed' \subseteq failed \cup {kind}
          /\ errors' \subseteq errors \cup {kind}
      BY <2>00, <2>19, <3>3 DEF Remembered, Skips, Sets, Misses, Goto, Fine, Fails, Told
    <3>5. QED
      BY <3>4, StageType, AfterType
  <2>20. ASSUME VectorRecall PROVE TypeOK'
    <3>1. bundle' \in Bundles /\ pc' = "notes" /\ Bundling
          /\ failed' \subseteq failed \cup {"vector"}
          /\ errors' \subseteq errors \cup {"vector"}
      BY <2>00, <2>20 DEF VectorRecall, Goto, Fine, Told
    <3>2. QED
      BY <3>1, StageType, StagesAre
  <2>21. ASSUME CrossRepo PROVE TypeOK'
    <3>1. \A T \in Rows(Related, LinkLimit) : [bundle EXCEPT !.cross = T] \in Bundles
      BY <2>0, <2>00, RowsAre, BundleParts
    <3>2. bundle' \in Bundles /\ pc' = "trim" /\ Bundling
          /\ failed' \subseteq failed \cup {"cross_repo"}
          /\ errors' \subseteq errors \cup {"cross_repo"}
      BY <2>00, <2>21, <3>1 DEF CrossRepo, Sets, Misses, Goto, Fine, Fails, Told
    <3>3. QED
      BY <3>2, StageType, StagesAre
  <2>22. ASSUME Trim PROVE TypeOK'
    <3>1. \A i : Dropped(bundle, i) \in Bundles
      BY <2>00, DroppedType
    <3>2. Trimmed(bundle, budget) \in Bundles
      BY <3>1 DEF Trimmed
    <3>3. CASE Cut
      BY <2>22, <3>2, <3>3 DEF TypeOK, Trim, Cut, Goto, Fine, request, locals
    <3>4. CASE Uncounted
      BY <1>0, <2>22, <3>4, StagesAre
      DEF TypeOK, Trim, Uncounted, Goto, Fails, Untold, request, locals
    <3>5. QED
      BY <2>22, <3>3, <3>4 DEF Trim
  <2>23. ASSUME NEW f \in Files, Detach(f) PROVE TypeOK'
    BY <2>23 DEF TypeOK, Detach, request, locals
  <2>24. CASE UNCHANGED vars
    BY <2>24 DEF TypeOK, vars, request, locals
  <2>25. QED
    BY <2>1, <2>2, <2>3, <2>4, <2>5, <2>6, <2>7, <2>8, <2>9, <2>10, <2>11, <2>12,
       <2>13, <2>14, <2>15, <2>16, <2>17, <2>18, <2>19, <2>20, <2>21, <2>22, <2>23,
       <2>24 DEF Next
<1>3. QED
  BY <1>1, <1>2, PTL DEF Spec

-----------------------------------------------------------------------------
(* The errors.                                                             *)

\* bundle.errors of query tells of the stages that have failed, but for the
\* silent ones, until the request is answered.
LEMMA Errors == Spec => []ErrorsInv
<1>1. Init => ErrorsInv
  BY DEF Init, ErrorsInv
<1>2. ErrorsInv /\ [Next]_vars => ErrorsInv'
  <2> SUFFICES ASSUME ErrorsInv, [Next]_vars
               PROVE  ErrorsInv'
    OBVIOUS
  <2> USE DEF ErrorsInv, Silent, Goto, Fine, Fails, Told, Untold
  <2>1. ASSUME Ask PROVE ErrorsInv'
    BY <2>1 DEF Ask
  <2>2. ASSUME FindChunks \/ FindSymbolsIn PROVE ErrorsInv'
    BY <2>2 DEF FindChunks, FindSymbolsIn
  <2>3. ASSUME FindFulltext \/ Fuse PROVE ErrorsInv'
    BY <2>3 DEF FindFulltext, Fuse
  <2>4. ASSUME Rerank \/ OneHop PROVE ErrorsInv'
    BY <2>4 DEF Rerank, OneHop
  <2>5. ASSUME ReadCatalog PROVE ErrorsInv'
    BY <2>5 DEF ReadCatalog
  <2>6. ASSUME NEW stage \in {"summaries", "sym_summaries"}, NEW of,
               NEW next \in {"sym_summaries", "ground"}, ReadSummaries(stage, of, next)
        PROVE  ErrorsInv'
    BY <2>6 DEF ReadSummaries
  <2>7. ASSUME Ground PROVE ErrorsInv'
    BY <2>7 DEF Ground
  <2> USE DEF Skips, Sets, Misses
  <2>8. ASSUME HydrateServices \/ HydrateFiles PROVE ErrorsInv'
    BY <2>8 DEF HydrateServices, HydrateFiles
  <2>9. ASSUME HydrateNamed \/ HydrateSymbols PROVE ErrorsInv'
    BY <2>9 DEF HydrateNamed, HydrateSymbols
  <2>10. ASSUME CallNeighbours \/ RepoDocs PROVE ErrorsInv'
    BY <2>10 DEF CallNeighbours, RepoDocs
  <2>11. ASSUME RepoMap \/ Code PROVE ErrorsInv'
    BY <2>11 DEF RepoMap, Code
  <2>12. ASSUME NEW kind \in ToSet(MemoryKinds), Remembered(kind) PROVE ErrorsInv'
    <3>1. /\ pc # "raised" /\ pc' # "raised"
          /\ kind \notin {"fulltext", "rerank", "one-hop"}
      BY <2>12, MemoryKindsAre, AfterType DEF Remembered
    <3>2. QED
      BY <2>12, <3>1 DEF Remembered
  <2>13. ASSUME VectorRecall \/ CrossRepo \/ Trim PROVE ErrorsInv'
    BY <2>13 DEF VectorRecall, CrossRepo, Trim, Cut, Uncounted
  <2>14. ASSUME NEW f \in Files, Detach(f) PROVE ErrorsInv'
    BY <2>14 DEF Detach
  <2>15. CASE UNCHANGED vars
    BY <2>15 DEF vars
  <2>16. QED
    BY <2>1, <2>2, <2>3, <2>4, <2>5, <2>6, <2>7, <2>8, <2>9, <2>10, <2>11, <2>12,
       <2>13, <2>14, <2>15 DEF Next
<1>3. QED
  BY <1>1, <1>2, PTL DEF Spec

-----------------------------------------------------------------------------
(* What is chosen, and what is shown of it.                                *)

\* The search leaves the choice and the bundle alone.
LEMMA SearchKeeps ==
    ASSUME \/ FindChunks \/ FindSymbolsIn \/ FindFulltext \/ Fuse \/ Rerank
           \/ OneHop \/ ReadCatalog
           \/ ReadSummaries("summaries", cand, "sym_summaries")
           \/ ReadSummaries("sym_summaries", candSyms, "ground")
    PROVE  /\ UNCHANGED <<here, hit, budget, offered, g, bundle, whole>>
           /\ Rank(pc) = 0 /\ Rank(pc') = 0 /\ pc # "done" /\ pc' # "done"
BY DEF FindChunks, FindSymbolsIn, FindFulltext, Fuse, Rerank, OneHop, ReadCatalog,
       ReadSummaries, request, Goto, Rank

\* What a stage of the bundle does to it.
LEMMA StageDoes ==
    ASSUME \/ HydrateServices \/ HydrateFiles \/ HydrateNamed \/ HydrateSymbols
           \/ CallNeighbours \/ RepoDocs \/ RepoMap \/ Code
           \/ (\E kind \in ToSet(MemoryKinds) : Remembered(kind))
           \/ VectorRecall \/ CrossRepo
    PROVE  /\ UNCHANGED <<here, hit, budget, offered, g, whole>>
           /\ Rank(pc) > 0 /\ Rank(pc') > Rank(pc) /\ pc # "done" /\ pc' # "done"
           /\ Rank(pc') = Rank(pc) + 1 \/ (pc = "named" /\ pc' = "calls")
<1>1. ASSUME NEW kind \in ToSet(MemoryKinds), Remembered(kind)
      PROVE  /\ Rank(pc) > 0 /\ Rank(pc') > Rank(pc) /\ pc # "done" /\ pc' # "done"
             /\ Bundling /\ Rank(pc') = Rank(pc) + 1
  <2>1. pc = kind /\ pc' = After(kind) /\ Bundling
    BY <1>1 DEF Remembered, Skips, Sets, Misses, Goto
  <2>2. /\ kind = "decisions" => After(kind) = "observations"
        /\ kind = "observations" => After(kind) = "vector"
        /\ kind = "notes" => After(kind) = "docs"
        /\ kind = "docs" => After(kind) = "cross_repo"
    BY DEF After
  <2>3. QED
    BY <2>1, <2>2, MemoryKindsAre DEF Rank
<1>2. Bundling => UNCHANGED <<here, hit, budget, offered, g, whole>>
  BY DEF Bundling, request
<1>3. ASSUME \/ HydrateServices \/ HydrateFiles \/ HydrateNamed \/ HydrateSymbols
             \/ CallNeighbours \/ RepoDocs \/ RepoMap \/ Code
             \/ VectorRecall \/ CrossRepo
      PROVE  /\ Rank(pc) > 0 /\ Rank(pc') > Rank(pc) /\ pc # "done" /\ pc' # "done"
             /\ Bundling
             /\ Rank(pc') = Rank(pc) + 1 \/ (pc = "named" /\ pc' = "calls")
  BY <1>3 DEF HydrateServices, HydrateFiles, HydrateNamed, HydrateSymbols,
       CallNeighbours, RepoDocs, RepoMap, Code, VectorRecall, CrossRepo,
       Skips, Sets, Misses, Goto, Rank
<1>4. QED
  BY <1>1, <1>2, <1>3

\* Part by part: a stage changes its own part of the bundle and no other.
OwnPart ==
    /\ \/ bundle'.services = bundle.services
       \/ pc = "services" /\ bundle'.services = g.services
    /\ \/ bundle'.files = bundle.files
       \/ pc = "files" /\ ToSet(bundle'.files) = Asked \cap here
    /\ \/ bundle'.symbols = bundle.symbols
       \/ /\ pc = "named" /\ hit.kind = "symbol"
          /\ ToSet(bundle'.symbols) \in Rows(hit.names \cap Live, NameLimit)
       \/ /\ pc = "symbols"
          /\ ToSet(bundle'.symbols) = (g.symbols \cap Live) \cup ToSet(bundle.symbols)
    /\ \/ bundle'.calls = bundle.calls
       \/ /\ pc = "calls" /\ bundle.symbols # <<>>
          /\ \A e \in bundle'.calls : Head(bundle.symbols) \in {e[1], e[2]}
    /\ \/ bundle'.map = bundle.map
       \/ pc = "repo_map" /\ bundle'.map = Asked \cap here
    /\ \/ bundle'.chunks = bundle.chunks
       \/ pc = "code" /\ ToSet(bundle'.chunks) \in Earliest(ChunksDue)
    /\ \/ bundle'.facts = bundle.facts
       \/ /\ pc \in ToSet(MemoryKinds)
          /\ \E T \in Rows(Due(bundle, pc), FactLimit) :
                bundle'.facts = bundle.facts \cup T
    /\ \/ bundle'.cross = bundle.cross
       \/ pc = "cross_repo" /\ bundle'.cross \in Rows(Related, LinkLimit)

\* What a stage that is over has made: of each part of the bundle, what it was
\* or what this stage found.
LEMMA StageMakes ==
    ASSUME TypeOK,
           \/ HydrateServices \/ HydrateFiles \/ HydrateNamed \/ HydrateSymbols
           \/ CallNeighbours \/ RepoDocs \/ RepoMap \/ Code
           \/ (\E kind \in ToSet(MemoryKinds) : Remembered(kind))
           \/ VectorRecall \/ CrossRepo
    PROVE  OwnPart
<1>0. /\ IsFiniteSet(Files) /\ IsFiniteSet(Symbols) /\ IsFiniteSet(Chunks)
      /\ NameLimit \in Nat /\ CallLimit \in Nat /\ here \subseteq Files
      /\ bundle \in Bundles /\ hit \in Hits
      /\ g \in [services : SUBSET Services, files : SUBSET Files,
                symbols : SUBSET Symbols]
  BY QueryAssumption DEF TypeOK
<1>1. DOMAIN bundle = {"services", "files", "symbols", "calls", "docs", "map",
                       "chunks", "facts", "cross"}
      /\ bundle = [x \in DOMAIN bundle |-> bundle[x]]
      /\ bundle.files \in Seq(Files) /\ bundle.symbols \in Seq(Symbols)
  BY <1>0 DEF Bundles
<1>2. CASE bundle' = bundle
  BY <1>2 DEF OwnPart
<1>3. ASSUME bundle' = [bundle EXCEPT !.services = g.services], pc = "services"
      PROVE  OwnPart
  BY <1>1, <1>3 DEF OwnPart
<1>4. ASSUME NEW q \in SetToSeqs(Asked \cap here), pc = "files",
             bundle' = [bundle EXCEPT !.files = q]
      PROVE  OwnPart
  <2>1. Asked \cap here \in SUBSET Files
    BY <1>0
  <2>2. ToSet(q) = Asked \cap here
    BY <1>0, <2>1, Listing
  <2>3. QED
    BY <1>1, <1>4, <2>2 DEF OwnPart
<1>5. ASSUME NEW T \in Rows(hit.names \cap Live, NameLimit),
             NEW q \in SetToSeqs(T), pc = "named",
             hit.kind = "symbol", bundle' = [bundle EXCEPT !.symbols = q]
      PROVE  OwnPart
  <2>1. hit.names \in SUBSET Symbols
    BY <1>0, <1>5, QueryAssumption DEF Hits
  <2>2. T \in SUBSET Symbols
    BY <1>0, <2>1, RowsAre
  <2>3. ToSet(q) = T
    BY <1>0, <2>2, Listing
  <2>4. QED
    BY <1>1, <1>5, <2>3 DEF OwnPart
<1>6. ASSUME NEW q \in SetToSeqs(g.symbols \cap Live), pc = "symbols",
             bundle' = [bundle EXCEPT !.symbols = q \o @]
      PROVE  OwnPart
  <2>1. g.symbols \cap Live \in SUBSET Symbols
    BY <1>0
  <2>2. q \in Seq(Symbols) /\ ToSet(q) = g.symbols \cap Live
    BY <1>0, <2>1, Listing
  <2>3. ToSet(q \o bundle.symbols) = (g.symbols \cap Live) \cup ToSet(bundle.symbols)
    BY <1>1, <2>2, Joined
  <2>4. QED
    BY <1>1, <1>6, <2>3 DEF OwnPart
<1>7. ASSUME pc = "calls", bundle.symbols # <<>>,
             NEW P \in Rows(CallsAt(Head(bundle.symbols), 2), CallLimit),
             NEW Q \in Rows(CallsAt(Head(bundle.symbols), 1), CallLimit),
             bundle' = [bundle EXCEPT !.calls = P \cup Q]
      PROVE  OwnPart
  <2>1. \A e \in P \cup Q : Head(bundle.symbols) \in {e[1], e[2]}
    BY <1>0, RowsAre DEF CallsAt
  <2>2. QED
    BY <1>1, <1>7, <2>1 DEF OwnPart
<1>8. ASSUME NEW d, bundle' = [bundle EXCEPT !.docs = d]
      PROVE  OwnPart
  BY <1>1, <1>8 DEF OwnPart
<1>9. ASSUME pc = "repo_map", bundle' = [bundle EXCEPT !.map = Asked \cap here]
      PROVE  OwnPart
  BY <1>1, <1>9 DEF OwnPart
<1>10. ASSUME NEW T \in Earliest(ChunksDue), NEW q \in ByLine(T), pc = "code",
              bundle' = [bundle EXCEPT !.chunks = q]
       PROVE  OwnPart
  <2>1. T \in SUBSET Chunks
    BY EarliestAre DEF ChunksDue, ChunksOf
  <2>2. ToSet(q) = T
    BY <1>0, <2>1, Listing DEF ByLine
  <2>3. QED
    BY <1>1, <1>10, <2>2 DEF OwnPart
<1>11. ASSUME pc \in ToSet(MemoryKinds),
              NEW T \in Rows(Due(bundle, pc), FactLimit),
              bundle' = [bundle EXCEPT !.facts = bundle.facts \cup T]
       PROVE  OwnPart
  BY <1>1, <1>11 DEF OwnPart
<1>12. ASSUME pc = "cross_repo", NEW T \in Rows(Related, LinkLimit),
              bundle' = [bundle EXCEPT !.cross = T]
       PROVE  OwnPart
  BY <1>1, <1>12 DEF OwnPart
<1>13. ASSUME HydrateServices PROVE OwnPart
  BY <1>2, <1>3, <1>13 DEF HydrateServices, Skips, Sets, Misses
<1>14. ASSUME HydrateFiles PROVE OwnPart
  BY <1>2, <1>4, <1>14 DEF HydrateFiles, Skips, Sets, Misses
<1>15. ASSUME HydrateNamed PROVE OwnPart
  BY <1>2, <1>5, <1>15 DEF HydrateNamed, Skips, Sets, Misses
<1>16. ASSUME HydrateSymbols PROVE OwnPart
  BY <1>2, <1>6, <1>16 DEF HydrateSymbols, Skips, Sets, Misses
<1>17. ASSUME CallNeighbours PROVE OwnPart
  <2>1. \/ bundle' = bundle
        \/ /\ pc = "calls" /\ bundle.symbols # <<>>
           /\ \E P \in Rows(CallsAt(Head(bundle.symbols), 2), CallLimit),
                 Q \in Rows(CallsAt(Head(bundle.symbols), 1), CallLimit) :
                 bundle' = [bundle EXCEPT !.calls = P \cup Q]
    BY <1>17, Zenon DEF CallNeighbours, Skips, Sets, Misses
  <2>2. QED
    BY <1>2, <1>7, <2>1, Zenon
<1>18. ASSUME RepoDocs PROVE OwnPart
  BY <1>2, <1>8, <1>18 DEF RepoDocs, Sets, Misses
<1>19. ASSUME RepoMap PROVE OwnPart
  BY <1>2, <1>9, <1>19 DEF RepoMap, Skips, Sets, Misses
<1>20. ASSUME Code PROVE OwnPart
  BY <1>2, <1>10, <1>20 DEF Code, Skips, Sets, Misses
<1>21. ASSUME NEW kind \in ToSet(MemoryKinds), Remembered(kind) PROVE OwnPart
  <2>1. /\ pc = kind
        /\ \/ bundle' = bundle
           \/ \E T \in Rows(Due(bundle, kind), FactLimit) :
                 bundle' = [bundle EXCEPT !.facts = bundle.facts \cup T]
    BY <1>21, Zenon DEF Remembered, Skips, Sets, Misses
  <2>2. QED
    BY <1>2, <1>11, <2>1
<1>22. ASSUME VectorRecall PROVE OwnPart
  BY <1>2, <1>22 DEF VectorRecall
<1>23. ASSUME CrossRepo PROVE OwnPart
  BY <1>2, <1>12, <1>23 DEF CrossRepo, Sets, Misses
<1>24. QED
  BY <1>13, <1>14, <1>15, <1>16, <1>17, <1>18, <1>19, <1>20, <1>21, <1>22, <1>23

\* The cut adds nothing.
LEMMA TrimLess ==
    ASSUME NEW b \in Bundles, NEW n \in Nat
    PROVE  /\ Trimmed(b, n).services \subseteq b.services
           /\ ToSet(Trimmed(b, n).files) \subseteq ToSet(b.files)
           /\ ToSet(Trimmed(b, n).symbols) \subseteq ToSet(b.symbols)
           /\ Trimmed(b, n).facts \subseteq b.facts
<1>1. KeepFiles \in Nat /\ KeepSymbols \in Nat
  BY QueryAssumption
<1>2. /\ ToSet(Top(b.files, KeepFiles)) \subseteq ToSet(b.files)
      /\ ToSet(Top(b.symbols, KeepSymbols)) \subseteq ToSet(b.symbols)
  BY <1>1, BundleParts, TopType
<1>3. \A i : /\ Dropped(b, i).services \subseteq b.services
             /\ ToSet(Dropped(b, i).files) \subseteq ToSet(b.files)
             /\ ToSet(Dropped(b, i).symbols) \subseteq ToSet(b.symbols)
             /\ Dropped(b, i).facts \subseteq b.facts
  BY <1>2, NoElements DEF Dropped
<1>4. QED
  BY <1>3 DEF Trimmed

\* Where the facts are read.
LEMMA FactRank ==
    ASSUME NEW x \in Facts
    PROVE  Kind[x] \in ToSet(MemoryKinds) /\ Rank(Kind[x]) \in {9, 10, 12, 13}
<1>1. Kind[x] \in ToSet(MemoryKinds)
  BY QueryAssumption
<1>2. QED
  BY <1>1, MemoryKindsAre DEF Rank

\* A part of the bundle is empty until its stage comes.
LEMMA EmptyUntil == Spec => []EmptyInv
<1>1. Init => EmptyInv
  BY DEF Init, EmptyInv, Rank, Empty
<1>2. TypeOK /\ EmptyInv /\ [Next]_vars => EmptyInv'
  <2> SUFFICES ASSUME TypeOK, EmptyInv, [Next]_vars
               PROVE  EmptyInv'
    OBVIOUS
  <2>1. ASSUME Ask PROVE EmptyInv'
    <3>1. Rank(pc) = 0 /\ Rank(pc') \in {0, 1} /\ UNCHANGED <<g, bundle>>
      BY <2>1 DEF Ask, Goto, Rank
    <3>2. QED
      BY <3>1 DEF EmptyInv, Empty
  <2>2. ASSUME \/ FindChunks \/ FindSymbolsIn \/ FindFulltext \/ Fuse \/ Rerank
               \/ OneHop \/ ReadCatalog
               \/ ReadSummaries("summaries", cand, "sym_summaries")
               \/ ReadSummaries("sym_summaries", candSyms, "ground")
        PROVE  EmptyInv'
    BY <2>2, SearchKeeps DEF EmptyInv
  <2>3. ASSUME Ground PROVE EmptyInv'
    <3>1. Rank(pc) = 0 /\ Rank(pc') = 1 /\ UNCHANGED bundle
      BY <2>3 DEF Ground, Goto, Rank
    <3>2. QED
      BY <3>1 DEF EmptyInv, Empty
  <2>4. ASSUME \/ HydrateServices \/ HydrateFiles \/ HydrateNamed \/ HydrateSymbols
               \/ CallNeighbours \/ RepoDocs \/ RepoMap \/ Code
               \/ (\E kind \in ToSet(MemoryKinds) : Remembered(kind))
               \/ VectorRecall \/ CrossRepo
        PROVE  EmptyInv'
    <3>1. Rank(pc) \in Nat /\ Rank(pc') \in Nat /\ Rank(pc') > Rank(pc) /\ Rank(pc) > 0
      BY <2>4, StageDoes DEF Rank
    <3>2. OwnPart
      BY <2>4, StageMakes
    <3>3. /\ pc = "files" => Rank(pc) = 2
          /\ pc = "repo_map" => Rank(pc) = 7
          /\ pc = "named" => Rank(pc) = 3
          /\ pc = "symbols" => Rank(pc) = 4
          /\ pc = "calls" => Rank(pc) = 5
          /\ pc = "code" => Rank(pc) = 8
          /\ pc \in ToSet(MemoryKinds) => Rank(pc) >= 9
      BY MemoryKindsAre DEF Rank
    <3>4. Rank(pc') <= 3 => bundle'.symbols = <<>>
      BY <3>1, <3>2, <3>3 DEF OwnPart, EmptyInv
    <3>5. Rank(pc') <= 5 => bundle'.calls = {}
      BY <3>1, <3>2, <3>3 DEF OwnPart, EmptyInv
    <3>6. Rank(pc') <= 8 => bundle'.chunks = <<>>
      BY <3>1, <3>2, <3>3 DEF OwnPart, EmptyInv
    <3>7. ASSUME NEW x \in bundle'.facts PROVE Rank(Kind[x]) < Rank(pc')
      <4>0. FactLimit \in Nat
        BY QueryAssumption
      <4>1. \/ x \in bundle.facts
            \/ \E T \in Rows(Due(bundle, pc), FactLimit) : x \in T
        BY <3>2, <3>7 DEF OwnPart
      <4>2. CASE x \in bundle.facts
        <5>1. x \in Facts
          BY <4>2, BundleParts DEF TypeOK
        <5>2. Rank(Kind[x]) < Rank(pc) /\ Rank(Kind[x]) \in Nat
          BY <4>2, <5>1, FactRank DEF EmptyInv
        <5>3. QED
          BY <3>1, <5>2
      <4>3. CASE x \in Due(bundle, pc)
        <5>1. Kind[x] = pc
          BY <4>3 DEF Due
        <5>2. QED
          BY <3>1, <5>1
      <4>4. QED
        BY <4>0, <4>1, <4>2, <4>3, RowsAre
    <3>8. Rank(pc') <= 1 => bundle'.services = {}
      BY <3>1
    <3>9. Rank(pc') <= 2 => bundle'.files = <<>>
      BY <3>1, <3>2, <3>3 DEF OwnPart, EmptyInv
    <3>10. Rank(pc') <= 7 => bundle'.map = {}
      BY <3>1, <3>2, <3>3 DEF OwnPart, EmptyInv
    <3>11. QED
      BY <3>1, <3>4, <3>5, <3>6, <3>7, <3>8, <3>9, <3>10 DEF EmptyInv
  <2>5. CASE Trim /\ Cut
    <3>1. Rank(pc') = 16 /\ Rank(pc) = 15 /\ bundle' = Trimmed(bundle, budget)
      BY <2>5 DEF Trim, Cut, Goto, Rank
    <3>2. bundle'.facts \subseteq bundle.facts /\ bundle.facts \subseteq Facts
      <4>1. bundle \in Bundles /\ budget \in Nat
        BY QueryAssumption DEF TypeOK
      <4>2. QED
        BY <3>1, <4>1, TrimLess, BundleParts
    <3>3. \A x \in bundle'.facts : Rank(Kind[x]) < 16
      <4>1. \A x \in bundle'.facts : Rank(Kind[x]) < 15 /\ Rank(Kind[x]) \in Nat
        BY <3>1, <3>2, FactRank DEF EmptyInv
      <4>2. QED
        BY <4>1
    <3>4. QED
      BY <3>1, <3>3 DEF EmptyInv
  <2>5a. CASE Trim /\ Uncounted
    BY <2>5a DEF Trim, Uncounted, Goto, Rank, Empty, EmptyInv
  <2>6. ASSUME NEW f \in Files, Detach(f) PROVE EmptyInv'
    BY <2>6 DEF Detach, EmptyInv
  <2>7. CASE UNCHANGED vars
    BY <2>7 DEF vars, EmptyInv
  <2>8. QED
    BY <2>1, <2>2, <2>3, <2>4, <2>5, <2>5a, <2>6, <2>7 DEF Next, Trim
<1>3. QED
  BY <1>1, <1>2, TypeCorrect, PTL DEF Spec

\* translate and query invent nothing: the bundle shows nothing that was not a
\* candidate of the search or asked for.
THEOREM GroundedHolds == Spec => []Grounded
<1>1. Init => GroundInv
  BY NoElements DEF Init, GroundInv, Nothing, Empty
<1>2. TypeOK /\ EmptyInv /\ GroundInv /\ [Next]_vars => GroundInv'
  <2> SUFFICES ASSUME TypeOK, EmptyInv, GroundInv, [Next]_vars
               PROVE  GroundInv'
    OBVIOUS
  <2>1. ASSUME Ask PROVE GroundInv'
    <3>1. Rank(pc) = 0 /\ UNCHANGED <<g, bundle, offered>>
      BY <2>1 DEF Ask, Rank
    <3>2. QED
      BY <3>1, NoElements DEF EmptyInv, GroundInv, Empty, Nothing
  <2>2. ASSUME \/ FindChunks \/ FindSymbolsIn \/ FindFulltext \/ Fuse \/ Rerank
               \/ OneHop \/ ReadCatalog
               \/ ReadSummaries("summaries", cand, "sym_summaries")
               \/ ReadSummaries("sym_summaries", candSyms, "ground")
        PROVE  GroundInv'
    BY <2>2, SearchKeeps DEF GroundInv
  <2>3. ASSUME Ground PROVE GroundInv'
    <3>1. Rank(pc) = 0 /\ UNCHANGED <<bundle, hit>>
      BY <2>3 DEF Ground, Rank, request
    <3>2. FallbackTop \in Nat /\ cand \in Seq(Files) /\ candSyms \in Seq(Symbols)
      BY QueryAssumption DEF TypeOK
    <3>3. /\ ToSet(Top(cand, FallbackTop)) \subseteq ToSet(cand)
          /\ ToSet(Top(candSyms, FallbackTop)) \subseteq ToSet(candSyms)
      BY <3>2, TopType
    <3>4. \A V, F, S : \A n \in 0..3 :
             LET x == OrElse(Chosen(V, F, S, n)) IN
             /\ x.services \subseteq catalog /\ x.files \subseteq ToSet(cand)
             /\ x.symbols \subseteq ToSet(candSyms)
      BY <3>3 DEF OrElse, Chosen, Nothing
    <3>5. /\ g'.services \subseteq offered'.services /\ g'.files \subseteq offered'.files
          /\ g'.symbols \subseteq offered'.symbols
      BY <2>3, <3>4 DEF Ground
    <3>6. bundle'.services = {} /\ ToSet(bundle'.files) = {} /\ ToSet(bundle'.symbols) = {}
      BY <3>1, NoElements DEF EmptyInv, Empty
    <3>7. QED
      BY <3>5, <3>6 DEF GroundInv
  <2>4. ASSUME \/ HydrateServices \/ HydrateFiles \/ HydrateNamed \/ HydrateSymbols
               \/ CallNeighbours \/ RepoDocs \/ RepoMap \/ Code
               \/ (\E kind \in ToSet(MemoryKinds) : Remembered(kind))
               \/ VectorRecall \/ CrossRepo
        PROVE  GroundInv'
    <3>1. UNCHANGED <<hit, offered, g>>
      BY <2>4, StageDoes
    <3>2. OwnPart
      BY <2>4, StageMakes
    <3>3. \A T \in Rows(hit.names \cap Live, NameLimit) : T \subseteq hit.names
      <4>1. NameLimit \in Nat
        BY QueryAssumption
      <4>2. QED
        BY <4>1, RowsAre
    <3>4. QED
      BY <3>1, <3>2, <3>3 DEF OwnPart, GroundInv, Asked
  <2>5. CASE Trim /\ Cut
    <3>1. UNCHANGED <<hit, offered, g>> /\ bundle' = Trimmed(bundle, budget)
      BY <2>5 DEF Trim, Cut, request
    <3>2. bundle \in Bundles /\ budget \in Nat
      BY QueryAssumption DEF TypeOK
    <3>3. QED
      BY <3>1, <3>2, TrimLess DEF GroundInv
  <2>5a. CASE Trim /\ Uncounted
    BY <2>5a, NoElements DEF Trim, Uncounted, Empty, Nothing, GroundInv
  <2>6. ASSUME NEW f \in Files, Detach(f) PROVE GroundInv'
    BY <2>6 DEF Detach, GroundInv, request
  <2>7. CASE UNCHANGED vars
    BY <2>7 DEF vars, GroundInv, request
  <2>8. QED
    BY <2>1, <2>2, <2>3, <2>4, <2>5, <2>5a, <2>6, <2>7 DEF Next, Trim
<1>3. GroundInv => Grounded
  BY DEF GroundInv, Grounded
<1>4. QED
  BY <1>1, <1>2, <1>3, TypeCorrect, EmptyUntil, PTL DEF Spec

-----------------------------------------------------------------------------
(* The cut.                                                                *)

\* There is a first cut after which the bundle fits, or all are made.
LEMMA TrimmedIs ==
    ASSUME NEW b, NEW n
    PROVE  \E i \in 0..6 :
              /\ Trimmed(b, n) = Dropped(b, i)
              /\ i = 6 \/ Fits(Dropped(b, i), n)
              /\ \A j \in 0..(i - 1) : ~Fits(Dropped(b, j), n)
<1> DEFINE First(i) == /\ i = 6 \/ Fits(Dropped(b, i), n)
                       /\ \A j \in 0..(i - 1) : ~Fits(Dropped(b, j), n)
<1>1. \E i \in 0..6 : First(i)
  <2>1. CASE Fits(Dropped(b, 0), n)
    BY <2>1
  <2>2. CASE ~Fits(Dropped(b, 0), n) /\ Fits(Dropped(b, 1), n)
    <3>1. 0..(1 - 1) = {0}
      OBVIOUS
    <3>2. First(1)
      BY <2>2, <3>1
    <3>3. QED
      BY <3>2
  <2>3. CASE /\ ~Fits(Dropped(b, 0), n) /\ ~Fits(Dropped(b, 1), n)
             /\ Fits(Dropped(b, 2), n)
    <3>1. 0..(2 - 1) = {0, 1}
      OBVIOUS
    <3>2. First(2)
      BY <2>3, <3>1
    <3>3. QED
      BY <3>2
  <2>4. CASE /\ ~Fits(Dropped(b, 0), n) /\ ~Fits(Dropped(b, 1), n)
             /\ ~Fits(Dropped(b, 2), n) /\ Fits(Dropped(b, 3), n)
    <3>1. 0..(3 - 1) = {0, 1, 2}
      OBVIOUS
    <3>2. First(3)
      BY <2>4, <3>1
    <3>3. QED
      BY <3>2
  <2>5. CASE /\ ~Fits(Dropped(b, 0), n) /\ ~Fits(Dropped(b, 1), n)
             /\ ~Fits(Dropped(b, 2), n) /\ ~Fits(Dropped(b, 3), n)
             /\ Fits(Dropped(b, 4), n)
    <3>1. 0..(4 - 1) = {0, 1, 2, 3}
      OBVIOUS
    <3>2. First(4)
      BY <2>5, <3>1
    <3>3. QED
      BY <3>2
  <2>6. CASE /\ ~Fits(Dropped(b, 0), n) /\ ~Fits(Dropped(b, 1), n)
             /\ ~Fits(Dropped(b, 2), n) /\ ~Fits(Dropped(b, 3), n)
             /\ ~Fits(Dropped(b, 4), n) /\ Fits(Dropped(b, 5), n)
    <3>1. 0..(5 - 1) = {0, 1, 2, 3, 4}
      OBVIOUS
    <3>2. First(5)
      BY <2>6, <3>1
    <3>3. QED
      BY <3>2
  <2>7. CASE /\ ~Fits(Dropped(b, 0), n) /\ ~Fits(Dropped(b, 1), n)
             /\ ~Fits(Dropped(b, 2), n) /\ ~Fits(Dropped(b, 3), n)
             /\ ~Fits(Dropped(b, 4), n) /\ ~Fits(Dropped(b, 5), n)
    <3>1. 0..(6 - 1) = {0, 1, 2, 3, 4, 5}
      OBVIOUS
    <3>2. First(6)
      BY <2>7, <3>1
    <3>3. QED
      BY <3>2
  <2>8. QED
    BY <2>1, <2>2, <2>3, <2>4, <2>5, <2>6, <2>7
<1> DEFINE k == CHOOSE i \in 0..6 : First(i)
<1>2. k \in 0..6 /\ First(k)
  BY <1>1
<1>3. Trimmed(b, n) = Dropped(b, k)
  BY DEF Trimmed
<1> HIDE DEF k
<1>4. QED
  BY <1>2, <1>3

\* Also after _trim_to_budget, what the bundle shows hangs on something it shows.
THEOREM AnchoredHolds == Spec => []Anchored
<1>1. Init => Anchored
  BY NoElements DEF Init, Anchored, Empty
<1>2. TypeOK /\ EmptyInv /\ Anchored /\ [Next]_vars => Anchored'
  <2> SUFFICES ASSUME TypeOK, EmptyInv, Anchored, [Next]_vars
               PROVE  Anchored'
    OBVIOUS
  <2>0. /\ bundle \in Bundles /\ bundle.files \in Seq(Files)
        /\ bundle.symbols \in Seq(Symbols) /\ bundle.chunks \in Seq(Chunks)
        /\ bundle.facts \subseteq Facts
    BY BundleParts DEF TypeOK
  <2>1. ASSUME UNCHANGED <<here, bundle>> PROVE Anchored'
    BY <2>1 DEF Anchored, Anchors, Live
  <2>2. ASSUME \/ HydrateServices \/ HydrateFiles \/ HydrateNamed \/ HydrateSymbols
               \/ CallNeighbours \/ RepoDocs \/ RepoMap \/ Code
               \/ (\E kind \in ToSet(MemoryKinds) : Remembered(kind))
               \/ VectorRecall \/ CrossRepo
        PROVE  Anchored'
    <3>1. UNCHANGED here
      BY <2>2, StageDoes
    <3>2. OwnPart
      BY <2>2, StageMakes
    <3>3. CASE pc \in {"files", "named", "symbols"}
      <4>1. bundle.calls = {} /\ bundle.chunks = <<>> /\ bundle.facts = {}
        <5>1. Rank(pc) \in {2, 3, 4}
          BY <3>3 DEF Rank
        <5>2. ASSUME NEW x \in bundle.facts PROVE FALSE
          <6>1. Rank(Kind[x]) < Rank(pc)
            BY DEF EmptyInv
          <6>2. Rank(Kind[x]) \in {9, 10, 12, 13}
            BY <2>0, FactRank
          <6>3. QED
            BY <5>1, <6>1, <6>2
        <5>3. bundle.facts = {}
          BY <5>2
        <5>4. QED
          BY <5>1, <5>3 DEF EmptyInv
      <4>2. bundle'.calls = {} /\ bundle'.chunks = <<>> /\ bundle'.facts = {}
        BY <3>2, <3>3, <4>1, MemoryKindsAre DEF OwnPart
      <4>3. QED
        BY <4>2, NoElements DEF Anchored
    <3>4. CASE pc \notin {"files", "named", "symbols"}
      <4>1. bundle'.files = bundle.files /\ bundle'.symbols = bundle.symbols
        BY <3>2, <3>4 DEF OwnPart
      <4>2. ASSUME NEW x \in bundle'.facts
            PROVE  \/ About[x] \cap Anchors(bundle') # {}
                   \/ Kind[x] = "decisions" /\ About[x] \cap Live' = {}
        <5>0. FactLimit \in Nat
          BY QueryAssumption
        <5>1. x \in bundle.facts \/ x \in Due(bundle, pc)
          BY <3>2, <4>2, <5>0, RowsAre DEF OwnPart
        <5>2. Anchors(bundle') = Anchors(bundle) /\ Live' = Live
          BY <3>1, <4>1 DEF Anchors, Live
        <5>3. QED
          BY <5>1, <5>2 DEF Anchored, Due, Hangs
      <4>3. ASSUME NEW e \in bundle'.calls
            PROVE  {e[1], e[2]} \cap ToSet(bundle'.symbols) # {}
        <5>1. CASE e \in bundle.calls
          BY <4>1, <5>1 DEF Anchored
        <5>2. CASE bundle.symbols # <<>> /\ Head(bundle.symbols) \in {e[1], e[2]}
          <6>1. 1 \in 1..Len(bundle.symbols) /\ bundle.symbols[1] = Head(bundle.symbols)
            BY <2>0, <5>2
          <6>2. Head(bundle.symbols) \in ToSet(bundle.symbols)
            BY <2>0, <6>1, Elements
          <6>3. QED
            BY <4>1, <5>2, <6>2
        <5>3. QED
          BY <3>2, <4>3, <5>1, <5>2 DEF OwnPart
      <4>4. \A c \in ToSet(bundle'.chunks) : ChunkOf[c] \in ToSet(bundle'.files)
        <5>1. ToSet(Top(bundle.files, ChunkFiles)) \subseteq ToSet(bundle.files)
          BY <2>0, QueryAssumption, TopType
        <5>2. \A T \in Earliest(ChunksDue) : \A c \in T : ChunkOf[c] \in ToSet(bundle.files)
          BY <5>1, EarliestAre DEF ChunksDue, ChunksOf
        <5>3. QED
          BY <3>2, <4>1, <5>2 DEF OwnPart, Anchored
      <4>5. QED
        BY <4>2, <4>3, <4>4 DEF Anchored
    <3>5. QED
      BY <3>3, <3>4
  <2>3. CASE Trim /\ Cut
    <3>1. bundle' = Trimmed(bundle, budget) /\ UNCHANGED here
      BY <2>3 DEF Trim, Cut
    <3>2. PICK i \in 0..6 : bundle' = Dropped(bundle, i)
      BY <3>1, TrimmedIs
    <3>3. ToSet(Top(bundle.chunks, KeepChunks)) \subseteq ToSet(bundle.chunks)
      BY <2>0, QueryAssumption, TopType
    <3>4. i <= 3 => /\ bundle'.files = bundle.files /\ bundle'.symbols = bundle.symbols
                    /\ bundle'.facts = bundle.facts /\ bundle'.calls \subseteq bundle.calls
                    /\ ToSet(bundle'.chunks) \subseteq ToSet(bundle.chunks)
      BY <3>2, <3>3, NoElements DEF Dropped
    <3>5. i > 3 => bundle'.facts = {} /\ bundle'.calls = {} /\ bundle'.chunks = <<>>
      BY <3>2 DEF Dropped
    <3>6. CASE i <= 3
      <4>1. Anchors(bundle') = Anchors(bundle) /\ Live' = Live
        BY <3>1, <3>4, <3>6 DEF Anchors, Live
      <4>2. QED
        BY <3>4, <3>6, <4>1 DEF Anchored
    <3>7. CASE i > 3
      BY <3>5, <3>7, NoElements DEF Anchored
    <3>8. QED
      BY <3>6, <3>7
  <2>3a. CASE Trim /\ Uncounted
    BY <2>3a, NoElements DEF Trim, Uncounted, Empty, Anchored
  <2>4. ASSUME NEW f \in Files, Detach(f) PROVE Anchored'
    <3>1. Live' \subseteq Live /\ UNCHANGED bundle
      BY <2>4 DEF Detach, Live
    <3>2. QED
      BY <3>1 DEF Anchored, Anchors
  <2>5. QED
    <3>1. Ask \/ Ground => UNCHANGED <<here, bundle>>
      BY DEF Ask, Ground
    <3>2. UNCHANGED vars => UNCHANGED <<here, bundle>>
      BY DEF vars
    <3>3. QED
      BY <2>1, <2>2, <2>3, <2>3a, <2>4, <3>1, <3>2, SearchKeeps DEF Next, Trim
<1>3. QED
  BY <1>1, <1>2, TypeCorrect, EmptyUntil, PTL DEF Spec

\* Without calls and code, three cuts are made.
LEMMA BareIs ==
    ASSUME NEW b \in Bundles, NEW c, c = [b EXCEPT !.calls = {}, !.chunks = <<>>]
    PROVE  c = Dropped(b, 3)
<1>1. /\ c.services = b.services /\ c.files = b.files /\ c.symbols = b.symbols
      /\ c.calls = {} /\ c.docs = b.docs /\ c.map = b.map
      /\ c.chunks = <<>> /\ c.facts = b.facts /\ c.cross = b.cross
  BY DEF Bundles
<1>2. c = [x \in {"services", "files", "symbols", "calls", "docs", "map", "chunks",
                  "facts", "cross"} |-> c[x]]
  BY DEF Bundles
<1>3. c = [services |-> b.services, files |-> b.files, symbols |-> b.symbols,
           calls |-> {}, docs |-> b.docs, map |-> b.map, chunks |-> <<>>,
           facts |-> b.facts, cross |-> b.cross]
  BY <1>1, <1>2
<1>4. Dropped(b, 3) =
          [services |-> b.services, files |-> b.files, symbols |-> b.symbols,
           calls |-> {}, docs |-> b.docs, map |-> b.map, chunks |-> <<>>,
           facts |-> b.facts, cross |-> b.cross]
  BY DEF Dropped
<1>5. QED
  BY <1>3, <1>4

\* Without facts and links too, four.
LEMMA LeastIs ==
    ASSUME NEW b \in Bundles, NEW c, c = [[b EXCEPT !.calls = {}, !.chunks = <<>>]
                               EXCEPT !.facts = {}, !.cross = {}]
    PROVE  c = Dropped(b, 4)
<1>1. /\ c.services = b.services /\ c.files = b.files /\ c.symbols = b.symbols
      /\ c.calls = {} /\ c.docs = b.docs /\ c.map = b.map
      /\ c.chunks = <<>> /\ c.facts = {} /\ c.cross = {}
  BY DEF Bundles
<1>2. c = [x \in {"services", "files", "symbols", "calls", "docs", "map", "chunks",
                  "facts", "cross"} |-> c[x]]
  BY DEF Bundles
<1>3. c = [services |-> b.services, files |-> b.files, symbols |-> b.symbols,
           calls |-> {}, docs |-> b.docs, map |-> b.map, chunks |-> <<>>,
           facts |-> {}, cross |-> {}]
  BY <1>1, <1>2
<1>4. Dropped(b, 4) =
          [services |-> b.services, files |-> b.files, symbols |-> b.symbols,
           calls |-> {}, docs |-> b.docs, map |-> b.map, chunks |-> <<>>,
           facts |-> {}, cross |-> {}]
  BY DEF Dropped
<1>5. QED
  BY <1>3, <1>4

\* What is left after all cuts is only what is never dropped.
LEMMA RestIs ==
    ASSUME NEW d, NEW m, NEW c, c = [Empty EXCEPT !.docs = d, !.map = m]
    PROVE  c = [services |-> {}, files |-> <<>>, symbols |-> <<>>, calls |-> {},
                docs |-> d, map |-> m, chunks |-> <<>>, facts |-> {}, cross |-> {}]
<1>1. /\ c.services = {} /\ c.files = <<>> /\ c.symbols = <<>> /\ c.calls = {}
      /\ c.docs = d /\ c.map = m /\ c.chunks = <<>> /\ c.facts = {} /\ c.cross = {}
  BY DEF Empty
<1>2. c = [x \in {"services", "files", "symbols", "calls", "docs", "map", "chunks",
                  "facts", "cross"} |-> c[x]]
  BY DEF Empty
<1>3. QED
  BY <1>1, <1>2

\* _trim_to_budget: facts go only if calls and code had to, the anchors only if
\* facts had to.
THEOREM CutInOrderHolds == Spec => []CutInOrder
<1>1. Init => CutInOrder
  BY DEF Init, CutInOrder
<1>2. TypeOK /\ CutInOrder /\ [Next]_vars => CutInOrder'
  <2> SUFFICES ASSUME TypeOK, CutInOrder, [Next]_vars
               PROVE  CutInOrder'
    OBVIOUS
  <2>1. ASSUME Trim, Cut PROVE CutInOrder'
    <3>1. /\ whole' = bundle /\ bundle' = Trimmed(bundle, budget)
          /\ UNCHANGED <<budget, errors>>
      BY <2>1 DEF Trim, Cut, request, Fine
    <3>2. PICK i \in 0..6 :
             /\ bundle' = Dropped(bundle, i)
             /\ i = 6 \/ Fits(Dropped(bundle, i), budget)
             /\ \A j \in 0..(i - 1) : ~Fits(Dropped(bundle, j), budget)
      BY <3>1, TrimmedIs
    <3>3. bundle \in Bundles
      BY DEF TypeOK
    <3> DEFINE bare == [bundle EXCEPT !.calls = {}, !.chunks = <<>>]
               least == [bare EXCEPT !.facts = {}, !.cross = {}]
    <3>4. bare = Dropped(bundle, 3)
      BY <3>3, BareIs
    <3>5. least = Dropped(bundle, 4)
      BY <3>3, LeastIs
    <3>6. \A b : Fits(b, budget)' <=> Fits(b, budget)
      BY <3>1 DEF Fits, Tokens, Shown
    <3>7. bundle'.facts # bundle.facts => ~Fits(bare, budget)
      <4>1. bundle'.facts # bundle.facts => i > 3
        BY <3>2 DEF Dropped
      <4>2. i > 3 => 3 \in 0..(i - 1)
        OBVIOUS
      <4>3. QED
        BY <3>2, <3>4, <4>1, <4>2
    <3>8. \/ bundle'.files # bundle.files \/ bundle'.symbols # bundle.symbols
          \/ bundle'.services # bundle.services
          => ~Fits(least, budget)
      <4>1. \/ bundle'.files # bundle.files \/ bundle'.symbols # bundle.symbols
            \/ bundle'.services # bundle.services
            => i > 4
        BY <3>2 DEF Dropped
      <4>2. i > 4 => 4 \in 0..(i - 1)
        OBVIOUS
      <4>3. QED
        BY <3>2, <3>5, <4>1, <4>2
    <3>9. \/ Fits(bundle', budget)
          \/ /\ bundle' = [Empty EXCEPT !.docs = bundle'.docs, !.map = bundle'.map]
             /\ bundle'.docs # "long"
      <4>1. CASE i # 6
        BY <3>2, <4>1
      <4>2. CASE i = 6
        <5>1. bundle' = [services |-> {}, files |-> <<>>, symbols |-> <<>>, calls |-> {},
                         docs |-> bundle'.docs, map |-> bundle'.map, chunks |-> <<>>,
                         facts |-> {}, cross |-> {}]
          BY <3>2, <4>2 DEF Dropped
        <5>2. [Empty EXCEPT !.docs = bundle'.docs, !.map = bundle'.map] =
                 [services |-> {}, files |-> <<>>, symbols |-> <<>>, calls |-> {},
                  docs |-> bundle'.docs, map |-> bundle'.map, chunks |-> <<>>,
                  facts |-> {}, cross |-> {}]
          BY RestIs
        <5>3. bundle'.docs # "long"
          BY <3>2, <4>2 DEF Dropped
        <5>4. QED
          BY <5>1, <5>2, <5>3
      <4>3. QED
        BY <4>1, <4>2
    <3>10. QED
      BY <3>1, <3>6, <3>7, <3>8, <3>9 DEF CutInOrder
  <2>2. ASSUME pc' # "done" PROVE CutInOrder'
    BY <2>2 DEF CutInOrder
  <2>3. Ask \/ Ground \/ Uncounted => pc' # "done"
    BY DEF Ask, Ground, Uncounted, Goto
  <2>4. ASSUME NEW f \in Files, Detach(f) PROVE pc' # "done"
    BY <2>4 DEF Detach
  <2>5. CASE UNCHANGED vars
    BY <2>5 DEF vars, request, CutInOrder, Fits, Tokens, Shown
  <2>6. QED
    BY <2>1, <2>2, <2>3, <2>4, <2>5, SearchKeeps, StageDoes DEF Next, Trim
<1>3. QED
  BY <1>1, <1>2, TypeCorrect, PTL DEF Spec

-----------------------------------------------------------------------------
(* What is left out.                                                       *)

\* A stage that is over has done its part or has failed.
OwnDone ==
    /\ failed \subseteq failed'
    /\ pc = "services" => \/ "services" \in failed'
                          \/ bundle'.services = g.services
                          \/ g.services = {} /\ bundle'.services = bundle.services
    /\ pc = "files" => \/ "files" \in failed'
                       \/ ToSet(bundle'.files) = Asked \cap here
                       \/ Asked = {} /\ bundle'.files = bundle.files
    /\ pc = "named" => \/ "symbols" \in failed'
                       \/ /\ hit.kind = "symbol" /\ pc' = "symbols"
                          /\ ToSet(bundle'.symbols)
                                \in Rows(hit.names \cap Live, NameLimit)
                       \/ /\ hit.kind # "symbol" /\ pc' = "symbols"
                          /\ bundle'.symbols = bundle.symbols
    /\ pc = "symbols" =>
          \/ "symbols" \in failed'
          \/ ToSet(bundle'.symbols) = (g.symbols \cap Live) \cup ToSet(bundle.symbols)
          \/ g.symbols = {} /\ bundle'.symbols = bundle.symbols
    /\ pc = "repo_map" => \/ "repo_map" \in failed'
                          \/ bundle'.map = Asked \cap here
                          \/ Asked = {} /\ bundle'.map = bundle.map
    /\ pc = "code" =>
          \/ "code" \in failed'
          \/ ToSet(bundle'.chunks) \in Earliest(ChunksDue)
          \/ bundle.files = <<>> /\ bundle'.chunks = bundle.chunks
    /\ pc \in ToSet(MemoryKinds) =>
          \/ pc \in failed' \/ Anchors(bundle) = {}
          \/ \E T \in Rows(Due(bundle, pc), FactLimit) :
                bundle'.facts = bundle.facts \cup T
    /\ pc = "cross_repo" => \/ "cross_repo" \in failed'
                            \/ bundle'.cross \in Rows(Related, LinkLimit)

\* What a stage leaves of its own part, if it has not failed and no file was
\* detached.
LEMMA StageEnds ==
    ASSUME TypeOK,
           \/ HydrateServices \/ HydrateFiles \/ HydrateNamed \/ HydrateSymbols
           \/ CallNeighbours \/ RepoDocs \/ RepoMap \/ Code
           \/ (\E kind \in ToSet(MemoryKinds) : Remembered(kind))
           \/ VectorRecall \/ CrossRepo
    PROVE  OwnDone
<1>0. /\ IsFiniteSet(Files) /\ IsFiniteSet(Symbols) /\ IsFiniteSet(Chunks)
      /\ NameLimit \in Nat /\ here \subseteq Files
      /\ bundle \in Bundles /\ hit \in Hits
      /\ g \in [services : SUBSET Services, files : SUBSET Files,
                symbols : SUBSET Symbols]
  BY QueryAssumption DEF TypeOK
<1>1. DOMAIN bundle = {"services", "files", "symbols", "calls", "docs", "map",
                       "chunks", "facts", "cross"}
      /\ bundle.symbols \in Seq(Symbols)
  BY <1>0 DEF Bundles
<1>2. failed \subseteq failed'
  BY DEF HydrateServices, HydrateFiles, HydrateNamed, HydrateSymbols, CallNeighbours,
         RepoDocs, RepoMap, Code, Remembered, VectorRecall, CrossRepo, Skips, Sets,
         Misses, Fine, Fails
<1>3. ASSUME HydrateServices PROVE OwnDone
  <2>1. \/ "services" \in failed'
        \/ bundle' = [bundle EXCEPT !.services = g.services]
        \/ g.services = {} /\ bundle' = bundle
    BY <1>3 DEF HydrateServices, Skips, Sets, Misses, Fails
  <2>2. \/ "services" \in failed' \/ bundle'.services = g.services
        \/ g.services = {} /\ bundle'.services = bundle.services
    BY <1>1, <2>1
  <2>3. pc = "services"
    BY <1>3 DEF HydrateServices
  <2>4. QED
    BY <1>2, <2>2, <2>3, MemoryKindsAre DEF OwnDone
<1>4. ASSUME HydrateFiles PROVE OwnDone
  <2>1. Asked \cap here \in SUBSET Files
    BY <1>0
  <2>2. \A q \in SetToSeqs(Asked \cap here) : ToSet(q) = Asked \cap here
    BY <1>0, <2>1, Listing
  <2>3. \/ "files" \in failed'
        \/ \E q \in SetToSeqs(Asked \cap here) : bundle' = [bundle EXCEPT !.files = q]
        \/ Asked = {} /\ bundle' = bundle
    BY <1>4 DEF HydrateFiles, Skips, Sets, Misses, Fails
  <2>4. \/ "files" \in failed' \/ ToSet(bundle'.files) = Asked \cap here
        \/ Asked = {} /\ bundle'.files = bundle.files
    BY <1>1, <2>2, <2>3
  <2>5. pc = "files"
    BY <1>4 DEF HydrateFiles
  <2>6. QED
    BY <1>2, <2>4, <2>5, MemoryKindsAre DEF OwnDone
<1>5. ASSUME HydrateNamed PROVE OwnDone
  <2>1. ASSUME hit.kind = "symbol"
        PROVE  \A T \in Rows(hit.names \cap Live, NameLimit) :
               \A q \in SetToSeqs(T) : ToSet(q) = T
    <3>1. hit.names \in SUBSET Symbols
      BY <1>0, <2>1, QueryAssumption DEF Hits
    <3>2. \A T \in Rows(hit.names \cap Live, NameLimit) : T \in SUBSET Symbols
      BY <1>0, <3>1, RowsAre
    <3>3. QED
      BY <1>0, <3>2, Listing
  <2>2. \/ "symbols" \in failed'
        \/ /\ hit.kind = "symbol" /\ pc' = "symbols"
           /\ \E T \in Rows(hit.names \cap Live, NameLimit) : \E q \in SetToSeqs(T) :
                 bundle' = [bundle EXCEPT !.symbols = q]
        \/ hit.kind # "symbol" /\ pc' = "symbols" /\ bundle' = bundle
    BY <1>5 DEF HydrateNamed, Skips, Sets, Misses, Fails, Goto
  <2>3. \/ "symbols" \in failed'
        \/ /\ hit.kind = "symbol" /\ pc' = "symbols"
           /\ ToSet(bundle'.symbols) \in Rows(hit.names \cap Live, NameLimit)
        \/ hit.kind # "symbol" /\ pc' = "symbols" /\ bundle'.symbols = bundle.symbols
    BY <1>1, <2>1, <2>2
  <2>4. pc = "named"
    BY <1>5 DEF HydrateNamed
  <2>5. QED
    BY <1>2, <2>3, <2>4, MemoryKindsAre DEF OwnDone
<1>6. ASSUME HydrateSymbols PROVE OwnDone
  <2>1. g.symbols \cap Live \in SUBSET Symbols
    BY <1>0
  <2>2. \A q \in SetToSeqs(g.symbols \cap Live) :
           q \in Seq(Symbols) /\ ToSet(q) = g.symbols \cap Live
    BY <1>0, <2>1, Listing
  <2>3. \A q \in SetToSeqs(g.symbols \cap Live) :
           ToSet(q \o bundle.symbols) = (g.symbols \cap Live) \cup ToSet(bundle.symbols)
    BY <1>1, <2>2, Joined
  <2>4. \/ "symbols" \in failed'
        \/ \E q \in SetToSeqs(g.symbols \cap Live) :
              bundle' = [bundle EXCEPT !.symbols = q \o bundle.symbols]
        \/ g.symbols = {} /\ bundle' = bundle
    BY <1>6 DEF HydrateSymbols, Skips, Sets, Misses, Fails
  <2>5. \/ "symbols" \in failed'
        \/ ToSet(bundle'.symbols) = (g.symbols \cap Live) \cup ToSet(bundle.symbols)
        \/ g.symbols = {} /\ bundle'.symbols = bundle.symbols
    BY <1>1, <2>3, <2>4
  <2>6. pc = "symbols"
    BY <1>6 DEF HydrateSymbols
  <2>7. QED
    BY <1>2, <2>5, <2>6, MemoryKindsAre DEF OwnDone
<1>7. ASSUME pc \in {"calls", "repo_docs", "vector"} PROVE OwnDone
  BY <1>2, <1>7, MemoryKindsAre DEF OwnDone
<1>8. ASSUME RepoMap PROVE OwnDone
  <2>1. \/ "repo_map" \in failed'
        \/ bundle' = [bundle EXCEPT !.map = Asked \cap here]
        \/ Asked = {} /\ bundle' = bundle
    BY <1>8 DEF RepoMap, Skips, Sets, Misses, Fails
  <2>2. \/ "repo_map" \in failed' \/ bundle'.map = Asked \cap here
        \/ Asked = {} /\ bundle'.map = bundle.map
    BY <1>1, <2>1
  <2>3. pc = "repo_map"
    BY <1>8 DEF RepoMap
  <2>4. QED
    BY <1>2, <2>2, <2>3, MemoryKindsAre DEF OwnDone
<1>9. ASSUME Code PROVE OwnDone
  <2>1. \A T \in Earliest(ChunksDue) : T \in SUBSET Chunks
    BY EarliestAre DEF ChunksDue, ChunksOf
  <2>2. \A T \in Earliest(ChunksDue) : \A q \in ByLine(T) : ToSet(q) = T
    BY <1>0, <2>1, Listing DEF ByLine
  <2>3. \/ "code" \in failed'
        \/ \E T \in Earliest(ChunksDue) : \E q \in ByLine(T) :
              bundle' = [bundle EXCEPT !.chunks = q]
        \/ bundle.files = <<>> /\ bundle' = bundle
    BY <1>9 DEF Code, Skips, Sets, Misses, Fails
  <2>4. \/ "code" \in failed' \/ ToSet(bundle'.chunks) \in Earliest(ChunksDue)
        \/ bundle.files = <<>> /\ bundle'.chunks = bundle.chunks
    BY <1>1, <2>2, <2>3
  <2>5. pc = "code"
    BY <1>9 DEF Code
  <2>6. QED
    BY <1>2, <2>4, <2>5, MemoryKindsAre DEF OwnDone
<1>10. ASSUME NEW kind \in ToSet(MemoryKinds), Remembered(kind) PROVE OwnDone
  <2>1. \/ kind \in failed' \/ Anchors(bundle) = {}
        \/ \E T \in Rows(Due(bundle, kind), FactLimit) :
              bundle' = [bundle EXCEPT !.facts = bundle.facts \cup T]
    BY <1>10, Zenon DEF Remembered, Skips, Sets, Misses, Fails
  <2>2. \/ kind \in failed' \/ Anchors(bundle) = {}
        \/ \E T \in Rows(Due(bundle, kind), FactLimit) :
              bundle'.facts = bundle.facts \cup T
    BY <1>1, <2>1
  <2>3. pc = kind
    BY <1>10 DEF Remembered
  <2>4. QED
    BY <1>2, <2>2, <2>3, MemoryKindsAre DEF OwnDone
<1>11. ASSUME CrossRepo PROVE OwnDone
  <2>1. \/ "cross_repo" \in failed'
        \/ \E T \in Rows(Related, LinkLimit) : bundle' = [bundle EXCEPT !.cross = T]
    BY <1>11 DEF CrossRepo, Sets, Misses, Fails
  <2>2. "cross_repo" \in failed' \/ bundle'.cross \in Rows(Related, LinkLimit)
    BY <1>1, <2>1
  <2>3. pc = "cross_repo"
    BY <1>11 DEF CrossRepo
  <2>4. QED
    BY <1>2, <2>2, <2>3, MemoryKindsAre DEF OwnDone
<1>12. CallNeighbours \/ RepoDocs \/ VectorRecall
          => pc \in {"calls", "repo_docs", "vector"}
  BY DEF CallNeighbours, RepoDocs, VectorRecall
<1>13. QED
  BY <1>3, <1>4, <1>5, <1>6, <1>7, <1>8, <1>9, <1>10, <1>11, <1>12

\* Every source that has not failed has given all it has.
AllThere ==
    /\ "services" \in failed \/ Draft.services = g.services
    /\ "files" \in failed \/ ToSet(Draft.files) = Asked \cap Files
    /\ \/ "symbols" \in failed
       \/ \E T \in Rows(hit.names \cap Symbols, NameLimit) :
             ToSet(Draft.symbols) = g.symbols \cup T
    /\ "repo_map" \in failed \/ Draft.map = Asked \cap Files
    /\ "code" \in failed \/ ToSet(Draft.chunks) \in Earliest(ChunksOf(Draft))
    /\ \A kind \in ToSet(MemoryKinds) :
          \/ kind \in failed \/ Anchors(Draft) = {}
          \/ OfKind(Draft, kind) \in Rows(Due(Draft, kind), FactLimit)
    /\ "cross_repo" \in failed \/ Draft.cross \in Rows(Related, LinkLimit)

\* When all stages are over, that is what the invariant says.
LEMMA RankOver ==
    ASSUME Rank(pc) \in {15, 16}, here = Files
    PROVE  CompleteInv <=> AllThere
<1>1. \A kind \in ToSet(MemoryKinds) : Rank(kind) \in {9, 10, 12, 13}
  BY MemoryKindsAre DEF Rank
<1>2. /\ ~(Rank(pc) <= 1) /\ ~(Rank(pc) <= 2) /\ Rank(pc) # 4 /\ ~(Rank(pc) <= 4)
      /\ ~(Rank(pc) <= 7) /\ ~(Rank(pc) <= 8) /\ ~(Rank(pc) <= 14)
  OBVIOUS
<1>3. \A kind \in ToSet(MemoryKinds) : ~(Rank(pc) <= Rank(kind))
  BY <1>1
<1>4. QED
  BY <1>2, <1>3, Zenon DEF CompleteInv, AllThere

\* query: a source of which the errors say nothing gives all it has, whichever
\* others fail.
THEOREM CompleteHolds == Spec => []Complete
<1>0. /\ Home \in [Symbols -> Files] /\ Files \cap Symbols = {}
      /\ Kind \in [Facts -> ToSet(MemoryKinds)] /\ ChunkFiles \in Nat
      /\ NameLimit \in Nat /\ FactLimit \in Nat /\ ChunkOf \in [Chunks -> Files]
      /\ Paths \subseteq Files \cup {Ghost} /\ Ghost \notin Symbols
  BY QueryAssumption
<1>1. \A kind \in ToSet(MemoryKinds) : Rank(kind) \in {9, 10, 12, 13}
  BY MemoryKindsAre DEF Rank
<1>2. Init => CompleteInv
  BY <1>1 DEF Init, CompleteInv, Rank
<1>3. TypeOK /\ EmptyInv /\ CompleteInv /\ [Next]_vars => CompleteInv'
  <2> SUFFICES ASSUME TypeOK, EmptyInv, CompleteInv, [Next]_vars, here' = Files
               PROVE  CompleteInv'
    BY DEF CompleteInv
  <2>0. here \subseteq Files /\ hit \in Hits /\ Rank(pc) \in Nat /\ Rank(pc') \in Nat
    BY DEF TypeOK, Rank
  <2>1. ASSUME Rank(pc') \in {0, 1} PROVE CompleteInv'
    BY <1>1, <2>1 DEF CompleteInv
  <2>2. ASSUME \/ HydrateServices \/ HydrateFiles \/ HydrateNamed \/ HydrateSymbols
               \/ CallNeighbours \/ RepoDocs \/ RepoMap \/ Code
               \/ (\E kind \in ToSet(MemoryKinds) : Remembered(kind))
               \/ VectorRecall \/ CrossRepo
        PROVE  CompleteInv'
    <3>1. /\ UNCHANGED <<here, hit, g, whole>> /\ here = Files
          /\ Rank(pc) > 0 /\ Rank(pc') > Rank(pc) /\ pc # "done" /\ pc' # "done"
          /\ Rank(pc') = Rank(pc) + 1 \/ (pc = "named" /\ pc' = "calls")
      BY <2>2, StageDoes
    <3>2. Draft = bundle /\ Draft' = bundle'
      BY <3>1 DEF Draft
    <3>3. OwnPart
      BY <2>2, StageMakes
    <3>4. OwnDone
      BY <2>2, StageEnds
    <3>5. \/ Rank(pc) <= 14 \/ "cross_repo" \in failed
          \/ bundle.cross \in Rows(Related, LinkLimit)
      BY <3>1, <3>2 DEF CompleteInv
    <3>6. /\ (pc = "services" <=> Rank(pc) = 1) /\ (pc = "files" <=> Rank(pc) = 2)
          /\ (pc = "named" <=> Rank(pc) = 3) /\ (pc = "symbols" <=> Rank(pc) = 4)
          /\ (pc = "repo_map" <=> Rank(pc) = 7) /\ (pc = "code" <=> Rank(pc) = 8)
          /\ (pc = "cross_repo" <=> Rank(pc) = 14)
          /\ (pc' = "calls" => Rank(pc') = 5) /\ (pc' = "symbols" <=> Rank(pc') = 4)
      BY DEF Rank
    <3>7. pc \in ToSet(MemoryKinds) => Rank(pc) \in {9, 10, 12, 13}
      BY MemoryKindsAre DEF Rank
    <3>8. ASSUME NEW kind \in ToSet(MemoryKinds), Rank(pc) = Rank(kind) PROVE pc = kind
      BY <3>8, MemoryKindsAre DEF Rank
    <3>9. Live = Files \cup Symbols
      BY <1>0, <3>1 DEF Live
    <3>10. Asked' = Asked
      BY <3>1 DEF Asked
    <3>11. CompleteInv
           /\ \/ Rank(pc) <= 1 \/ "services" \in failed \/ bundle.services = g.services
           /\ \/ Rank(pc) <= 2 \/ "files" \in failed
              \/ ToSet(bundle.files) = Asked \cap Files
           /\ \/ Rank(pc) # 4 \/ "symbols" \in failed
              \/ ToSet(bundle.symbols) \in Rows(hit.names \cap Symbols, NameLimit)
           /\ \/ Rank(pc) <= 4 \/ "symbols" \in failed
              \/ \E T \in Rows(hit.names \cap Symbols, NameLimit) :
                    ToSet(bundle.symbols) = g.symbols \cup T
           /\ \/ Rank(pc) <= 7 \/ "repo_map" \in failed \/ bundle.map = Asked \cap Files
           /\ \/ Rank(pc) <= 8 \/ "code" \in failed
              \/ ToSet(bundle.chunks) \in Earliest(ChunksOf(bundle))
           /\ \A kind \in ToSet(MemoryKinds) :
                 \/ Rank(pc) <= Rank(kind) \/ kind \in failed \/ Anchors(bundle) = {}
                 \/ OfKind(bundle, kind) \in Rows(Due(bundle, kind), FactLimit)
      BY <3>1, <3>2 DEF CompleteInv
    <3>12. Rank(pc') <= 1 \/ "services" \in failed' \/ bundle'.services = g.services
      <4>1. CASE pc = "services"
        <5>1. bundle.services = {}
          BY <3>6, <4>1 DEF EmptyInv
        <5>2. QED
          BY <3>4, <4>1, <5>1 DEF OwnDone
      <4>2. CASE pc # "services"
        <5>1. Rank(pc) > 1 /\ bundle'.services = bundle.services
          BY <2>0, <3>1, <3>3, <3>6, <4>2 DEF OwnPart
        <5>2. QED
          BY <2>0, <3>1, <3>4, <3>11, <5>1 DEF OwnDone
      <4>3. QED
        BY <4>1, <4>2
    <3>13. \/ Rank(pc') <= 2 \/ "files" \in failed'
           \/ ToSet(bundle'.files) = Asked \cap Files
      BY <2>0, <3>1, <3>3, <3>4, <3>6, <3>11, NoElements DEF OwnPart, OwnDone, EmptyInv
    <3>14. hit.kind # "symbol" => hit.names \cap Symbols = {}
      BY <1>0, <2>0 DEF Hits
    <3>15. hit.names \cap Live = hit.names \cap Symbols \/ hit.kind # "symbol"
      BY <1>0, <2>0, <3>9, QueryAssumption DEF Hits
    <3>16. \/ Rank(pc') # 4 \/ "symbols" \in failed'
           \/ ToSet(bundle'.symbols) \in Rows(hit.names \cap Symbols, NameLimit)
      <4> SUFFICES ASSUME Rank(pc') = 4, "symbols" \notin failed'
                   PROVE  ToSet(bundle'.symbols)
                             \in Rows(hit.names \cap Symbols, NameLimit)
        OBVIOUS
      <4>1. pc = "named"
        BY <2>0, <3>1, <3>6
      <4>2. bundle.symbols = <<>>
        BY <3>6, <4>1 DEF EmptyInv
      <4>3. QED
        <5>1. CASE hit.kind = "symbol"
          BY <3>4, <3>15, <4>1, <5>1 DEF OwnDone
        <5>2. CASE hit.kind # "symbol"
          <6>1. ToSet(bundle'.symbols) = {}
            BY <3>4, <4>1, <4>2, <5>2, NoElements DEF OwnDone
          <6>2. QED
            BY <1>0, <3>14, <5>2, <6>1, RowsAre
        <5>3. QED
          BY <5>1, <5>2
    <3>17. \/ Rank(pc') <= 4 \/ "symbols" \in failed'
           \/ \E T \in Rows(hit.names \cap Symbols, NameLimit) :
                 ToSet(bundle'.symbols) = g.symbols \cup T
      <4> SUFFICES ASSUME ~(Rank(pc') <= 4), "symbols" \notin failed'
                   PROVE  \E T \in Rows(hit.names \cap Symbols, NameLimit) :
                             ToSet(bundle'.symbols) = g.symbols \cup T
        OBVIOUS
      <4>0. Rank(pc') > 4
        BY <2>0
      <4>1. pc # "named"
        BY <3>4, <3>6 DEF OwnDone
      <4>2. "symbols" \notin failed
        BY <3>4 DEF OwnDone
      <4>3. CASE pc = "symbols"
        <5>1. ToSet(bundle.symbols) \in Rows(hit.names \cap Symbols, NameLimit)
          BY <3>6, <3>11, <4>2, <4>3
        <5>2. g.symbols \cap Live = g.symbols
          BY <3>9 DEF TypeOK
        <5>3. \/ ToSet(bundle'.symbols) = g.symbols \cup ToSet(bundle.symbols)
              \/ g.symbols = {} /\ bundle'.symbols = bundle.symbols
          BY <3>4, <4>3, <5>2 DEF OwnDone
        <5>4. ToSet(bundle'.symbols) = g.symbols \cup ToSet(bundle.symbols)
          BY <5>3
        <5>5. QED
          BY <5>1, <5>4
      <4>4. CASE pc # "symbols"
        <5>1. ~(Rank(pc) <= 4)
          BY <2>0, <3>1, <3>6, <4>0, <4>1, <4>4
        <5>2. bundle'.symbols = bundle.symbols
          BY <3>3, <4>1, <4>4 DEF OwnPart
        <5>3. \E T \in Rows(hit.names \cap Symbols, NameLimit) :
                 ToSet(bundle.symbols) = g.symbols \cup T
          BY <3>11, <4>2, <5>1
        <5>4. QED
          BY <5>2, <5>3
      <4>5. QED
        BY <4>3, <4>4
    <3>18. Rank(pc') <= 7 \/ "repo_map" \in failed' \/ bundle'.map = Asked \cap Files
      BY <2>0, <3>1, <3>3, <3>4, <3>6, <3>11 DEF OwnPart, OwnDone, EmptyInv
    <3>19. \/ Rank(pc') <= 8 \/ "code" \in failed'
           \/ ToSet(bundle'.chunks) \in Earliest(ChunksOf(bundle'))
      <4> SUFFICES ASSUME Rank(pc') > 8, "code" \notin failed'
                   PROVE  ToSet(bundle'.chunks) \in Earliest(ChunksOf(bundle'))
        BY <2>0
      <4>1. Rank(pc) >= 8
        BY <2>0, <3>1, <3>6
      <4>2. bundle'.files = bundle.files
        BY <3>3, <3>6, <4>1 DEF OwnPart
      <4>3. ChunksOf(bundle') = ChunksOf(bundle)
        BY <4>2 DEF ChunksOf
      <4>4. CASE pc = "code"
        <5>1. bundle.chunks = <<>>
          BY <3>6, <4>4 DEF EmptyInv
        <5>2. ChunksDue = ChunksOf(bundle)
          BY <1>0, <3>1 DEF ChunksDue, ChunksOf
        <5>3. bundle.files = <<>> => ChunksOf(bundle) = {}
          <6>1. Top(<<>>, ChunkFiles) = <<>>
            BY <1>0 DEF Top
          <6>2. QED
            BY <6>1, NoElements DEF ChunksOf
        <5>4. \/ ToSet(bundle'.chunks) \in Earliest(ChunksDue)
              \/ bundle.files = <<>> /\ bundle'.chunks = bundle.chunks
          BY <3>4, <4>4 DEF OwnDone
        <5>5. QED
          BY <4>3, <5>1, <5>2, <5>3, <5>4, NoElements, EarliestAre
      <4>5. CASE pc # "code"
        <5>1. bundle'.chunks = bundle.chunks
          BY <3>3, <4>5 DEF OwnPart
        <5>2. Rank(pc) > 8 /\ "code" \notin failed
          BY <2>0, <3>4, <3>6, <4>1, <4>5 DEF OwnDone
        <5>3. QED
          BY <2>0, <3>11, <4>3, <5>1, <5>2
      <4>6. QED
        BY <4>4, <4>5
    <3>20. ASSUME NEW kind \in ToSet(MemoryKinds), Rank(pc') > Rank(kind),
                  kind \notin failed', Anchors(bundle') # {}
           PROVE  OfKind(bundle', kind) \in Rows(Due(bundle, kind)', FactLimit)
      <4>0. Rank(kind) \in {9, 10, 12, 13}
        BY <1>1
      <4>1. Rank(pc) >= 9 /\ Rank(pc) >= Rank(kind)
        BY <2>0, <3>1, <3>6, <3>20, <4>0
      <4>2. bundle'.files = bundle.files /\ bundle'.symbols = bundle.symbols
        BY <3>3, <3>6, <4>1 DEF OwnPart
      <4>3. Anchors(bundle') = Anchors(bundle) /\ Live' = Live
        BY <3>1, <4>2 DEF Anchors, Live
      <4>4. Due(bundle, kind)' = Due(bundle, kind)
        BY <4>3 DEF Due, Hangs
      <4>5. CASE Rank(pc) = Rank(kind)
        <5>1. pc = kind
          BY <3>8, <4>5
        <5>2. PICK T \in Rows(Due(bundle, kind), FactLimit) :
                 bundle'.facts = bundle.facts \cup T
          BY <3>4, <3>20, <4>3, <5>1 DEF OwnDone
        <5>3. \A x \in bundle.facts : Kind[x] # kind
          <6>1. \A x \in bundle.facts : Rank(Kind[x]) < Rank(kind)
            BY <5>1 DEF EmptyInv
          <6>2. QED
            BY <4>0, <6>1
        <5>4. \A x \in T : Kind[x] = kind
          BY <1>0, RowsAre DEF Due
        <5>5. OfKind(bundle', kind) = T
          BY <5>2, <5>3, <5>4 DEF OfKind
        <5>6. QED
          BY <4>4, <5>5
      <4>6. CASE Rank(pc) > Rank(kind)
        <5>1. kind \notin failed
          BY <3>4, <3>20 DEF OwnDone
        <5>2. ~(Rank(pc) <= Rank(kind))
          BY <2>0, <4>0, <4>6
        <5>3. OfKind(bundle, kind) \in Rows(Due(bundle, kind), FactLimit)
          BY <3>11, <3>20, <4>3, <5>1, <5>2
        <5>4. OfKind(bundle', kind) = OfKind(bundle, kind)
          <6>1. pc # kind
            BY <4>0, <4>6
          <6>2. \A T \in Rows(Due(bundle, pc), FactLimit) : \A x \in T : Kind[x] = pc
            BY <1>0, RowsAre DEF Due
          <6>3. QED
            BY <3>3, <6>1, <6>2 DEF OwnPart, OfKind
        <5>5. QED
          BY <4>4, <5>3, <5>4
      <4>7. QED
        BY <2>0, <4>0, <4>1, <4>5, <4>6
    <3>21. \/ Rank(pc') <= 14 \/ "cross_repo" \in failed'
           \/ bundle'.cross \in Rows(Related, LinkLimit)
      <4> SUFFICES ASSUME ~(Rank(pc') <= 14), "cross_repo" \notin failed'
                   PROVE  bundle'.cross \in Rows(Related, LinkLimit)
        OBVIOUS
      <4>1. "cross_repo" \notin failed
        BY <3>4 DEF OwnDone
      <4>2. CASE pc = "cross_repo"
        BY <3>4, <4>2 DEF OwnDone
      <4>3. CASE pc # "cross_repo"
        <5>1. ~(Rank(pc) <= 14)
          BY <2>0, <3>1, <3>6, <4>3
        <5>2. bundle'.cross = bundle.cross
          BY <3>3, <4>3 DEF OwnPart
        <5>3. bundle.cross \in Rows(Related, LinkLimit)
          BY <3>5, <4>1, <5>1
        <5>4. QED
          BY <5>2, <5>3
      <4>4. QED
        BY <4>2, <4>3
    <3>22. \A kind \in ToSet(MemoryKinds) :
              \/ Rank(pc') <= Rank(kind) \/ kind \in failed' \/ Anchors(bundle') = {}
              \/ OfKind(bundle', kind) \in Rows(Due(bundle, kind)', FactLimit)
      BY <1>1, <2>0, <3>20
    <3>23. QED
      BY <3>1, <3>2, <3>10, <3>12, <3>13, <3>16, <3>17, <3>18, <3>19, <3>21, <3>22
      DEF CompleteInv
  <2>3. CASE Trim /\ Cut
    <3>1. /\ pc = "trim" /\ pc' = "done" /\ whole' = bundle
          /\ UNCHANGED <<here, hit, g, failed>>
      BY <2>3 DEF Trim, Cut, Goto, Fine, request
    <3>2. Draft' = Draft /\ Rank(pc) = 15 /\ Rank(pc') = 16
      BY <3>1 DEF Draft, Rank
    <3>3. Asked' = Asked /\ Live' = Live /\ here = Files
      BY <3>1 DEF Asked, Live
    <3>4. \A kind : Due(Draft, kind)' = Due(Draft, kind)
      BY <3>2, <3>3 DEF Due, Hangs, Anchors
    <3>5. Anchors(Draft)' = Anchors(Draft)
      BY <3>2 DEF Anchors
    <3>6. AllThere
      BY <3>2, <3>3, RankOver
    <3>7. AllThere'
      BY <3>1, <3>2, <3>3, <3>4, <3>5, <3>6, Zenon DEF AllThere, OfKind, ChunksOf
    <3>8. /\ Rank(pc') # 4
          /\ \A kind \in ToSet(MemoryKinds) : ~(Rank(pc') <= Rank(kind))
      BY <1>1, <3>2
    <3>9. QED
      BY <3>7, <3>8, Zenon DEF CompleteInv, AllThere
  <2>4. ASSUME NEW f \in Files, Detach(f) PROVE CompleteInv'
    <3>1. f \in here /\ here' = here \ {f}
      BY <2>4 DEF Detach
    <3>2. QED
      BY <3>1
  <2>5. CASE UNCHANGED vars
    <3>1. UNCHANGED <<here, pc, hit, g, bundle, whole, failed>>
      BY <2>5 DEF vars, request
    <3>2. UNCHANGED <<Draft, Asked, Rank(pc)>>
      BY <3>1 DEF Draft, Asked, Rank
    <3>3. /\ \A kind : Due(Draft, kind)' = Due(Draft, kind)
          /\ Anchors(Draft)' = Anchors(Draft)
      BY <3>1, <3>2 DEF Due, Hangs, Live, Anchors
    <3>4. QED
      BY <3>1, <3>2, <3>3, Zenon DEF CompleteInv, OfKind, ChunksOf
  <2>6. Ask \/ Ground \/ Uncounted => Rank(pc') \in {0, 1}
    BY DEF Ask, Ground, Uncounted, Goto, Rank
  <2>7. QED
    BY <2>1, <2>2, <2>3, <2>4, <2>5, <2>6, SearchKeeps DEF Next, Trim
<1>4. CompleteInv /\ ErrorsInv => Complete
  <2> SUFFICES ASSUME CompleteInv, ErrorsInv, pc = "done", here = Files
               PROVE  Complete
    BY DEF Complete
  <2>1. Rank(pc) = 16 /\ Draft = whole
    BY DEF Rank, Draft
  <2>2. AllThere
    BY <2>1, RankOver
  <2>3. errors = failed \ {"fulltext", "rerank", "one-hop"}
    BY DEF ErrorsInv, Silent
  <2>4. /\ \A stage \in {"services", "files", "symbols", "repo_map", "code", "cross_repo"} :
              stage \in failed => stage \in errors
        /\ \A kind \in ToSet(MemoryKinds) : kind \in failed => kind \in errors
    BY <2>3, MemoryKindsAre
  <2>5. QED
    BY <2>1, <2>2, <2>4, Zenon DEF AllThere, Complete
<1>5. QED
  BY <1>2, <1>3, <1>4, TypeCorrect, Errors, EmptyUntil, PTL DEF Spec

-----------------------------------------------------------------------------
(* The ranking.                                                            *)

\* The position of a member is that of its first occurrence.
LEMMA PositionIs ==
    ASSUME NEW S, NEW q \in Seq(S), NEW i \in 1..Len(q),
           \A j \in 1..(i - 1) : q[j] # q[i]
    PROVE  Position(q, q[i]) = i
<1> DEFINE Here(k) == q[k] = q[i] /\ \A j \in 1..(k - 1) : q[j] # q[i]
<1>1. DOMAIN q = 1..Len(q) /\ Len(q) \in Nat
  BY LenProperties
<1>2. i \in DOMAIN q /\ Here(i)
  BY <1>1
<1>3. ASSUME NEW k \in DOMAIN q, Here(k) PROVE k = i
  <2>1. CASE k < i
    BY <1>1, <1>3, <2>1
  <2>2. CASE i < k
    <3>1. i \in 1..(k - 1)
      BY <1>1, <2>2
    <3>2. QED
      BY <1>3, <3>1
  <2>3. QED
    BY <1>1, <2>1, <2>2
<1>4. (CHOOSE k \in DOMAIN q : Here(k)) = i
  BY <1>2, <1>3
<1>5. QED
  BY <1>4 DEF Position

\* In a list that names nothing twice.
LEMMA PositionOnce ==
    ASSUME NEW S, NEW q \in Seq(S), \A i, j \in DOMAIN q : q[i] = q[j] => i = j
    PROVE  /\ \A i \in 1..Len(q) : Position(q, q[i]) = i
           /\ \A x \in ToSet(q) : Position(q, x) \in 1..Len(q) /\ q[Position(q, x)] = x
<1>1. DOMAIN q = 1..Len(q) /\ Len(q) \in Nat
  BY LenProperties
<1>2. ASSUME NEW i \in 1..Len(q) PROVE Position(q, q[i]) = i
  <2>1. \A j \in 1..(i - 1) : j \in 1..Len(q) /\ j # i
    BY <1>1
  <2>2. \A j \in 1..(i - 1) : q[j] # q[i]
    BY <1>1, <2>1
  <2>3. QED
    BY <2>2, PositionIs
<1>3. QED
  BY <1>2, Elements

\* The position in two lists, one after the other.
LEMMA PositionMet ==
    ASSUME NEW S, NEW p \in Seq(S), NEW q \in Seq(S),
           \A i, j \in DOMAIN p : p[i] = p[j] => i = j,
           \A i, j \in DOMAIN q : q[i] = q[j] => i = j,
           NEW x
    PROVE  /\ x \in ToSet(p) => Position(p \o q, x) = Position(p, x)
           /\ x \in ToSet(q) \ ToSet(p) =>
                 Position(p \o q, x) = Len(p) + Position(q, x)
<1>1. /\ p \o q \in Seq(S) /\ Len(p \o q) = Len(p) + Len(q)
      /\ \A i \in 1..Len(p) + Len(q) :
            (p \o q)[i] = IF i <= Len(p) THEN p[i] ELSE q[i - Len(p)]
      /\ Len(p) \in Nat /\ Len(q) \in Nat
      /\ DOMAIN p = 1..Len(p) /\ DOMAIN q = 1..Len(q)
  BY ConcatProperties, LenProperties
<1>2. ASSUME x \in ToSet(p) PROVE Position(p \o q, x) = Position(p, x)
  <2> DEFINE i == Position(p, x)
  <2>1. i \in 1..Len(p) /\ p[i] = x
    BY <1>2, PositionOnce
  <2> HIDE DEF i
  <2>2. i \in 1..Len(p \o q) /\ (p \o q)[i] = x
    BY <1>1, <2>1
  <2>3. ASSUME NEW j \in 1..(i - 1) PROVE (p \o q)[j] # x
    <3>1. j \in 1..Len(p) /\ j # i /\ (p \o q)[j] = p[j]
      BY <1>1, <2>1
    <3>2. QED
      BY <1>1, <2>1, <3>1
  <2>4. Position(p \o q, x) = i
    BY <1>1, <2>2, <2>3, PositionIs
  <2>5. QED
    BY <2>4 DEF i
<1>3. ASSUME x \in ToSet(q) \ ToSet(p)
      PROVE  Position(p \o q, x) = Len(p) + Position(q, x)
  <2> DEFINE i == Position(q, x)
             k == Len(p) + i
  <2>1. i \in 1..Len(q) /\ q[i] = x
    BY <1>3, PositionOnce
  <2> HIDE DEF i
  <2>2. k \in 1..Len(p \o q) /\ (p \o q)[k] = x
    BY <1>1, <2>1
  <2>3. ASSUME NEW j \in 1..(k - 1) PROVE (p \o q)[j] # x
    <3>1. CASE j <= Len(p)
      <4>1. j \in 1..Len(p) /\ (p \o q)[j] = p[j]
        BY <1>1, <2>1, <3>1
      <4>2. p[j] \in ToSet(p)
        BY <4>1, Elements
      <4>3. QED
        BY <1>3, <4>1, <4>2
    <3>2. CASE j > Len(p)
      <4>1. /\ j - Len(p) \in 1..Len(q) /\ j - Len(p) # i
            /\ (p \o q)[j] = q[j - Len(p)]
        BY <1>1, <2>1, <3>2
      <4>2. QED
        BY <1>1, <2>1, <4>1
    <3>3. QED
      BY <1>1, <2>1, <3>1, <3>2
  <2>4. Position(p \o q, x) = k
    BY <1>1, <2>2, <2>3, PositionIs
  <2>5. QED
    BY <2>4 DEF i
<1>4. QED
  BY <1>2, <1>3

\* What is divided by more is less.
LEMMA Quotients ==
    ASSUME NEW n \in Nat, NEW a \in Nat \ {0}, NEW b \in Nat \ {0}, a <= b
    PROVE  n \div b \in Nat /\ n \div a \in Nat /\ n \div b <= n \div a
<1> DEFINE s == n \div a
           r == n \div b
<1>1. /\ s \in Int /\ r \in Int
      /\ a * s <= n /\ n < a * (s + 1)
      /\ b * r <= n /\ n < b * (r + 1)
  OBVIOUS
<1> HIDE DEF s, r
<1>2. s >= 0 /\ r >= 0
  <2>1. ASSUME s < 0 PROVE FALSE
    <3>1. s + 1 <= 0
      BY <1>1, <2>1
    <3>2. a * (s + 1) <= 0
      BY <1>1, <3>1
    <3>3. QED
      BY <1>1, <3>2
  <2>2. ASSUME r < 0 PROVE FALSE
    <3>1. r + 1 <= 0
      BY <1>1, <2>2
    <3>2. b * (r + 1) <= 0
      BY <1>1, <3>1
    <3>3. QED
      BY <1>1, <3>2
  <2>3. QED
    BY <1>1, <2>1, <2>2
<1>3. ASSUME r > s PROVE FALSE
  <2>1. r >= s + 1
    BY <1>1, <1>3
  <2>2. b * r >= b * (s + 1)
    BY <1>1, <2>1
  <2>3. b * (s + 1) >= a * (s + 1)
    BY <1>1, <1>2
  <2>4. a * (s + 1) \in Int /\ b * (s + 1) \in Int /\ b * r \in Int
    BY <1>1
  <2>5. QED
    BY <1>1, <2>2, <2>3, <2>4
<1>4. QED
  BY <1>1, <1>2, <1>3 DEF s, r

\* The file that is ahead gets no smaller vote.
LEMMA VoteOrder ==
    ASSUME NEW q \in Seq(Files), \A i, j \in DOMAIN q : q[i] = q[j] => i = j,
           NEW f, NEW h, Ahead(q, f, h)
    PROVE  Vote(q, f) \in Nat /\ Vote(q, h) \in Nat /\ Vote(q, f) >= Vote(q, h)
<1>1. RrfK \in Nat \ {0} /\ Scale \in Nat
  BY QueryAssumption
<1>2. \A x \in ToSet(q) : Position(q, x) \in Nat
  BY PositionOnce, LenProperties
<1>3. \A x : Vote(q, x) \in Nat
  <2> SUFFICES ASSUME NEW x PROVE Vote(q, x) \in Nat
    OBVIOUS
  <2>1. CASE x \in ToSet(q)
    <3> DEFINE k == RrfK + Position(q, x)
    <3>1. k \in Nat \ {0} /\ k <= k
      BY <1>1, <1>2, <2>1
    <3>2. Vote(q, x) = Scale \div k
      BY <2>1 DEF Vote
    <3> HIDE DEF k
    <3>3. Scale \div k \in Nat
      BY <1>1, <3>1, Quotients
    <3>4. QED
      BY <3>2, <3>3
  <2>2. CASE x \notin ToSet(q)
    BY <2>2 DEF Vote
  <2>3. QED
    BY <2>1, <2>2
<1>4. CASE h \notin ToSet(q)
  BY <1>3, <1>4 DEF Vote
<1>5. CASE h \in ToSet(q)
  <2> DEFINE a == RrfK + Position(q, f)
             b == RrfK + Position(q, h)
  <2>1. f \in ToSet(q) /\ Position(q, f) < Position(q, h)
    BY <1>5 DEF Ahead
  <2>2. a \in Nat \ {0} /\ b \in Nat \ {0} /\ a <= b
    BY <1>1, <1>2, <1>5, <2>1
  <2>3. Vote(q, f) = Scale \div a /\ Vote(q, h) = Scale \div b
    BY <1>5, <2>1 DEF Vote
  <2> HIDE DEF a, b
  <2>4. QED
    BY <1>1, <2>2, <2>3, Quotients
<1>6. QED
  BY <1>4, <1>5

\* Rank fusion keeps a file ahead of one that nothing favours over it, for any
\* lists, prior, RRF_K and scale.
LEMMA FusionKeepsOrder ==
    ASSUME TypeOK, OnceInv, NEW P \in Priors,
           NEW f \in ToSet(found \o fulltext), NEW h \in ToSet(found \o fulltext),
           f # h, Ahead(found, f, h), Ahead(fulltext, f, h), P[h] <= P[f],
           NEW q \in Fused(P)
    PROVE  Position(q, f) < Position(q, h)
<1> DEFINE met == found \o fulltext
<1>1. /\ found \in Seq(Files) /\ fulltext \in Seq(Files) /\ IsFiniteSet(Files)
      /\ \A i, j \in DOMAIN found : found[i] = found[j] => i = j
      /\ \A i, j \in DOMAIN fulltext : fulltext[i] = fulltext[j] => i = j
      /\ Len(found) \in Nat
  BY QueryAssumption, LenProperties DEF TypeOK, OnceInv
<1>2. ToSet(met) = ToSet(found) \cup ToSet(fulltext)
  BY <1>1, Joined
<1>3. Score(f, P) >= Score(h, P) /\ Score(f, P) \in Nat /\ Score(h, P) \in Nat
  <2>1. /\ Vote(found, f) \in Nat /\ Vote(found, h) \in Nat
        /\ Vote(found, f) >= Vote(found, h)
    BY <1>1, VoteOrder
  <2>2. /\ Vote(fulltext, f) \in Nat /\ Vote(fulltext, h) \in Nat
        /\ Vote(fulltext, f) >= Vote(fulltext, h)
    BY <1>1, VoteOrder
  <2>3. P[f] \in Nat /\ P[h] \in Nat
    <3>1. f \in Files /\ h \in Files
      BY <1>1, <1>2, Elements
    <3>2. P \in [Files -> Nat]
      BY QueryAssumption
    <3>3. QED
      BY <3>1, <3>2
  <2>4. QED
    BY <1>1, <2>1, <2>2, <2>3 DEF Score
<1>4. Position(met, f) < Position(met, h)
  <2>0. /\ \A x \in ToSet(found) : Position(found, x) \in 1..Len(found)
        /\ \A x \in ToSet(fulltext) : Position(fulltext, x) \in Nat \ {0}
    BY <1>1, PositionOnce, LenProperties
  <2>1. CASE h \in ToSet(found)
    <3>1. f \in ToSet(found) /\ Position(found, f) < Position(found, h)
      BY <2>1 DEF Ahead
    <3>2. QED
      BY <1>1, <2>1, <3>1, PositionMet
  <2>2. CASE h \notin ToSet(found)
    <3>1. h \in ToSet(fulltext)
      BY <1>2, <2>2
    <3>2. f \in ToSet(fulltext) /\ Position(fulltext, f) < Position(fulltext, h)
      BY <3>1 DEF Ahead
    <3>3. Position(met, h) = Len(found) + Position(fulltext, h)
      BY <1>1, <2>2, <3>1, PositionMet
    <3>4. CASE f \in ToSet(found)
      <4>1. Position(met, f) \in 1..Len(found)
        BY <1>1, <2>0, <3>4, PositionMet
      <4>2. QED
        BY <1>1, <2>0, <3>1, <3>3, <4>1
    <3>5. CASE f \notin ToSet(found)
      <4>1. Position(met, f) = Len(found) + Position(fulltext, f)
        BY <1>1, <3>2, <3>5, PositionMet
      <4>2. QED
        BY <1>1, <2>0, <3>1, <3>2, <3>3, <4>1
    <3>6. QED
      BY <3>4, <3>5
  <2>3. QED
    BY <2>1, <2>2
<1>5. /\ q \in Seq(Files) /\ ToSet(q) = ToSet(met)
      /\ \A i, j \in DOMAIN q : q[i] = q[j] => i = j
  BY <1>1, <1>2, FusedType
<1>6. DOMAIN q = 1..Len(q) /\ Len(q) \in Nat
  BY <1>5, LenProperties
<1>7. PICK i \in 1..Len(q) : q[i] = f
  BY <1>5, Elements
<1>8. PICK k \in 1..Len(q) : q[k] = h
  BY <1>5, Elements
<1>9. Position(q, f) = i /\ Position(q, h) = k
  BY <1>5, <1>7, <1>8, PositionOnce
<1>10. k < i => \/ Score(h, P) > Score(f, P)
                \/ /\ Score(h, P) = Score(f, P)
                   /\ Position(met, h) < Position(met, f)
  BY <1>6, <1>7, <1>8 DEF Fused
<1>11. Position(met, f) \in Nat /\ Position(met, h) \in Nat
  BY <1>1, <1>2, PositionOnce, PositionMet, LenProperties
<1> HIDE DEF met
<1>12. ~(k < i)
  BY <1>3, <1>4, <1>10, <1>11
<1>13. k # i
  BY <1>7, <1>8
<1>14. QED
  BY <1>6, <1>9, <1>12, <1>13

\* _rrf_fuse keeps a file ahead of one that neither list puts before it and that
\* the question favours no more, whatever the scale of the votes and the prior.
THEOREM FusionIsFairHolds == Spec => []FusionIsFair
<1>1. Init => OnceInv
  BY DEF Init, OnceInv
<1>2. TypeOK /\ OnceInv /\ [Next]_vars => OnceInv'
  <2> SUFFICES ASSUME TypeOK, OnceInv, [Next]_vars
               PROVE  OnceInv'
    OBVIOUS
  <2>1. ASSUME UNCHANGED <<found, fulltext>> PROVE OnceInv'
    BY <2>1 DEF OnceInv
  <2>2. ASSUME FindChunks PROVE OnceInv'
    <3>1. ASSUME NEW q \in SetToAllKPermutations(here)
          PROVE  \A i, j \in DOMAIN q : q[i] = q[j] => i = j
      <4>1. PICK T \in SUBSET here : q \in SetToSeqs(T)
        BY DEF SetToAllKPermutations
      <4>2. T \in SUBSET Files /\ IsFiniteSet(Files)
        BY QueryAssumption DEF TypeOK
      <4>3. QED
        BY <4>1, <4>2, Listing
    <3>2. QED
      BY <2>2, <3>1 DEF FindChunks, OnceInv
  <2>3. ASSUME FindFulltext PROVE OnceInv'
    <3>1. ASSUME NEW q \in SetToAllKPermutations(SymbolsOf(Files)),
                 NEW r \in Distinct([i \in DOMAIN q |-> Home[q[i]]])
          PROVE  \A i, j \in DOMAIN r : r[i] = r[j] => i = j
      <4>1. PICK T \in SUBSET SymbolsOf(Files) : q \in SetToSeqs(T)
        BY DEF SetToAllKPermutations
      <4>2. T \in SUBSET Symbols /\ IsFiniteSet(Symbols) /\ IsFiniteSet(Files)
        BY QueryAssumption DEF SymbolsOf
      <4>3. q \in Seq(Symbols) /\ Home \in [Symbols -> Files]
        BY <4>1, <4>2, QueryAssumption, Listing
      <4>4. [i \in DOMAIN q |-> Home[q[i]]] \in Seq(Files)
        BY <4>3
      <4>5. QED
        BY <4>2, <4>4, DistinctType
    <3>2. \A i, j \in DOMAIN <<>> : <<>>[i] = <<>>[j] => i = j
      OBVIOUS
    <3>3. found' = found /\ \A i, j \in DOMAIN fulltext' :
             fulltext'[i] = fulltext'[j] => i = j
      BY <2>3, <3>1, <3>2 DEF FindFulltext
    <3>4. QED
      BY <3>3 DEF OnceInv
  <2>4. ASSUME Rerank PROVE OnceInv'
    BY <2>4 DEF Rerank, OnceInv
  <2>5. UNCHANGED vars \/ Ask \/ FindSymbolsIn \/ Fuse \/ OneHop \/ ReadCatalog \/ Ground \/ Trim
          \/ ReadSummaries("summaries", cand, "sym_summaries")
          \/ ReadSummaries("sym_summaries", candSyms, "ground")
        => UNCHANGED <<found, fulltext>>
    BY DEF vars, locals, Ask, FindSymbolsIn, Fuse, OneHop, ReadCatalog, Ground, Trim,
           ReadSummaries
  <2>6. Bundling => UNCHANGED <<found, fulltext>>
    BY DEF Bundling, locals
  <2>7. ASSUME NEW f \in Files, Detach(f) PROVE UNCHANGED <<found, fulltext>>
    BY <2>7 DEF Detach, locals
  <2>8. HydrateServices \/ HydrateFiles \/ HydrateNamed \/ HydrateSymbols
        \/ CallNeighbours \/ RepoDocs \/ RepoMap \/ Code \/ VectorRecall \/ CrossRepo
        => Bundling
    BY DEF HydrateServices, HydrateFiles, HydrateNamed, HydrateSymbols, CallNeighbours,
           RepoDocs, RepoMap, Code, VectorRecall, CrossRepo
  <2>9. (\E f \in Files : Detach(f)) => UNCHANGED <<found, fulltext>>
    BY <2>7
  <2>10. CASE UNCHANGED vars
    BY <2>1, <2>10 DEF vars, locals
  <2>11. CASE Next
    <3>1. CASE Ask \/ FindSymbolsIn \/ Fuse \/ OneHop \/ ReadCatalog \/ Ground \/ Trim
      BY <2>1, <2>5, <3>1
    <3>2. CASE \/ ReadSummaries("summaries", cand, "sym_summaries")
               \/ ReadSummaries("sym_summaries", candSyms, "ground")
      BY <2>1, <2>5, <3>2
    <3>3. CASE HydrateServices \/ HydrateFiles \/ HydrateNamed \/ HydrateSymbols
               \/ CallNeighbours \/ RepoDocs \/ RepoMap \/ Code \/ VectorRecall \/ CrossRepo
      BY <2>1, <2>6, <2>8, <3>3
    <3>4. CASE \E kind \in ToSet(MemoryKinds) : Remembered(kind)
      <4>1. PICK kind \in ToSet(MemoryKinds) : Remembered(kind)
        BY <3>4
      <4>2. Bundling
        BY <4>1 DEF Remembered
      <4>3. QED
        BY <2>1, <2>6, <4>2
    <3>5. CASE \E f \in Files : Detach(f)
      BY <2>1, <2>9, <3>5
    <3>6. QED
      BY <2>2, <2>3, <2>4, <2>11, <3>1, <3>2, <3>3, <3>4, <3>5 DEF Next
  <2>12. QED
    BY <2>10, <2>11
<1>3. TypeOK /\ OnceInv => FusionIsFair
  BY FusionKeepsOrder DEF FusionIsFair
<1>4. QED
  BY <1>1, <1>2, <1>3, TypeCorrect, PTL DEF Spec

=============================================================================
