---------------------------------- MODULE Query ----------------------------------
(***************************************************************************)
(* One request to the read API of one repository, from a question to a     *)
(* bundle: query/translator.py (translate: search, fuse, rerank, widen,    *)
(* let the model choose among the candidates), then query/bundle.py        *)
(* (query: fetch the rows of what was chosen and what hangs on it, and cut *)
(* the whole down to a token budget).                                      *)
(*                                                                         *)
(* Each stage asks Neo4j, the reranker or the model in a session of its    *)
(* own, so each may fail by itself, and while the request runs an ingest   *)
(* may detach files the earlier stages have found.  The stages are written *)
(* to degrade one by one: what fails is left out and told in `errors`.     *)
(*                                                                         *)
(* A file, a symbol or a service is a model value; which rows a search     *)
(* finds and in which order the database returns rows is left open.        *)
(***************************************************************************)
EXTENDS Integers, FiniteSets, Sequences, SequencesExt

CONSTANTS
    Files, Symbols, Services,   \* File_v2, Symbol_v2 and Service nodes
    Home,          \* Home[s]: the file that defines the symbol s
    Imports,       \* IMPORTS, pairs of files
    Calls,         \* CALLS, pairs of symbols
    Facts,         \* decisions, observations, notes and docs
    Kind,          \* Kind[x]: which of these the fact x is
    About,         \* About[x]: its MENTIONS, files and symbols
    Related,       \* CALLS_REPO: the repositories linked to this one
    Chunks,        \* Chunk_v2 nodes
    ChunkOf, Line, \* of each, the file it is of and the line it starts at
    Ghost,         \* a name that is in no catalog
    Paths, Named,  \* the paths, and the sets of symbols of one name, that a
                   \* question may name
    RrfK, Scale,   \* RRF_K; scores are in units of 1/Scale
    Priors,        \* the path priors a question may give: of each file the sum
                   \* of the bonuses of the cues it matches
    TopK, RerankTop, HopTop, HopLimit, CandidateCap, FallbackTop,
                   \* cuts in translate
    ChunkFiles, KeepChunks, KeepFiles, KeepSymbols,     \* cuts in bundle
    SymbolLimit, NameLimit, CallLimit, ChunkLimit, FactLimit, LinkLimit,
                   \* LIMITs of the queries
    Weight, Most,  \* of each part, the tokens a row takes and how many rows
                   \* render shows
    Budgets,       \* the token budgets asked for
    MaxFailures,   \* bound on the stages that fail
    MaxGone        \* bound on the files detached during the request

MemoryKinds == <<"decisions", "observations", "notes", "docs">>

Parts == {"services", "files", "symbols", "calls", "docs_long", "docs_short",
          "map", "chunks", "facts", "cross", "errors"}

ASSUME QueryAssumption ==
    /\ IsFiniteSet(Files) /\ IsFiniteSet(Symbols) /\ Files \cap Symbols = {}
    /\ Home \in [Symbols -> Files]
    /\ Imports \subseteq Files \X Files /\ Calls \subseteq Symbols \X Symbols
    /\ Kind \in [Facts -> ToSet(MemoryKinds)]
    /\ About \in [Facts -> SUBSET (Files \cup Symbols)]
    /\ Ghost \notin Files \cup Symbols \cup Services
    /\ Paths \subseteq Files \cup {Ghost} /\ Named \subseteq SUBSET Symbols
    /\ {RrfK, Scale} \subseteq Nat \ {0} /\ Priors \subseteq [Files -> Nat]
    /\ {TopK, RerankTop, HopTop, HopLimit, CandidateCap, FallbackTop}
          \subseteq Nat \ {0}
    /\ {ChunkFiles, KeepChunks, KeepFiles, KeepSymbols} \subseteq Nat
    /\ {SymbolLimit, NameLimit, CallLimit, ChunkLimit, FactLimit, LinkLimit}
          \subseteq Nat
    /\ IsFiniteSet(Chunks)
    /\ ChunkOf \in [Chunks -> Files] /\ Line \in [Chunks -> Nat]
    /\ {Weight, Most} \subseteq [Parts -> Nat] /\ Budgets \subseteq Nat
    /\ {MaxFailures, MaxGone} \subseteq Nat

\* The stages of translate whose helper catches the exception itself, so that
\* the `except` meant to report it never runs.
Silent == {"fulltext", "rerank", "one-hop"}

VARIABLES
    here,      \* the files the graph has
    pc,        \* the next stage
    hit,       \* fastpath: what the question names, a kind and a set of names
    budget,    \* token_budget
    found,     \* vector_files, in order
    fulltext,  \* fulltext_files, in order
    cand,      \* candidate_files, in order
    candSyms,  \* candidate_symbols, in order
    catalog,   \* services
    offered,   \* what the model was asked to choose from
    g,         \* Grounding: services, files and symbols
    bundle,    \* ContextBundle
    whole,     \* the bundle before it is cut
    errors,    \* errors of the Grounding and the bundle
    failed     \* the stages that have failed

locals == <<found, fulltext, cand, candSyms, catalog>>
request == <<hit, budget>>
vars == <<here, pc, request, locals, offered, g, bundle, whole, errors, failed>>

Nothing == [services |-> {}, files |-> {}, symbols |-> {}]
Empty == [services |-> {}, files |-> <<>>, symbols |-> <<>>, calls |-> {},
          docs |-> "none", map |-> {}, chunks |-> <<>>, facts |-> {},
          cross |-> {}]

Bundles ==
    [services : SUBSET Services, files : Seq(Files), symbols : Seq(Symbols),
     calls : SUBSET (Symbols \X Symbols), docs : {"none", "long", "short"},
     map : SUBSET Files, chunks : Seq(Chunks), facts : SUBSET Facts,
     cross : SUBSET Related]

Names == Files \cup {Ghost}
Live == here \cup {s \in Symbols : Home[s] \in here}

Stages == {"chunks", "symbols_in", "fulltext", "fuse", "rerank", "one-hop",
           "catalog", "summaries", "sym_summaries", "ground", "services",
           "files", "named", "symbols", "calls", "repo_docs", "repo_map",
           "code", "vector", "cross_repo", "trim"} \cup ToSet(MemoryKinds)

\* fastpath.detect: the question names a path or a symbol, or nothing of the
\* kind.  A ticket is told and otherwise used nowhere.  The path may be any; a
\* symbol is looked up by its last name, which several may have.
Hits ==
    {[kind |-> "none", names |-> {}]}
    \cup {[kind |-> "file", names |-> {n}] : n \in Paths}
    \cup {[kind |-> "symbol", names |-> S] : S \in Named}

TypeOK ==
    /\ here \subseteq Files
    /\ pc \in Stages \cup {"idle", "done", "raised"}
    /\ hit \in Hits
    /\ budget \in Budgets \cup {0}
    /\ found \in Seq(Files) /\ fulltext \in Seq(Files) /\ cand \in Seq(Files)
    /\ candSyms \in Seq(Symbols)
    /\ catalog \subseteq Services
    /\ offered \in [services : SUBSET Services, files : SUBSET Files,
                    symbols : SUBSET Symbols]
    /\ g \in [services : SUBSET Services, files : SUBSET Files,
              symbols : SUBSET Symbols]
    /\ bundle \in Bundles /\ whole \in Bundles
    /\ failed \subseteq Stages /\ errors \subseteq Stages

Init ==
    /\ here = Files
    /\ pc = "idle"
    /\ hit = [kind |-> "none", names |-> {}] /\ budget = 0
    /\ found = <<>> /\ fulltext = <<>> /\ cand = <<>> /\ candSyms = <<>>
    /\ catalog = {}
    /\ offered = Nothing /\ g = Nothing
    /\ bundle = Empty /\ whole = Empty
    /\ errors = {} /\ failed = {}

-----------------------------------------------------------------------------
(* The request.                                                            *)

Goto(p) == pc' = p

\* A statement, a call or a helper of the stage raises.
Fails(stage) ==
    /\ Cardinality(failed \ {"vector"}) < MaxFailures
    /\ failed' = failed \cup {stage}

Told(stage) == errors' = errors \cup {stage}
Untold == UNCHANGED errors
Fine == UNCHANGED <<failed, errors>>

Top(q, n) == SubSeq(q, 1, IF n < Len(q) THEN n ELSE Len(q))

\* The rows a query with a LIMIT returns, where it does not say which come
\* first, or by an order (age, confidence) that is left out here.
Rows(S, n) ==
    {T \in SUBSET S : IF Cardinality(S) <= n THEN T = S ELSE Cardinality(T) = n}

\* query: fastpath first, then translate, which has nothing to do for a blank
\* question.
Ask ==
    /\ pc = "idle"
    /\ hit' \in Hits
    /\ budget' \in Budgets
    /\ \/ Goto("chunks")
       \/ hit'.kind = "none" /\ Goto("services")
    /\ UNCHANGED <<here, locals, offered, g, bundle, whole, errors, failed>>

-----------------------------------------------------------------------------
(* translate: the search.                                                  *)

\* _chunk_fulltext_topk: paths by their best chunk.
FindChunks ==
    /\ pc = "chunks"
    /\ \/ found' \in SetToAllKPermutations(here) /\ Goto("symbols_in") /\ Fine
       \/ Fails("chunks") /\ Told("chunks") /\ Goto("fulltext") /\ UNCHANGED found
    /\ UNCHANGED <<here, request, fulltext, cand, candSyms, catalog, offered, g,
                   bundle, whole>>

SymbolsOf(F) == {s \in Symbols : Home[s] \in F \cap here}

\* _symbols_in, in the same try: the paths found survive its failure.
FindSymbolsIn ==
    /\ pc = "symbols_in"
    /\ \/ /\ \E T \in Rows(SymbolsOf(ToSet(Top(found, TopK))), SymbolLimit) :
                candSyms' \in SetToSeqs(T)
          /\ Fine
       \/ Fails("chunks") /\ Told("chunks") /\ UNCHANGED candSyms
    /\ Goto("fulltext")
    /\ UNCHANGED <<here, request, found, fulltext, cand, catalog, offered, g,
                   bundle, whole>>

Position(q, x) == CHOOSE i \in DOMAIN q : q[i] = x /\ \A j \in 1..(i - 1) : q[j] # x

\* The members of q, each where it first occurs: a set of one sequence.
Distinct(q) ==
    {r \in SetToSeqs(ToSet(q)) :
        \A i, j \in DOMAIN r : i < j => Position(q, r[i]) < Position(q, r[j])}

\* _fulltext_symbols: symbols by signature, and the files they are in.  It
\* catches what its own statement raises and answers with nothing.
FindFulltext ==
    /\ pc = "fulltext"
    /\ \/ /\ \E q \in SetToAllKPermutations(SymbolsOf(Files)) :
                /\ fulltext' \in Distinct([i \in DOMAIN q |-> Home[q[i]]])
                /\ candSyms' \in Distinct(candSyms \o q)
          /\ Fine
       \/ /\ Fails("fulltext") /\ Untold
          /\ fulltext' = <<>> /\ UNCHANGED candSyms
    /\ Goto("fuse")
    /\ UNCHANGED <<here, request, found, cand, catalog, offered, g, bundle, whole>>

-----------------------------------------------------------------------------
(* translate: the ranking.                                                 *)

\* Slip: a file far down in a list counts more than one at its head.
VoteByRank(q, f) == IF f \in ToSet(q) THEN Position(q, f) ELSE 0

\* What a list adds to the score of f.
Vote(q, f) == IF f \in ToSet(q) THEN Scale \div (RrfK + Position(q, f)) ELSE 0

\* P is the path prior.
Score(f, P) == Vote(found, f) + Vote(fulltext, f) + P[f]

\* _rrf_fuse: by score, and equal ones in the order they were met: a set of
\* one sequence.
Fused(P) ==
    LET met == found \o fulltext IN
    {q \in SetToSeqs(ToSet(met)) :
        \A i, j \in DOMAIN q : i < j =>
            \/ Score(q[i], P) > Score(q[j], P)
            \/ /\ Score(q[i], P) = Score(q[j], P)
               /\ Position(met, q[i]) < Position(met, q[j])}

Fuse ==
    /\ pc = "fuse"
    /\ \E P \in Priors : cand' \in Fused(P)
    /\ Goto("rerank") /\ Fine
    /\ UNCHANGED <<here, request, found, fulltext, candSyms, catalog, offered, g,
                   bundle, whole>>

\* _rerank: the sidecar puts the first ones in any order, and their order
\* stays if it fails.  The lists are used no more.
Rerank ==
    /\ pc = "rerank"
    /\ \/ /\ \E q \in SetToSeqs(ToSet(Top(cand, RerankTop))) :
                cand' = q \o SubSeq(cand, RerankTop + 1, Len(cand))
          /\ Fine
       \/ cand # <<>> /\ Fails("rerank") /\ Untold /\ UNCHANGED cand
    /\ found' = <<>> /\ fulltext' = <<>>
    /\ Goto("one-hop")
    /\ UNCHANGED <<here, request, candSyms, catalog, offered, g, bundle, whole>>

\* _expand_one_hop: files that import a top one or are imported by one.
Neighbours(F) ==
    {f \in here : \E x \in F \cap here : <<f, x>> \in Imports \/ <<x, f>> \in Imports}

\* The first of them are appended, and then the list is cut.
OneHop ==
    /\ pc = "one-hop"
    /\ \/ /\ \E q \in SetToSeqs(Neighbours(ToSet(Top(cand, HopTop)))) :
             \E r \in Distinct(cand \o Top(q, HopLimit)) : cand' = Top(r, CandidateCap)
          /\ Fine
       \/ /\ cand # <<>> /\ Fails("one-hop") /\ Untold
          /\ cand' = Top(cand, CandidateCap)
    /\ Goto("catalog")
    /\ UNCHANGED <<here, request, found, fulltext, candSyms, catalog, offered, g,
                   bundle, whole>>

-----------------------------------------------------------------------------
(* translate: the model.                                                   *)

\* _services_for is called outside any try: its failure ends the request.
ReadCatalog ==
    /\ pc = "catalog"
    /\ \/ catalog' = Services /\ Goto("summaries") /\ Fine
       \/ Fails("catalog") /\ Untold /\ Goto("raised") /\ UNCHANGED catalog
    /\ UNCHANGED <<here, request, found, fulltext, cand, candSyms, offered, g,
                   bundle, whole>>

\* _file_summaries and _symbol_summaries: only the prompt depends on them.
ReadSummaries(stage, of, next) ==
    /\ pc = stage
    /\ \/ Fine
       \/ of # <<>> /\ Fails(stage) /\ Told(stage)
    /\ Goto(next)
    /\ UNCHANGED <<here, request, locals, offered, g, bundle, whole>>

\* Slip: what is in the index counts as known, offered to the model or not.
ChosenInIndex(V, F, S, n) ==
    [services |-> IF n > 0 THEN V \cap catalog ELSE {},
     files |-> IF n > 1 THEN F \cap here ELSE {},
     symbols |-> IF n > 2 THEN S \cap ToSet(candSyms) ELSE {}]

\* What the model names and may be used: n of the three lists are assigned
\* before anything raises; with n = 0 there was no answer, or no JSON.
Chosen(V, F, S, n) ==
    [services |-> IF n > 0 THEN V \cap catalog ELSE {},
     files |-> IF n > 1 THEN F \cap ToSet(cand) ELSE {},
     symbols |-> IF n > 2 THEN S \cap ToSet(candSyms) ELSE {}]

\* Nothing usable: the first candidates.
OrElse(x) ==
    IF x # Nothing THEN x
    ELSE [Nothing EXCEPT !.files = ToSet(Top(cand, FallbackTop)),
                         !.symbols = ToSet(Top(candSyms, FallbackTop))]

\* _call_llm, _parse and the fallback; translate returns.
Ground ==
    /\ pc = "ground"
    /\ \E V \in SUBSET (Services \cup {Ghost}), F \in SUBSET Names,
          S \in SUBSET (Symbols \cup {Ghost}), n \in 0..3 :
          /\ g' = OrElse(Chosen(V, F, S, n))
          /\ \/ n = 3 /\ Fine
             \/ n < 3 /\ Fails("ground") /\ Told("ground")
    /\ offered' = [services |-> catalog, files |-> ToSet(cand),
                   symbols |-> ToSet(candSyms)]
    /\ cand' = <<>> /\ candSyms' = <<>> /\ catalog' = {}
    /\ Goto("services")
    /\ UNCHANGED <<here, request, found, fulltext, bundle, whole>>

-----------------------------------------------------------------------------
(* query: the rows.                                                        *)

\* A stage of the bundle: skipped, or done to the bundle, or failed and told.
Skips(next) == Goto(next) /\ Fine /\ UNCHANGED bundle
Sets(B, next) == bundle' \in B /\ Goto(next) /\ Fine
Misses(stage, next) == Fails(stage) /\ Told(stage) /\ Goto(next) /\ UNCHANGED bundle
Bundling == UNCHANGED <<here, request, locals, offered, g, whole>>

HydrateServices ==
    /\ pc = "services"
    /\ IF g.services = {} THEN Skips("files")
       ELSE \/ Sets({[bundle EXCEPT !.services = g.services]}, "files")
            \/ Misses("services", "files")
    /\ Bundling

\* The path the question names comes in addition.
Asked == g.files \cup (IF hit.kind = "file" THEN hit.names ELSE {})

\* _files_rows, in the order of the database.
HydrateFiles ==
    /\ pc = "files"
    /\ IF Asked = {} THEN Skips("named")
       ELSE \/ Sets({[bundle EXCEPT !.files = q] : q \in SetToSeqs(Asked \cap here)},
                    "named")
            \/ Misses("files", "named")
    /\ Bundling

\* _symbols_by_terminal_name.
HydrateNamed ==
    /\ pc = "named"
    /\ IF hit.kind # "symbol" THEN Skips("symbols")
       ELSE \/ \E T \in Rows(hit.names \cap Live, NameLimit) :
                  Sets({[bundle EXCEPT !.symbols = q] : q \in SetToSeqs(T)}, "symbols")
            \/ Misses("symbols", "calls")
    /\ Bundling

\* _symbols_rows: the chosen ones before the named ones.
HydrateSymbols ==
    /\ pc = "symbols"
    /\ IF g.symbols = {} THEN Skips("calls")
       ELSE \/ Sets({[bundle EXCEPT !.symbols = q \o @] :
                        q \in SetToSeqs(g.symbols \cap Live)}, "calls")
            \/ Misses("symbols", "calls")
    /\ Bundling

\* The calls of which s is the caller (1) or the callee (2).
CallsAt(s, end) == {e \in Calls : e[end] = s /\ {e[1], e[2]} \subseteq Live}

\* _call_neighbours of the first symbol.
CallNeighbours ==
    /\ pc = "calls"
    /\ IF bundle.symbols = <<>> THEN Skips("repo_docs")
       ELSE LET s == Head(bundle.symbols) IN
            \/ \E P \in Rows(CallsAt(s, 2), CallLimit), Q \in Rows(CallsAt(s, 1), CallLimit) :
                  Sets({[bundle EXCEPT !.calls = P \cup Q]}, "repo_docs")
            \/ Misses("calls", "repo_docs")
    /\ Bundling

\* _repo_docs_for: the runbook and the conventions, if there are any.
RepoDocs ==
    /\ pc = "repo_docs"
    /\ \/ Sets({[bundle EXCEPT !.docs = d] : d \in {"none", "long"}}, "repo_map")
       \/ Misses("repo_docs", "repo_map")
    /\ Bundling

\* _repo_map_for, of the paths asked for.
RepoMap ==
    /\ pc = "repo_map"
    /\ IF Asked = {} THEN Skips("code")
       ELSE \/ Sets({[bundle EXCEPT !.map = Asked \cap here]}, "code")
            \/ Misses("repo_map", "code")
    /\ Bundling

\* The chunks of the first anchor files of b; those that are left.
ChunksOf(b) == {c \in Chunks : ChunkOf[c] \in ToSet(Top(b.files, ChunkFiles))}
ChunksDue == {c \in ChunksOf(bundle) : ChunkOf[c] \in here}

\* ORDER BY the line they start at.
Earliest(S) ==
    {T \in Rows(S, ChunkLimit) : \A c \in T, d \in S \ T : Line[c] <= Line[d]}

ByLine(T) ==
    {q \in SetToSeqs(T) : \A i, j \in DOMAIN q : i < j => Line[q[i]] <= Line[q[j]]}

\* _chunks_for.
Code ==
    /\ pc = "code"
    /\ IF bundle.files = <<>> THEN Skips("decisions")
       ELSE \/ \E T \in Earliest(ChunksDue) :
                  Sets({[bundle EXCEPT !.chunks = q] : q \in ByLine(T)}, "decisions")
            \/ Misses("code", "decisions")
    /\ Bundling

\* anchor_paths and anchor_syms: what is in the bundle, not what was chosen.
Anchors(b) == ToSet(b.files) \cup ToSet(b.symbols)

\* A fact about an anchor; and a decision about nothing (that is left).
Hangs(x, A) ==
    \/ About[x] \cap A \cap Live # {}
    \/ Kind[x] = "decisions" /\ About[x] \cap Live = {}

After(kind) ==
    CASE kind = "decisions" -> "observations"
      [] kind = "observations" -> "vector"
      [] kind = "notes" -> "docs"
      [] kind = "docs" -> "cross_repo"

\* The facts of a kind that hang on what is in b.
Due(b, kind) == {x \in Facts : Kind[x] = kind /\ Hangs(x, Anchors(b))}

\* Slip: the four in one try.
RememberedTogether(kind) ==
    /\ pc = kind
    /\ \/ \E T \in Rows(Due(bundle, kind), FactLimit) :
             Sets({[bundle EXCEPT !.facts = @ \cup T]}, After(kind))
       \/ Misses(kind, "cross_repo")
    /\ Bundling

\* _decisions_for, _observations_for, _notes_for, _docs_for.
Remembered(kind) ==
    /\ pc = kind
    /\ IF Anchors(bundle) = {} THEN Skips(After(kind))
       ELSE \/ \E T \in Rows(Due(bundle, kind), FactLimit) :
                  Sets({[bundle EXCEPT !.facts = @ \cup T]}, After(kind))
            \/ Misses(kind, After(kind))
    /\ Bundling

\* translator._embed_query is not there: what follows it, the vector recall of
\* observations, is never reached.
VectorRecall ==
    /\ pc = "vector"
    /\ IF Anchors(bundle) = {} THEN Fine
       ELSE failed' = failed \cup {"vector"} /\ Told("vector")
    /\ Goto("notes")
    /\ UNCHANGED bundle
    /\ Bundling

CrossRepo ==
    /\ pc = "cross_repo"
    /\ \/ \E T \in Rows(Related, LinkLimit) : Sets({[bundle EXCEPT !.cross = T]}, "trim")
       \/ Misses("cross_repo", "trim")
    /\ Bundling

-----------------------------------------------------------------------------
(* query: the budget.                                                      *)

\* The tokens of n rows of part p, of which render shows the first.
Shown(p, n) == Weight[p] * (IF n < Most[p] THEN n ELSE Most[p])

\* _count_tokens(render()): callers and callees are two lists.
Tokens(b) ==
    Shown("services", Cardinality(b.services))
    + Shown("files", Len(b.files)) + Shown("symbols", Len(b.symbols))
    + Shown("calls", Cardinality({e \in b.calls : e[2] = Head(b.symbols)}))
    + Shown("calls", Cardinality({e \in b.calls : e[1] = Head(b.symbols)}))
    + (IF b.docs = "long" THEN Weight["docs_long"]
       ELSE IF b.docs = "short" THEN Weight["docs_short"] ELSE 0)
    + Cardinality(b.map) * Weight["map"] + Shown("chunks", Len(b.chunks))
    + Cardinality(b.facts) * Weight["facts"]
    + Shown("cross", Cardinality(b.cross))
    + Cardinality(errors) * Weight["errors"]

\* Slip: the memory goes before the code that can be read again.
DroppedMemoryFirst(b, i) ==
    [services |-> IF i > 5 THEN {} ELSE b.services,
     files |-> IF i > 5 THEN <<>> ELSE IF i > 4 THEN Top(b.files, KeepFiles) ELSE b.files,
     symbols |-> IF i > 5 THEN <<>>
                 ELSE IF i > 4 THEN Top(b.symbols, KeepSymbols) ELSE b.symbols,
     calls |-> IF i > 0 THEN {} ELSE b.calls,
     docs |-> IF i > 5 /\ b.docs = "long" THEN "short" ELSE b.docs,
     map |-> b.map,
     chunks |-> IF i > 3 THEN <<>> ELSE IF i > 2 THEN Top(b.chunks, KeepChunks) ELSE b.chunks,
     facts |-> IF i > 1 THEN {} ELSE b.facts,
     cross |-> IF i > 1 THEN {} ELSE b.cross]

\* Slip: the anchors go before what hangs on them.
DroppedAnchorsFirst(b, i) ==
    [services |-> IF i > 5 THEN {} ELSE b.services,
     files |-> IF i > 5 THEN <<>> ELSE IF i > 0 THEN Top(b.files, KeepFiles) ELSE b.files,
     symbols |-> IF i > 5 THEN <<>>
                 ELSE IF i > 0 THEN Top(b.symbols, KeepSymbols) ELSE b.symbols,
     calls |-> IF i > 4 THEN {} ELSE b.calls,
     docs |-> IF i > 5 /\ b.docs = "long" THEN "short" ELSE b.docs,
     map |-> b.map,
     chunks |-> IF i > 2 THEN <<>> ELSE IF i > 1 THEN Top(b.chunks, KeepChunks) ELSE b.chunks,
     facts |-> IF i > 3 THEN {} ELSE b.facts,
     cross |-> IF i > 3 THEN {} ELSE b.cross]

\* What the first i cuts of _trim_to_budget leave: the calls go, the chunks in
\* two steps, the facts and links, the anchors in two steps.
Dropped(b, i) ==
    [services |-> IF i > 5 THEN {} ELSE b.services,
     files |-> IF i > 5 THEN <<>> ELSE IF i > 4 THEN Top(b.files, KeepFiles) ELSE b.files,
     symbols |-> IF i > 5 THEN <<>>
                 ELSE IF i > 4 THEN Top(b.symbols, KeepSymbols) ELSE b.symbols,
     calls |-> IF i > 0 THEN {} ELSE b.calls,
     docs |-> IF i > 5 /\ b.docs = "long" THEN "short" ELSE b.docs,
     map |-> b.map,
     chunks |-> IF i > 2 THEN <<>> ELSE IF i > 1 THEN Top(b.chunks, KeepChunks) ELSE b.chunks,
     facts |-> IF i > 3 THEN {} ELSE b.facts,
     cross |-> IF i > 3 THEN {} ELSE b.cross]

\* Where _count_tokens gives a count.
Fits(b, n) == Tokens(b) <= n

\* Slip: the hard cut is forgotten.
TrimmedSoftly(b, n) ==
    LET i == CHOOSE i \in 0..5 :
                /\ i = 5 \/ Fits(Dropped(b, i), n)
                /\ \A j \in 0..(i - 1) : ~Fits(Dropped(b, j), n)
    IN  Dropped(b, i)

\* The first that fits, or else the last.
Trimmed(b, n) ==
    LET i == CHOOSE i \in 0..6 :
                /\ i = 6 \/ Fits(Dropped(b, i), n)
                /\ \A j \in 0..(i - 1) : ~Fits(Dropped(b, j), n)
    IN  Dropped(b, i)

\* _trim_to_budget, when every count is had.
Cut ==
    /\ whole' = bundle /\ bundle' = Trimmed(bundle, budget)
    /\ Goto("done") /\ Fine /\ UNCHANGED g

\* It is called outside any try, and _count_tokens catches an ImportError only:
\* what else tiktoken raises, before the first cut or after any, ends the
\* request and all it has found.
Uncounted ==
    /\ Fails("trim") /\ Untold /\ Goto("raised")
    /\ g' = Nothing /\ bundle' = Empty /\ UNCHANGED whole

Trim ==
    /\ pc = "trim"
    /\ Cut \/ Uncounted
    /\ UNCHANGED <<here, request, locals, offered>>

-----------------------------------------------------------------------------
\* An ingest detaches a file, with its symbols and its chunks.
Detach(f) ==
    /\ pc \notin {"idle", "done", "raised"}
    /\ f \in here /\ Cardinality(Files \ here) < MaxGone
    /\ here' = here \ {f}
    /\ UNCHANGED <<pc, request, locals, offered, g, bundle, whole, errors, failed>>

Next ==
    \/ Ask \/ FindChunks \/ FindSymbolsIn \/ FindFulltext \/ Fuse \/ Rerank
    \/ OneHop \/ ReadCatalog
    \/ ReadSummaries("summaries", cand, "sym_summaries")
    \/ ReadSummaries("sym_summaries", candSyms, "ground")
    \/ Ground
    \/ HydrateServices \/ HydrateFiles \/ HydrateNamed \/ HydrateSymbols
    \/ CallNeighbours \/ RepoDocs \/ RepoMap \/ Code
    \/ (\E kind \in ToSet(MemoryKinds) : Remembered(kind))
    \/ VectorRecall \/ CrossRepo \/ Trim
    \/ \E f \in Files : Detach(f)

Spec == Init /\ [][Next]_vars

-----------------------------------------------------------------------------
(* Properties.                                                             *)

\* "ground to catalog/candidates only. Never invents" (translate): whatever
\* the model answers, wherever its answer breaks off and whatever the fallback
\* and the hydration make of it, what the bundle shows was a candidate of the
\* search or is what the question names.
Grounded ==
    /\ bundle.services \subseteq offered.services
    /\ ToSet(bundle.files) \subseteq offered.files \cup hit.names
    /\ ToSet(bundle.symbols) \subseteq offered.symbols \cup hit.names

\* The facts of a kind in b.
OfKind(b, kind) == {x \in b.facts : Kind[x] = kind}

\* "degrades that source to empty (recorded in bundle.errors) instead of failing
\* the whole bundle query": a source of which the errors of the answer say
\* nothing has given all it has for what is shown, up to its LIMIT, whichever
\* others have failed.  (Stated when no file was detached meanwhile.)
Complete ==
    pc = "done" /\ here = Files =>
        /\ "services" \notin errors => whole.services = g.services
        /\ "files" \notin errors => ToSet(whole.files) = Asked \cap Files
        /\ "symbols" \notin errors =>
              \E T \in Rows(hit.names \cap Symbols, NameLimit) :
                 ToSet(whole.symbols) = g.symbols \cup T
        /\ "repo_map" \notin errors => whole.map = Asked \cap Files
        /\ "code" \notin errors => ToSet(whole.chunks) \in Earliest(ChunksOf(whole))
        /\ "cross_repo" \notin errors => whole.cross \in Rows(Related, LinkLimit)
        /\ Anchors(whole) # {} => \A kind \in ToSet(MemoryKinds) \ errors :
              OfKind(whole, kind) \in Rows(Due(whole, kind), FactLimit)

\* What the bundle shows hangs on something it shows, also after the cut: a
\* fact on a file or symbol (unless it is a decision about nothing that is
\* left), a call on a symbol, a chunk on a file.
Anchored ==
    /\ \A x \in bundle.facts :
          \/ About[x] \cap Anchors(bundle) # {}
          \/ Kind[x] = "decisions" /\ About[x] \cap Live = {}
    /\ \A e \in bundle.calls : {e[1], e[2]} \cap ToSet(bundle.symbols) # {}
    /\ \A c \in ToSet(bundle.chunks) : ChunkOf[c] \in ToSet(bundle.files)

\* "raw code is re-readable from disk, memory facts are not": a fact is dropped
\* only if it would not fit without calls and code, and a file, symbol or
\* service only if it would not fit without facts either.  What remains fits
\* the budget, or it is only what is never dropped.
CutInOrder ==
    pc = "done" =>
        LET bare == [whole EXCEPT !.calls = {}, !.chunks = <<>>]
            least == [bare EXCEPT !.facts = {}, !.cross = {}]
        IN  /\ bundle.facts # whole.facts => ~Fits(bare, budget)
            /\ \/ bundle.files # whole.files
               \/ bundle.symbols # whole.symbols
               \/ bundle.services # whole.services
               => ~Fits(least, budget)
            /\ \/ Fits(bundle, budget)
               \/ /\ bundle = [Empty EXCEPT !.docs = bundle.docs, !.map = bundle.map]
                  /\ bundle.docs # "long"

\* The search lists f before h, where it lists h at all.
Ahead(q, f, h) == h \in ToSet(q) => f \in ToSet(q) /\ Position(q, f) < Position(q, h)

\* Rank fusion: a file that no list puts behind another and that the question
\* favours no less stays ahead of it, whatever the prior and the ties.
FusionIsFair ==
    pc = "fuse" =>
        \A P \in Priors : \A f, h \in ToSet(found \o fulltext) :
            /\ f # h /\ Ahead(found, f, h) /\ Ahead(fulltext, f, h)
            /\ P[h] <= P[f]
            => \A q \in Fused(P) : Position(q, f) < Position(q, h)

-----------------------------------------------------------------------------
(* What the properties rest on: what holds at each stage.                  *)

\* Where a stage of the bundle stands; the search is before them all.
Rank(p) ==
    CASE p = "services" -> 1 [] p = "files" -> 2 [] p = "named" -> 3
      [] p = "symbols" -> 4 [] p = "calls" -> 5 [] p = "repo_docs" -> 6
      [] p = "repo_map" -> 7 [] p = "code" -> 8 [] p = "decisions" -> 9
      [] p = "observations" -> 10 [] p = "vector" -> 11 [] p = "notes" -> 12
      [] p = "docs" -> 13 [] p = "cross_repo" -> 14 [] p = "trim" -> 15
      [] p = "done" -> 16 [] OTHER -> 0

\* A part of the bundle is empty until its stage.
EmptyInv ==
    /\ Rank(pc) = 0 => g = Nothing /\ bundle = Empty
    /\ Rank(pc) <= 1 => bundle.services = {}
    /\ Rank(pc) <= 2 => bundle.files = <<>>
    /\ Rank(pc) <= 3 => bundle.symbols = <<>>
    /\ Rank(pc) <= 5 => bundle.calls = {}
    /\ Rank(pc) <= 7 => bundle.map = {}
    /\ Rank(pc) <= 8 => bundle.chunks = <<>>
    /\ \A x \in bundle.facts : Rank(Kind[x]) < Rank(pc)

\* What is shown was chosen or asked for, and what is chosen was offered.
GroundInv ==
    /\ g.services \subseteq offered.services
    /\ g.files \subseteq offered.files
    /\ g.symbols \subseteq offered.symbols
    /\ bundle.services \subseteq g.services
    /\ ToSet(bundle.files) \subseteq g.files \cup hit.names
    /\ ToSet(bundle.symbols) \subseteq g.symbols \cup hit.names

\* While the request goes on and when it is answered, the errors tell of the
\* stages that have failed, but for the silent ones.
ErrorsInv == pc # "raised" => errors = failed \ Silent

\* The bundle before the cut, while it is built and when it is there.
Draft == IF pc = "done" THEN whole ELSE bundle

\* Each stage that is over and has not failed has left all it had.
CompleteInv ==
    here = Files =>
        /\ Rank(pc) <= 1 \/ "services" \in failed \/ Draft.services = g.services
        /\ Rank(pc) <= 2 \/ "files" \in failed \/ ToSet(Draft.files) = Asked \cap Files
        /\ Rank(pc) # 4 \/ "symbols" \in failed
           \/ ToSet(Draft.symbols) \in Rows(hit.names \cap Symbols, NameLimit)
        /\ Rank(pc) <= 4 \/ "symbols" \in failed
           \/ \E T \in Rows(hit.names \cap Symbols, NameLimit) :
                 ToSet(Draft.symbols) = g.symbols \cup T
        /\ Rank(pc) <= 7 \/ "repo_map" \in failed \/ Draft.map = Asked \cap Files
        /\ Rank(pc) <= 8 \/ "code" \in failed
           \/ ToSet(Draft.chunks) \in Earliest(ChunksOf(Draft))
        /\ \A kind \in ToSet(MemoryKinds) :
              \/ Rank(pc) <= Rank(kind) \/ kind \in failed \/ Anchors(Draft) = {}
              \/ OfKind(Draft, kind) \in Rows(Due(Draft, kind), FactLimit)
        /\ Rank(pc) <= 14 \/ "cross_repo" \in failed
           \/ Draft.cross \in Rows(Related, LinkLimit)

\* No list of the search names a file twice.
OnceInv ==
    \A q \in {found, fulltext} : \A i, j \in DOMAIN q : q[i] = q[j] => i = j

=============================================================================
