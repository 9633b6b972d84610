-------------------------------- MODULE CallGraph --------------------------------
(***************************************************************************)
(* Who calls whom: how the CALLS and IMPORTS edges of the index come about *)
(* and what a delta leaves of them.  features/symbol/extract_calls.py      *)
(* (resolve_calls_with_source) finds for the name in a call the symbol it  *)
(* means; features/symbol/store.py (upsert_files_and_symbols,              *)
(* upsert_call_edges) replaces the edges of the files walked.  Both are    *)
(* called by features/flow/runner.py for all files and by                  *)
(* features/delta/extract.py for those that changed.                       *)
(*                                                                         *)
(* A file goes through the contents History[f]; recorded[f] is the one     *)
(* whose hash merkle_files has.  A content is never met again: what        *)
(* happens then is Ingest's subject (Restore, Revert).  So are HEAD, the   *)
(* pack, summaries and chunks.  Edges are kept by tier: the confidence 1.0 *)
(* is "same", 0.7 "import" and 0.4 "fuzzy".                                *)
(***************************************************************************)
EXTENDS Integers, FiniteSets, Sequences

CONSTANTS
    Order,      \* the files, in the order a walk meets them
    Symbols, Names,
    FileOf,     \* FileOf[s]: the file whose path s.fqname starts with
    NameOf,     \* NameOf[s]: the last segment of s.fqname
    History,    \* History[f]: the contents f goes through
    Absent,     \* one of them: there is no file
    Lsp,        \* the calls a language server may tell of
    Unsteady,   \* the files that may fail to be read a second time
    MaxFull,    \* bound on the full ingests after the first
    MaxAborts   \* bound on the ingests that end half way

Files == {Order[i] : i \in DOMAIN Order}

\* An import is resolved to the first of some paths there is a file at: near
\* are the siblings of the importer, far the paths from the root.
Content ==
    [defs : Seq(Symbols), calls : SUBSET (Symbols \X Names),
     imports : Seq([near : Seq(Files), far : Seq(Files)])]

Tiers == {"same", "import", "fuzzy"}
Edge == [from : Symbols, to : Symbols, tier : Tiers]

ASSUME CallGraphAssumption ==
    /\ Order \in Seq(Files)
    /\ FileOf \in [Symbols -> Files] /\ NameOf \in [Symbols -> Names]
    /\ Absent \notin Content
    /\ \A f \in Files : History[f] \in Seq(Content \cup {Absent}) /\ Len(History[f]) > 0
    /\ \A f \in Files : \A v \in DOMAIN History[f] : History[f][v] # Absent =>
             /\ \A i \in DOMAIN History[f][v].defs : FileOf[History[f][v].defs[i]] = f
             /\ \A c \in History[f][v].calls :
                   \E i \in DOMAIN History[f][v].defs : History[f][v].defs[i] = c[1]
    /\ Lsp \subseteq Symbols \X Symbols /\ Unsteady \subseteq Files
    /\ {MaxFull, MaxAborts} \subseteq Nat

VARIABLES
    disk,       \* disk[f]: the content of f is History[f][disk[f]]
    recorded,   \* merkle_files: the content recorded, 0 for no row
    fnodes,     \* the File_v2 nodes
    nodes,      \* the Symbol_v2 nodes
    imports,    \* IMPORTS
    calls,      \* CALLS
    pc,         \* where the ingest stands
    target,     \* the files it is to index
    todo,       \* the statements of _detach_files left
    walked,     \* walked[f]: the content of f it has walked, 0 for not walked
    unread,     \* the files it failed to read again for their calls
    edges,      \* the edges it has resolved and not yet written
    fulls, aborts   \* so far

graph == <<fnodes, nodes, imports, calls>>
local == <<target, todo, walked, unread, edges>>
tally == <<fulls, aborts>>
vars == <<disk, recorded, graph, pc, local, tally>>

Is(f, v) == History[f][v]
There == {f \in Files : Is(f, disk[f]) # Absent}
W == {f \in Files : walked[f] # 0}

TypeOK ==
    /\ disk \in [Files -> Nat] /\ \A f \in Files : disk[f] \in DOMAIN History[f]
    /\ recorded \in [Files -> Nat] /\ \A f \in Files : recorded[f] <= disk[f]
    /\ fnodes \subseteq Files /\ nodes \subseteq Symbols
    /\ imports \subseteq fnodes \X fnodes
    /\ calls \subseteq Edge /\ \A e \in calls : {e.from, e.to} \subseteq nodes
    /\ \A d, e \in calls : d.from = e.from /\ d.to = e.to => d = e
    /\ pc \in {"idle", "detach", "walk", "files", "prune", "symbols", "unimport",
               "import", "resolve", "uncall", "call"}
    /\ target \subseteq Files
    /\ todo \subseteq Files \X {"symbols", "file"}
    /\ walked \in [Files -> Nat] /\ \A f \in Files : walked[f] <= disk[f]
    /\ unread \subseteq Files /\ edges \subseteq Edge
    /\ {fulls, aborts} \subseteq Nat

Init ==
    /\ disk = [f \in Files |-> 1]
    /\ recorded = [f \in Files |-> 0]
    /\ fnodes = {} /\ nodes = {} /\ imports = {} /\ calls = {}
    /\ pc = "idle" /\ target = {} /\ todo = {}
    /\ walked = [f \in Files |-> 0] /\ unread = {} /\ edges = {}
    /\ fulls = 0 /\ aborts = 0

-----------------------------------------------------------------------------
(* Which symbol a call means, among the files walked: w[f] is the content  *)
(* of f, 0 for a file that is not walked.                                  *)

Nobody == {}

Defs(f, v) == {Is(f, v).defs[i] : i \in DOMAIN Is(f, v).defs}

\* The first of a sequence for which P holds; Nobody if there is none.
FirstOf(q, P(_)) ==
    {q[i] : i \in {j \in DOMAIN q : P(q[j]) /\ \A k \in 1..j-1 : ~P(q[k])}}

Named(w, f, n) ==
    IF w[f] = 0 THEN Nobody ELSE {s \in Defs(f, w[f]) : NameOf[s] = n}

\* file_index: the last symbol of that name in the file.
InFile(w, f, n) ==
    IF w[f] = 0 THEN Nobody
    ELSE LET defs == Is(f, w[f]).defs IN
         {defs[i] : i \in {j \in DOMAIN defs :
             NameOf[defs[j]] = n /\ \A k \in j+1..Len(defs) : NameOf[defs[k]] # n}}

\* _resolve_imports_to_files: of each import the first path that was walked.
Imported(w, imp) == FirstOf(imp.near \o imp.far, LAMBDA g : w[g] # 0)

\* _from_imports: the first import that has the name.
ByImport(w, f, n) ==
    LET has == FirstOf(Is(f, w[f]).imports,
                  LAMBDA imp : \E g \in Imported(w, imp) : InFile(w, g, n) # {})
    IN UNION {UNION {InFile(w, g, n) : g \in Imported(w, imp)} : imp \in has}

\* by_name: the first symbol of that name anywhere.
Anywhere(w, n) ==
    UNION {LET defs == Is(f, w[f]).defs IN FirstOf(defs, LAMBDA s : NameOf[s] = n)
           : f \in FirstOf(Order, LAMBDA g : Named(w, g, n) # {})}

\* The three tiers.  A symbol is not said to call itself: the next tier is
\* tried instead.
Meaning(w, f, s, n) ==
    LET edge(found, tier) ==
            {[from |-> s, to |-> t, tier |-> tier] : t \in found \ {s}} IN
    IF InFile(w, f, n) \ {s} # {} THEN edge(InFile(w, f, n), "same")
    ELSE IF ByImport(w, f, n) \ {s} # {} THEN edge(ByImport(w, f, n), "import")
    ELSE edge(Anywhere(w, n), "fuzzy")

\* resolve_calls_with_source, for the calls found in each file.
Resolved(w, sites) ==
    UNION {UNION {Meaning(w, f, c[1], c[2]) : c \in sites[f]} : f \in Files}

\* _merge_calls: of two edges between the same symbols the surer one.
Merged(p, q) == {e \in p : \A d \in q : d.from # e.from \/ d.to # e.to} \cup q

\* _resolve_import_to_file: of an import only the paths from the root.
ImportsOf(w) ==
    UNION {{<<f, g>> : g \in UNION {FirstOf(imp.far, LAMBDA h : w[h] # 0) : imp \in
                {Is(f, w[f]).imports[i] : i \in DOMAIN Is(f, w[f]).imports}}}
           : f \in {h \in Files : w[h] # 0}}

-----------------------------------------------------------------------------
(* The ingest.                                                             *)

Goto(p) == pc' = p

\* ingest_repo: every file.
BeginFull ==
    /\ pc = "idle"
    /\ \/ recorded = [f \in Files |-> 0] /\ UNCHANGED fulls
       \/ fulls < MaxFull /\ fulls' = fulls + 1
    /\ target' = Files /\ Goto("walk")
    /\ UNCHANGED <<disk, recorded, graph, todo, walked, unread, edges, aborts>>

\* Slip: what is gone is left alone.
BeginDeltaPresent ==
    /\ pc = "idle" /\ \E f \in Files : recorded[f] # 0
    /\ target' = {f \in There : recorded[f] # disk[f]}
    /\ target' # {}
    /\ Goto("detach")
    /\ UNCHANGED <<disk, recorded, graph, todo, walked, unread, edges, tally>>

\* ingest_delta: what is not as recorded is indexed again, and what was
\* recorded and is gone is detached.
BeginDelta ==
    /\ pc = "idle" /\ \E f \in Files : recorded[f] # 0
    /\ target' = {f \in There : recorded[f] # disk[f]}
    /\ todo' = {f \in Files \ There : recorded[f] # 0} \X {"symbols", "file"}
    /\ target' # {} \/ todo' # {}
    /\ Goto("detach")
    /\ UNCHANGED <<disk, recorded, graph, walked, unread, edges, tally>>

\* DETACH DELETE.
Drop(S) ==
    /\ nodes' = nodes \ S
    /\ calls' = {e \in calls : e.from \notin S /\ e.to \notin S}

\* _detach_files, two statements a file.
Detach(f) ==
    /\ pc = "detach"
    /\ \/ /\ <<f, "symbols">> \in todo /\ todo' = todo \ {<<f, "symbols">>}
          /\ Drop(IF f \in fnodes THEN {s \in Symbols : FileOf[s] = f} ELSE {})
          /\ UNCHANGED <<fnodes, imports>>
       \/ /\ <<f, "symbols">> \notin todo
          /\ <<f, "file">> \in todo /\ todo' = todo \ {<<f, "file">>}
          /\ fnodes' = fnodes \ {f}
          /\ imports' = {i \in imports : f \notin {i[1], i[2]}}
          /\ UNCHANGED <<nodes, calls>>
    /\ UNCHANGED <<disk, recorded, pc, target, walked, unread, edges, tally>>

Detached ==
    /\ pc = "detach" /\ todo = {}
    /\ Goto("walk")
    /\ UNCHANGED <<disk, recorded, graph, local, tally>>

\* walk_repo, and of that the target.
Walk ==
    /\ pc = "walk"
    /\ walked' = [f \in Files |-> IF f \in target \cap There THEN disk[f] ELSE 0]
    /\ Goto("files")
    /\ UNCHANGED <<disk, recorded, graph, target, todo, unread, edges, tally>>

UpsertFiles ==
    /\ pc = "files"
    /\ fnodes' = fnodes \cup W
    /\ Goto("prune")
    /\ UNCHANGED <<disk, recorded, nodes, imports, calls, local, tally>>

\* Slip: symbols that are gone stay.
PruneNone ==
    /\ pc = "prune" /\ Goto("symbols")
    /\ UNCHANGED <<disk, recorded, graph, local, tally>>

PruneSymbols ==
    /\ pc = "prune"
    /\ Drop({s \in Symbols : FileOf[s] \in W /\ s \notin Defs(FileOf[s], walked[FileOf[s]])})
    /\ Goto("symbols")
    /\ UNCHANGED <<disk, recorded, fnodes, imports, local, tally>>

UpsertSymbols ==
    /\ pc = "symbols"
    /\ nodes' = nodes \cup UNION {Defs(f, walked[f]) : f \in W}
    /\ Goto("unimport")
    /\ UNCHANGED <<disk, recorded, fnodes, imports, calls, local, tally>>

PruneImports ==
    /\ pc = "unimport"
    /\ imports' = {i \in imports : i[1] \notin W}
    /\ Goto("import")
    /\ UNCHANGED <<disk, recorded, fnodes, nodes, calls, local, tally>>

UpsertImports ==
    /\ pc = "import"
    /\ imports' = imports \cup ImportsOf(walked)
    /\ Goto("resolve")
    /\ UNCHANGED <<disk, recorded, fnodes, nodes, calls, local, tally>>

\* The files are read again for their calls.  In one that has changed since
\* the walk a call may be put down to any symbol walked, or to none: its line
\* is compared with where those were.  In one that is gone there is no call.
Moved(f) ==
    IF f \in (W \cap There) /\ walked[f] # disk[f]
    THEN Defs(f, walked[f]) \X {c[2] : c \in Is(f, disk[f]).calls} ELSE {}

\* A file that is not read again has none.
Sites(misread, failed) ==
    [f \in Files |-> IF f \in failed THEN {}
                     ELSE IF f \in W /\ walked[f] = disk[f] THEN Is(f, disk[f]).calls
                     ELSE misread \cap Moved(f)]

\* What the language servers say is between files walked.
Resolve ==
    /\ pc = "resolve" /\ Goto("uncall")
    /\ unread' \in SUBSET (W \cap Unsteady)
    /\ \E sites \in {Sites(m, unread') : m \in SUBSET UNION {Moved(f) : f \in Files}} :
       \E more \in SUBSET {c \in Lsp : FileOf[c[1]] \in W /\ FileOf[c[2]] \in W} :
          edges' = Merged(Resolved(walked, sites),
                          {[from |-> c[1], to |-> c[2], tier |-> "same"] : c \in more})
    /\ UNCHANGED <<disk, recorded, graph, target, todo, walked, tally>>

\* Slip: calls are only ever added.
PruneCallsNone ==
    /\ pc = "uncall" /\ Goto("call")
    /\ UNCHANGED <<disk, recorded, graph, local, tally>>

\* Slip: all calls are replaced.
PruneCallsAll ==
    /\ pc = "uncall"
    /\ calls' = {}
    /\ Goto("call")
    /\ UNCHANGED <<disk, recorded, fnodes, nodes, imports, local, tally>>

PruneCalls ==
    /\ pc = "uncall"
    /\ calls' = {e \in calls : FileOf[e.from] \notin W}
    /\ Goto("call")
    /\ UNCHANGED <<disk, recorded, fnodes, nodes, imports, local, tally>>

\* The next batch of edges, one here, between nodes there are.  MERGE: one
\* edge for a pair.
UpsertCalls ==
    /\ pc = "call" /\ edges # {}
    /\ LET e == CHOOSE d \in edges : TRUE IN
          /\ edges' = edges \ {e}
          /\ calls' = IF {e.from, e.to} \subseteq nodes
                      THEN {d \in calls : d.from # e.from \/ d.to # e.to} \cup {e}
                      ELSE calls
    /\ UNCHANGED <<disk, recorded, fnodes, nodes, imports, pc, target, todo, walked,
                   unread, tally>>

\* An ingest ends and its local variables go with it.
Ends ==
    /\ Goto("idle")
    /\ target' = {} /\ todo' = {} /\ unread' = {} /\ edges' = {}
    /\ walked' = [f \in Files |-> 0]

\* Slip: the hashes of what is there now are recorded.
RecordNow ==
    /\ pc = "call" /\ edges = {}
    /\ recorded' = [f \in Files |-> IF f \in W THEN disk[f] ELSE recorded[f]]
    /\ Ends
    /\ UNCHANGED <<disk, graph, tally>>

\* upsert_file_hashes, those of the walk.
Record ==
    /\ pc = "call" /\ edges = {}
    /\ recorded' = [f \in Files |-> IF f \in W THEN walked[f] ELSE recorded[f]]
    /\ Ends
    /\ UNCHANGED <<disk, graph, tally>>

\* A statement raises, or the process is killed.
Abort ==
    /\ pc # "idle" /\ aborts < MaxAborts
    /\ aborts' = aborts + 1
    /\ Ends
    /\ UNCHANGED <<disk, recorded, graph, fulls>>

\* Somebody edits, deletes or brings back a file.
Change(f) ==
    /\ disk[f] < Len(History[f])
    /\ disk' = [disk EXCEPT ![f] = @ + 1]
    /\ UNCHANGED <<recorded, graph, pc, local, tally>>

Step ==
    \/ (\E f \in Files : Detach(f)) \/ Detached
    \/ Walk \/ UpsertFiles \/ PruneSymbols \/ UpsertSymbols
    \/ PruneImports \/ UpsertImports
    \/ Resolve \/ PruneCalls \/ UpsertCalls \/ Record

Next ==
    \/ BeginFull \/ BeginDelta \/ Step
    \/ Abort
    \/ \E f \in Files : Change(f)

Spec == Init /\ [][Next]_vars

\* The scheduler sweeps the repository again and again, and an ingest that is
\* not aborted runs on.
FairSpec == Spec /\ WF_vars(BeginFull) /\ WF_vars(BeginDelta) /\ WF_vars(Step)

-----------------------------------------------------------------------------
(* Properties.                                                             *)

Known == {f \in There : recorded[f] = disk[f]}

NodesOf(f) == {s \in nodes : FileOf[s] = f}

\* A call the content on disk bears out.
Made(e) ==
    \/ <<e.from, NameOf[e.to]>> \in Is(FileOf[e.from], disk[FileOf[e.from]]).calls
    \/ <<e.from, e.to>> \in Lsp

\* What the index says of a file it takes for known is so, whatever ingests
\* were aborted, in whatever mixture: its symbols are those it defines, and
\* each call is of a name the caller calls, or one a language server told of.
CallsAreMade ==
    \A f \in Known :
       /\ NodesOf(f) = Defs(f, disk[f])
       /\ \A e \in calls : FileOf[e.from] = f => Made(e)

\* No file walked has changed since.
AsWalked == \A f \in W : walked[f] = disk[f]

\* The calls the contents walked determine, those of a file aside that could
\* not be read again.
Found == Resolved(walked, Sites({}, unread))

\* Each call found is there, and what is there is one of them, at its tier, or
\* is a language server's.
Just(found, mine) ==
    /\ \A e \in found : \E d \in mine : d.from = e.from /\ d.to = e.to
    /\ \A e \in mine : e \in found \/ (<<e.from, e.to>> \in Lsp /\ e.tier = "same")

\* "Replace CALLS edges sourced from each file": when an ingest ends by itself,
\* and the files stayed as walked, their calls and imports are exactly those
\* the files walked determine, at the surest tier; after a full ingest those
\* of the whole tree, whatever was there before.  A file that could not be read
\* again has lost the calls it had.
Replaced ==
    [][/\ pc = "call" /\ pc' = "idle" /\ aborts' = aborts
       /\ AsWalked
       =>
          /\ {i \in imports : i[1] \in W} = ImportsOf(walked)
          /\ Just(Found, {e \in calls : FileOf[e.from] \in W})
      ]_vars

\* An ingest adds no call to a file it does not walk and changes none; it
\* takes one away only with the symbol called or calling.
OthersOnlyLose ==
    [][\A e \in (calls \ calls') \cup (calls' \ calls) :
          FileOf[e.from] \in W \/ (e \notin calls' /\ ~({e.from, e.to} \subseteq nodes'))]_vars

\* When edits and failures stop, no symbol, call or import of the index is for
\* ever one of a content or a file that is gone.  (One of a file that was
\* deleted before any ingest of it reached its end is: no hash tells of it.)
NoGhosts ==
    LET Tracked == {f \in Files : recorded[f] # 0} IN
    <>[](/\ \A s \in nodes : FileOf[s] \in Tracked =>
               FileOf[s] \in There /\ s \in Defs(FileOf[s], disk[FileOf[s]])
         /\ \A e \in calls : FileOf[e.from] \in Tracked => Made(e)
         /\ \A i \in imports : {i[1], i[2]} \subseteq Tracked => {i[1], i[2]} \subseteq There)

\* "fuzzy: any Symbol_v2 in the repo whose terminal name matches": when every
\* file is known, a call of a name that has a symbol in another file is there.
CallersFound ==
    pc = "idle" /\ Known = Files =>
       \A f \in Files : \A c \in Is(f, disk[f]).calls :
          (\E s \in nodes : NameOf[s] = c[2] /\ FileOf[s] # f) =>
             \E e \in calls : e.from = c[1] /\ NameOf[e.to] = c[2]

-----------------------------------------------------------------------------
(* What the properties rest on.                                            *)

\* Where an ingest stands once it has done a step.
Past(p) ==
    CASE p = "files" -> {"prune", "symbols", "unimport", "import", "resolve", "uncall", "call"}
      [] p = "prune" -> {"symbols", "unimport", "import", "resolve", "uncall", "call"}
      [] p = "symbols" -> {"unimport", "import", "resolve", "uncall", "call"}

\* A content that was walked or recorded was one there was, and was met in
\* this order; what is to be detached has changed since it was recorded.
WalkInv ==
    /\ pc \in {"idle", "detach", "walk"} => W = {}
    /\ \A f \in Files : recorded[f] # 0 => Is(f, recorded[f]) # Absent
    /\ \A f \in W : Is(f, walked[f]) # Absent /\ recorded[f] <= walked[f]
    /\ \A t \in todo : recorded[t[1]] < disk[t[1]]

\* The nodes of the files walked, as far as the ingest has come.
NodesInv ==
    /\ pc \in Past("files") => W \subseteq fnodes
    /\ pc \in Past("prune") => \A f \in W : NodesOf(f) \subseteq Defs(f, walked[f])
    /\ pc \in Past("symbols") => \A f \in W : NodesOf(f) = Defs(f, walked[f])

\* The calls of the files walked, of which none has changed since.
EdgesInv ==
    LET Said(e) == walked[FileOf[e.from]] = disk[FileOf[e.from]] => Made(e) IN
    /\ \A e \in edges : FileOf[e.from] \in W /\ Said(e)
    /\ pc = "call" => \A e \in calls : FileOf[e.from] \in W => Said(e)

\* Of the files walked the imports are replaced, once those they had are gone;
\* and the calls, those not yet written counted in.
ReplaceInv ==
    /\ pc = "import" => \A i \in imports : i[1] \notin W
    /\ pc \in {"resolve", "uncall", "call"} =>
          {i \in imports : i[1] \in W} = ImportsOf(walked)
    /\ pc = "uncall" /\ AsWalked => Just(Found, edges)
    /\ pc = "call" /\ AsWalked =>
          Just(Found, edges \cup {e \in calls : FileOf[e.from] \in W})

=============================================================================
