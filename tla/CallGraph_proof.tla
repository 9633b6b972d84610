---------------------------- MODULE CallGraph_proof ----------------------------
(***************************************************************************)
(* Proofs about CallGraph, for any files, contents, language servers and   *)
(* numbers of ingests and failures.                                        *)
(***************************************************************************)
EXTENDS CallGraph, TLAPS

-----------------------------------------------------------------------------
(* Contents, and what a call means.                                        *)

\* What extract.py makes of a file: symbols of its own, and calls by them.
LEMMA ContentIs ==
    ASSUME NEW f \in Files, NEW v \in DOMAIN History[f], Is(f, v) # Absent
    PROVE  /\ Is(f, v) \in Content
           /\ Defs(f, v) \subseteq Symbols
           /\ \A s \in Defs(f, v) : FileOf[s] = f
           /\ Is(f, v).calls \subseteq Symbols \X Names
           /\ \A c \in Is(f, v).calls : c[1] \in Defs(f, v)
<1>1. History[f] \in Seq(Content \cup {Absent})
  BY CallGraphAssumption
<1>2. Is(f, v) \in Content
  BY <1>1 DEF Is
<1>3. Is(f, v).defs \in Seq(Symbols) /\ Is(f, v).calls \subseteq Symbols \X Names
  BY <1>2 DEF Content
<1>4. /\ \A i \in DOMAIN Is(f, v).defs : FileOf[Is(f, v).defs[i]] = f
      /\ \A c \in Is(f, v).calls : \E i \in DOMAIN Is(f, v).defs : Is(f, v).defs[i] = c[1]
  BY CallGraphAssumption DEF Is
<1>5. QED
  BY <1>2, <1>3, <1>4 DEF Defs

\* The members of a list are of its type.
LEMMA Members ==
    ASSUME NEW S, NEW q \in Seq(S)
    PROVE  \A i \in DOMAIN q : q[i] \in S
OBVIOUS

\* What a walk holds: contents there were.
Walked(w) ==
    /\ w \in [Files -> Nat]
    /\ \A f \in Files : w[f] # 0 => w[f] \in DOMAIN History[f] /\ Is(f, w[f]) # Absent

\* A symbol defined by a content walked.
Has(w, t) == \E g \in Files : w[g] # 0 /\ t \in Defs(g, w[g])

\* file_index finds symbols of the name looked for.
LEMMA InFileIs ==
    ASSUME NEW w, Walked(w), NEW f \in Files, NEW n
    PROVE  \A t \in InFile(w, f, n) : t \in Symbols /\ NameOf[t] = n /\ Has(w, t)
<1>1. CASE w[f] = 0
  BY <1>1 DEF InFile, Nobody
<1>2. CASE w[f] # 0
  <2>1. Defs(f, w[f]) \subseteq Symbols
    BY <1>2, ContentIs DEF Walked
  <2>2. QED
    BY <1>2, <2>1 DEF InFile, Defs, Has
<1>3. QED
  BY <1>1, <1>2

\* An import is resolved to files.
LEMMA ImportedIs ==
    ASSUME NEW w, NEW imp \in [near : Seq(Files), far : Seq(Files)]
    PROVE  /\ Imported(w, imp) \subseteq Files
           /\ FirstOf(imp.far, LAMBDA h : w[h] # 0) \subseteq {h \in Files : w[h] # 0}
<1>1. imp.near \o imp.far \in Seq(Files) /\ imp.far \in Seq(Files)
  OBVIOUS
<1>2. QED
  BY <1>1 DEF Imported, FirstOf

\* So do the imports of the file.
LEMMA ByImportIs ==
    ASSUME NEW w, Walked(w), NEW f \in Files, w[f] # 0, NEW n
    PROVE  \A t \in ByImport(w, f, n) : t \in Symbols /\ NameOf[t] = n /\ Has(w, t)
<1>1. Is(f, w[f]).imports \in Seq([near : Seq(Files), far : Seq(Files)])
  BY ContentIs DEF Walked, Content
<1>2. \A imp \in [near : Seq(Files), far : Seq(Files)] : Imported(w, imp) \subseteq Files
  BY ImportedIs
<1> DEFINE has == FirstOf(Is(f, w[f]).imports,
                     LAMBDA imp : \E g \in Imported(w, imp) : InFile(w, g, n) # {})
<1>3. has \subseteq [near : Seq(Files), far : Seq(Files)]
  <2>1. \A i \in DOMAIN Is(f, w[f]).imports :
           Is(f, w[f]).imports[i] \in [near : Seq(Files), far : Seq(Files)]
    BY <1>1, Members, Zenon
  <2>2. QED
    BY <2>1, Zenon DEF FirstOf
<1> HIDE DEF has
<1>4. ASSUME NEW imp \in has, NEW g \in Imported(w, imp), NEW t \in InFile(w, g, n)
      PROVE  t \in Symbols /\ NameOf[t] = n /\ Has(w, t)
  BY <1>2, <1>3, <1>4, InFileIs
<1>5. ByImport(w, f, n) = UNION {UNION {InFile(w, g, n) : g \in Imported(w, imp)} : imp \in has}
  BY DEF ByImport, has
<1>6. QED
  BY <1>4, <1>5

\* And so does by_name.
LEMMA AnywhereIs ==
    ASSUME NEW w, Walked(w), NEW n
    PROVE  \A t \in Anywhere(w, n) : t \in Symbols /\ NameOf[t] = n /\ Has(w, t)
<1> DEFINE F == FirstOf(Order, LAMBDA g : Named(w, g, n) # {})
           D(f) == FirstOf(Is(f, w[f]).defs, LAMBDA s : NameOf[s] = n)
<1>1. \A f \in F : f \in Files /\ w[f] # 0
  BY DEF FirstOf, Files, Named, Nobody
<1>2. ASSUME NEW f \in Files, w[f] # 0, NEW t \in D(f)
      PROVE  t \in Symbols /\ NameOf[t] = n /\ Has(w, t)
  <2>1. Is(f, w[f]).defs \in Seq(Symbols)
    BY <1>2, ContentIs DEF Walked, Content
  <2>2. t \in Defs(f, w[f]) /\ t \in Symbols /\ NameOf[t] = n
    BY <2>1 DEF FirstOf, Defs
  <2>3. QED
    BY <1>2, <2>2 DEF Has
<1>3. Anywhere(w, n) = UNION {D(f) : f \in F}
  BY DEF Anywhere
<1> HIDE DEF F, D
<1>4. QED
  BY <1>1, <1>2, <1>3

\* Whatever the tier, a call of a name is resolved to a symbol of that name.
LEMMA MeaningIs ==
    ASSUME NEW w, Walked(w), NEW f \in Files, w[f] # 0, NEW s \in Symbols, NEW n,
           NEW e \in Meaning(w, f, s, n)
    PROVE  e \in Edge /\ e.from = s /\ NameOf[e.to] = n /\ Has(w, e.to)
<1>1. \E t, tier : /\ t \in InFile(w, f, n) \cup ByImport(w, f, n) \cup Anywhere(w, n)
                   /\ tier \in Tiers /\ e = [from |-> s, to |-> t, tier |-> tier]
  BY DEF Meaning, Tiers
<1>2. QED
  BY <1>1, InFileIs, ByImportIs, AnywhereIs DEF Edge

\* An edge the ingest has resolved is for a call of a file it has walked.
LEMMA ResolvedIs ==
    ASSUME NEW w, Walked(w), NEW sites,
           \A f \in Files : \A c \in sites[f] :
              w[f] # 0 /\ c[1] \in Symbols /\ FileOf[c[1]] = f,
           NEW e \in Resolved(w, sites)
    PROVE  /\ e \in Edge /\ Has(w, e.to)
           /\ \E f \in Files : \E c \in sites[f] :
                 f = FileOf[e.from] /\ e.from = c[1] /\ NameOf[e.to] = c[2]
<1>1. PICK f \in Files : \E c \in sites[f] : e \in Meaning(w, f, c[1], c[2])
  BY DEF Resolved
<1>2. PICK c \in sites[f] : e \in Meaning(w, f, c[1], c[2])
  BY <1>1
<1>3. e \in Edge /\ e.from = c[1] /\ NameOf[e.to] = c[2] /\ Has(w, e.to)
  BY <1>2, MeaningIs
<1>4. QED
  BY <1>2, <1>3

-----------------------------------------------------------------------------
(* Types.                                                                  *)

\* What TypeOK says of the contents.
LEMMA WalkedNow ==
    ASSUME TypeOK, WalkInv
    PROVE  /\ Walked(walked)
           /\ \A f \in W : f \in Files /\ walked[f] # 0 /\ walked[f] \in DOMAIN History[f]
           /\ \A f \in Files : DOMAIN History[f] = 1..Len(History[f]) /\ Len(History[f]) \in Nat
           /\ \A f \in Files : \A v \in Nat : v # 0 /\ v <= disk[f] => v \in DOMAIN History[f]
           /\ \A f \in Files : disk[f] \in DOMAIN History[f] /\ disk[f] \in Nat
<1>1. \A f \in Files : /\ DOMAIN History[f] = 1..Len(History[f])
                       /\ Len(History[f]) \in Nat /\ disk[f] \in DOMAIN History[f]
  BY CallGraphAssumption DEF TypeOK
<1>2. \A f \in Files : \A v \in Nat : v # 0 /\ v <= disk[f] => v \in DOMAIN History[f]
  BY <1>1
<1>3. walked \in [Files -> Nat] /\ \A f \in Files : walked[f] <= disk[f]
  BY DEF TypeOK
<1>4. \A f \in Files : walked[f] # 0 => /\ walked[f] \in DOMAIN History[f]
                                       /\ Is(f, walked[f]) # Absent
  BY <1>2, <1>3 DEF WalkInv, W
<1>5. QED
  BY <1>1, <1>2, <1>3, <1>4 DEF Walked, W

\* The calls read again are of symbols walked.
LEMMA SitesAre ==
    ASSUME TypeOK, WalkInv, NEW m \in SUBSET UNION {Moved(f) : f \in Files},
           NEW failed, NEW f \in Files
    PROVE  \A c \in Sites(m, failed)[f] :
              walked[f] # 0 /\ c[1] \in Symbols /\ FileOf[c[1]] = f
<1>1. f \in W => /\ walked[f] # 0 /\ walked[f] \in DOMAIN History[f]
                 /\ Is(f, walked[f]) # Absent
  BY WalkedNow DEF WalkInv
<1>2. f \in W => /\ Defs(f, walked[f]) \subseteq Symbols
                 /\ \A s \in Defs(f, walked[f]) : FileOf[s] = f
                 /\ \A c \in Is(f, walked[f]).calls : c[1] \in Defs(f, walked[f])
  BY <1>1, ContentIs
<1>3. /\ f \in W /\ walked[f] = disk[f] =>
            Sites(m, failed)[f] \subseteq Is(f, disk[f]).calls
      /\ ~(f \in W /\ walked[f] = disk[f]) => Sites(m, failed)[f] \subseteq Moved(f)
  BY DEF Sites
<1>4. /\ f \notin W \/ walked[f] = disk[f] => Moved(f) = {}
      /\ \A c \in Moved(f) : f \in W /\ c[1] \in Defs(f, walked[f])
  BY DEF Moved
<1>5. QED
  BY <1>1, <1>2, <1>3, <1>4

\* What the ingest has resolved: edges of files walked, borne out by the
\* contents walked if these are still there.
LEMMA EdgesAre ==
    ASSUME TypeOK, WalkInv, Resolve
    PROVE  /\ edges' \subseteq Edge
           /\ \A e \in edges' : /\ FileOf[e.from] \in W
                                /\ walked[FileOf[e.from]] = disk[FileOf[e.from]] => Made(e)
<1>1. PICK m \in SUBSET UNION {Moved(f) : f \in Files},
           more \in SUBSET {c \in Lsp : FileOf[c[1]] \in W /\ FileOf[c[2]] \in W} :
         edges' = Merged(Resolved(walked, Sites(m, unread')),
                         {[from |-> c[1], to |-> c[2], tier |-> "same"] : c \in more})
  BY Zenon DEF Resolve
<1>2. ASSUME NEW e \in Resolved(walked, Sites(m, unread'))
      PROVE  /\ e \in Edge /\ FileOf[e.from] \in W
             /\ walked[FileOf[e.from]] = disk[FileOf[e.from]] => Made(e)
  <2>0. \A f \in Files : \A c \in Sites(m, unread')[f] :
           walked[f] # 0 /\ c[1] \in Symbols /\ FileOf[c[1]] = f
    BY SitesAre
  <2>1. /\ e \in Edge
        /\ \E f \in Files : \E c \in Sites(m, unread')[f] :
              f = FileOf[e.from] /\ e.from = c[1] /\ NameOf[e.to] = c[2]
    BY <2>0, WalkedNow, ResolvedIs
  <2>2. PICK f \in Files : \E c \in Sites(m, unread')[f] :
              f = FileOf[e.from] /\ e.from = c[1] /\ NameOf[e.to] = c[2]
    BY <2>1
  <2>3. PICK c \in Sites(m, unread')[f] : f = FileOf[e.from] /\ e.from = c[1] /\ NameOf[e.to] = c[2]
    BY <2>2
  <2>4. f \in W
    BY <2>0, <2>3 DEF W
  <2>5. ASSUME walked[f] = disk[f] PROVE Made(e)
    <3>1. Sites(m, unread')[f] \subseteq Is(f, disk[f]).calls
      BY <2>4, <2>5 DEF Sites
    <3>2. /\ c \in Is(f, disk[f]).calls
          /\ Is(f, disk[f]).calls \subseteq Symbols \X Names
      BY <2>3, <2>4, <2>5, <3>1, WalkedNow, ContentIs DEF WalkInv
    <3>3. c = <<e.from, NameOf[e.to]>>
      BY <2>3, <3>2
    <3>4. QED
      BY <2>3, <3>2, <3>3 DEF Made
  <2>6. QED
    BY <2>1, <2>3, <2>4, <2>5
<1>3. ASSUME NEW c \in more,
             NEW e, e = [from |-> c[1], to |-> c[2], tier |-> "same"]
      PROVE  e \in Edge /\ FileOf[e.from] \in W /\ Made(e)
  <2>1. c \in Lsp /\ FileOf[c[1]] \in W /\ Lsp \subseteq Symbols \X Symbols
    BY CallGraphAssumption
  <2>2. c = <<c[1], c[2]>> /\ c[1] \in Symbols /\ c[2] \in Symbols
    BY <2>1
  <2>3. e.from = c[1] /\ e.to = c[2]
    BY <1>3
  <2>4. QED
    BY <1>3, <2>1, <2>2, <2>3 DEF Edge, Tiers, Made
<1>4. \A e \in edges' : \/ e \in Resolved(walked, Sites(m, unread'))
                        \/ \E c \in more : e = [from |-> c[1], to |-> c[2], tier |-> "same"]
  BY <1>1 DEF Merged
<1>5. QED
  BY <1>2, <1>3, <1>4

\* DETACH DELETE leaves no call without its ends.
LEMMA DropType ==
    ASSUME TypeOK, NEW S, Drop(S)
    PROVE  /\ nodes' \subseteq Symbols
           /\ calls' \subseteq Edge /\ \A e \in calls' : {e.from, e.to} \subseteq nodes'
           /\ \A d, e \in calls' : d.from = e.from /\ d.to = e.to => d = e
<1>1. nodes' = nodes \ S /\ calls' = {e \in calls : e.from \notin S /\ e.to \notin S}
  BY DEF Drop
<1>2. QED
  BY <1>1 DEF TypeOK

\* The graph is one: its edges are between nodes, one for a pair.
GraphOK ==
    /\ fnodes \subseteq Files /\ nodes \subseteq Symbols
    /\ imports \subseteq fnodes \X fnodes
    /\ calls \subseteq Edge /\ \A e \in calls : {e.from, e.to} \subseteq nodes
    /\ \A d, e \in calls : d.from = e.from /\ d.to = e.to => d = e

\* The rest of the state.
LocalOK ==
    /\ disk \in [Files -> Nat] /\ \A f \in Files : disk[f] \in DOMAIN History[f]
    /\ recorded \in [Files -> Nat] /\ \A f \in Files : recorded[f] <= disk[f]
    /\ pc \in {"idle", "detach", "walk", "files", "prune", "symbols", "unimport",
               "import", "resolve", "uncall", "call"}
    /\ target \subseteq Files
    /\ todo \subseteq Files \X {"symbols", "file"}
    /\ walked \in [Files -> Nat] /\ \A f \in Files : walked[f] <= disk[f]
    /\ unread \subseteq Files /\ edges \subseteq Edge
    /\ {fulls, aborts} \subseteq Nat

\* Every step leaves the graph one.
LEMMA GraphKept ==
    ASSUME TypeOK, WalkInv, NodesInv, [Next]_vars
    PROVE  GraphOK'
<1>0. ASSUME UNCHANGED graph PROVE GraphOK'
  BY <1>0 DEF TypeOK, GraphOK, graph
<1>1. BeginFull \/ BeginDelta \/ Detached \/ Walk \/ Resolve \/ Record \/ Abort
         \/ (\E f \in Files : Change(f)) \/ UNCHANGED vars
      => UNCHANGED graph
  BY DEF BeginFull, BeginDelta, Detached, Walk, Resolve, Record, Abort, Change, vars
<1>2. ASSUME NEW f \in Files, Detach(f) PROVE GraphOK'
  <2>1. CASE /\ UNCHANGED <<fnodes, imports>>
             /\ Drop(IF f \in fnodes THEN {s \in Symbols : FileOf[s] = f} ELSE {})
    BY <2>1, DropType DEF TypeOK, GraphOK
  <2>2. CASE /\ UNCHANGED <<nodes, calls>>
             /\ fnodes' = fnodes \ {f}
             /\ imports' = {i \in imports : f \notin {i[1], i[2]}}
    BY <2>2 DEF TypeOK, GraphOK
  <2>3. QED
    BY <1>2, <2>1, <2>2 DEF Detach
<1>3. ASSUME UpsertFiles PROVE GraphOK'
  <2>1. UNCHANGED <<nodes, imports, calls>> /\ fnodes' = fnodes \cup W
    BY <1>3 DEF UpsertFiles
  <2>2. QED
    BY <2>1 DEF TypeOK, GraphOK, W
<1>4. ASSUME PruneSymbols PROVE GraphOK'
  <2>1. UNCHANGED <<fnodes, imports>>
        /\ Drop({s \in Symbols : FileOf[s] \in W
                   /\ s \notin Defs(FileOf[s], walked[FileOf[s]])})
    BY <1>4 DEF PruneSymbols
  <2>2. QED
    BY <2>1, DropType DEF TypeOK, GraphOK
<1>5. ASSUME UpsertSymbols PROVE GraphOK'
  <2>1. UNCHANGED <<fnodes, imports, calls>>
        /\ nodes' = nodes \cup UNION {Defs(f, walked[f]) : f \in W}
    BY <1>5 DEF UpsertSymbols
  <2>2. \A f \in W : Defs(f, walked[f]) \subseteq Symbols
    BY WalkedNow, ContentIs DEF WalkInv
  <2>3. QED
    BY <2>1, <2>2 DEF TypeOK, GraphOK
<1>6. ASSUME PruneImports PROVE GraphOK'
  BY <1>6 DEF PruneImports, TypeOK, GraphOK
<1>7. ASSUME UpsertImports PROVE GraphOK'
  <2>1. UNCHANGED <<fnodes, nodes, calls>> /\ imports' = imports \cup ImportsOf(walked)
        /\ W \subseteq fnodes
    BY <1>7 DEF UpsertImports, NodesInv, Past
  <2>2. ASSUME NEW f \in W PROVE \A i \in DOMAIN Is(f, walked[f]).imports :
           FirstOf(Is(f, walked[f]).imports[i].far, LAMBDA h : walked[h] # 0) \subseteq W
    <3>1. Is(f, walked[f]).imports \in Seq([near : Seq(Files), far : Seq(Files)])
      BY WalkedNow, ContentIs DEF WalkInv, Content
    <3>2. \A i \in DOMAIN Is(f, walked[f]).imports :
             Is(f, walked[f]).imports[i] \in [near : Seq(Files), far : Seq(Files)]
      BY <3>1, Members, Zenon
    <3>3. QED
      BY <3>2, ImportedIs DEF W
  <2>3. ASSUME NEW p \in ImportsOf(walked) PROVE p \in W \X W
    <3> DEFINE To(f) == UNION {FirstOf(imp.far, LAMBDA h : walked[h] # 0) : imp \in
                {Is(f, walked[f]).imports[i] : i \in DOMAIN Is(f, walked[f]).imports}}
    <3>1. \A f \in W : To(f) \subseteq W
      BY <2>2
    <3>2. ImportsOf(walked) = UNION {{<<f, g>> : g \in To(f)} : f \in W}
      BY DEF ImportsOf, W
    <3> HIDE DEF To
    <3>3. QED
      BY <2>3, <3>1, <3>2
  <2>4. QED
    BY <2>1, <2>3 DEF TypeOK, GraphOK
<1>8. ASSUME PruneCalls PROVE GraphOK'
  BY <1>8 DEF PruneCalls, TypeOK, GraphOK
<1>9. ASSUME UpsertCalls PROVE GraphOK'
  <2> DEFINE e == CHOOSE d \in edges : TRUE
  <2>1. e \in edges /\ UNCHANGED <<fnodes, nodes, imports>>
        /\ calls' = IF {e.from, e.to} \subseteq nodes
                    THEN {d \in calls : d.from # e.from \/ d.to # e.to} \cup {e}
                    ELSE calls
    BY <1>9 DEF UpsertCalls
  <2> HIDE DEF e
  <2>2. QED
    BY <2>1 DEF TypeOK, GraphOK
<1>10. QED
  BY <1>0, <1>1, <1>2, <1>3, <1>4, <1>5, <1>6, <1>7, <1>8, <1>9 DEF Next, Step

\* Every step leaves the rest of the state of its type.
LEMMA LocalKept ==
    ASSUME TypeOK, WalkInv, [Next]_vars
    PROVE  LocalOK'
<1>0. LocalOK
  BY DEF TypeOK, LocalOK
<1>1. ASSUME UNCHANGED <<disk, recorded, local, tally>>,
             pc' \in {"idle", "detach", "walk", "files", "prune", "symbols", "unimport",
                     "import", "resolve", "uncall", "call"}
      PROVE  LocalOK'
  BY <1>0, <1>1 DEF LocalOK, local, tally
<1>2. Detached \/ UpsertFiles \/ PruneSymbols \/ UpsertSymbols \/ PruneImports
         \/ UpsertImports \/ PruneCalls
      => /\ UNCHANGED <<disk, recorded, local, tally>>
         /\ pc' \in {"walk", "prune", "symbols", "unimport", "import", "resolve", "call"}
  BY DEF Detached, UpsertFiles, PruneSymbols, UpsertSymbols, PruneImports, UpsertImports,
         PruneCalls, Goto
<1>3. ASSUME BeginFull PROVE LocalOK'
  BY <1>0, <1>3 DEF LocalOK, BeginFull, Goto, tally
<1>4. ASSUME BeginDelta PROVE LocalOK'
  BY <1>0, <1>4 DEF LocalOK, BeginDelta, Goto, There, tally
<1>5. ASSUME NEW f \in Files, Detach(f) PROVE LocalOK'
  BY <1>0, <1>5 DEF LocalOK, Detach, tally
<1>6. ASSUME Walk PROVE LocalOK'
  <2>1. \A f \in Files : disk[f] \in Nat
    BY WalkedNow
  <2>2. QED
    BY <1>0, <1>6, <2>1 DEF LocalOK, Walk, Goto, tally
<1>7. ASSUME Resolve PROVE LocalOK'
  <2>1. edges' \subseteq Edge
    BY <1>7, EdgesAre
  <2>2. /\ UNCHANGED <<disk, recorded, target, todo, walked, fulls, aborts>>
        /\ pc' = "uncall" /\ unread' \subseteq Files
    BY <1>7 DEF Resolve, Goto, tally, W
  <2>3. QED
    BY <1>0, <2>1, <2>2 DEF LocalOK
<1>8. ASSUME UpsertCalls PROVE LocalOK'
  <2>1. /\ UNCHANGED <<disk, recorded, pc, target, todo, walked, unread, fulls, aborts>>
        /\ edges' \subseteq edges
    BY <1>8 DEF UpsertCalls, tally
  <2>2. edges' \subseteq Edge
    BY <1>0, <2>1 DEF LocalOK
  <2>3. QED
    BY <1>0, <2>1, <2>2 DEF LocalOK
<1>9. ASSUME Record PROVE LocalOK'
  <2>1. /\ UNCHANGED <<disk, fulls, aborts>> /\ pc' = "idle"
        /\ target' = {} /\ todo' = {} /\ unread' = {} /\ edges' = {}
        /\ walked' = [f \in Files |-> 0]
        /\ recorded' = [f \in Files |-> IF f \in W THEN walked[f] ELSE recorded[f]]
    BY <1>9 DEF Record, Ends, Goto, tally
  <2>2. \A f \in Files : disk[f] \in Nat
    BY WalkedNow
  <2>3. recorded' \in [Files -> Nat] /\ \A f \in Files : recorded'[f] <= disk[f]
    BY <1>0, <2>1 DEF LocalOK
  <2>4. walked' \in [Files -> Nat] /\ \A f \in Files : walked'[f] <= disk[f]
    BY <2>1, <2>2
  <2>5. QED
    BY <1>0, <2>1, <2>3, <2>4 DEF LocalOK
<1>10. ASSUME Abort PROVE LocalOK'
  <2>1. /\ UNCHANGED <<disk, recorded, fulls>> /\ aborts' = aborts + 1 /\ pc' = "idle"
        /\ target' = {} /\ todo' = {} /\ unread' = {} /\ edges' = {}
        /\ walked' = [f \in Files |-> 0]
    BY <1>10 DEF Abort, Ends, Goto
  <2>2. \A f \in Files : disk[f] \in Nat
    BY WalkedNow
  <2>3. walked' \in [Files -> Nat] /\ \A f \in Files : walked'[f] <= disk[f]
    BY <2>1, <2>2
  <2>4. QED
    BY <1>0, <2>1, <2>3 DEF LocalOK
<1>11. ASSUME NEW f \in Files, Change(f) PROVE LocalOK'
  <2>1. disk' = [disk EXCEPT ![f] = disk[f] + 1] /\ disk[f] < Len(History[f])
    BY <1>11 DEF Change
  <2>2. /\ disk' \in [Files -> Nat]
        /\ \A h \in Files : /\ disk'[h] \in DOMAIN History[h] /\ disk[h] <= disk'[h]
                            /\ disk'[h] \in Nat /\ disk[h] \in Nat
    BY <1>0, <2>1, WalkedNow DEF LocalOK
  <2>3. UNCHANGED <<recorded, pc, target, todo, walked, unread, edges, fulls, aborts>>
    BY <1>11 DEF Change, local, tally
  <2>4. QED
    BY <1>0, <2>2, <2>3 DEF LocalOK
<1>12. CASE UNCHANGED vars
  BY <1>0, <1>12 DEF LocalOK, vars, local, tally
<1>13. QED
  BY <1>1, <1>2, <1>3, <1>4, <1>5, <1>6, <1>7, <1>8, <1>9, <1>10, <1>11, <1>12
  DEF Next, Step

-----------------------------------------------------------------------------
(* The invariants.                                                         *)

\* The strengthening: what an ingest has walked, what it has made of the nodes
\* of those files, and of their imports and calls.
GraphInv == TypeOK /\ WalkInv /\ NodesInv /\ EdgesInv /\ ReplaceInv /\ CallsAreMade

\* A file never goes back: what is known and walked was walked as it is now.
LEMMA KnownWalked ==
    ASSUME GraphInv, NEW f \in Known
    PROVE  /\ f \in Files /\ recorded[f] = disk[f] /\ disk[f] # 0
           /\ f \in W => walked[f] = disk[f]
           /\ \A t \in todo : t[1] # f
<1>1. f \in Files /\ recorded[f] = disk[f]
  BY DEF Known, There
<1>0. TypeOK /\ WalkInv
  BY DEF GraphInv
<1>2. disk[f] \in Nat /\ disk[f] # 0 /\ walked[f] \in Nat /\ walked[f] <= disk[f]
  <2>1. disk \in [Files -> Nat] /\ walked \in [Files -> Nat] /\ walked[f] <= disk[f]
    BY <1>0, <1>1 DEF TypeOK
  <2>2. disk[f] \in DOMAIN History[f] /\ DOMAIN History[f] = 1..Len(History[f])
    BY <1>0, <1>1, WalkedNow
  <2>3. QED
    BY <1>1, <2>1, <2>2
<1>3. f \in W => recorded[f] <= walked[f]
  BY DEF GraphInv, WalkInv
<1>4. \A t \in todo : recorded[t[1]] < disk[t[1]]
  BY DEF GraphInv, WalkInv
<1>5. QED
  BY <1>1, <1>2, <1>3, <1>4

\* A step that changes no file, no record and no walk leaves what was walked.
LEMMA WalkKept ==
    ASSUME TypeOK, WalkInv, [Next]_vars
    PROVE  WalkInv'
<1>1. ASSUME UNCHANGED <<disk, recorded, walked>>, todo' \subseteq todo,
             pc' \in {"idle", "detach", "walk"} => pc \in {"idle", "detach", "walk"}
      PROVE  WalkInv'
  BY <1>1 DEF WalkInv, W, Is
<1>2. ASSUME UNCHANGED <<disk, recorded>>, walked' = [f \in Files |-> 0], todo' = {}
      PROVE  WalkInv'
  BY <1>2 DEF WalkInv, W, Is
<1>3. \/ UpsertFiles \/ PruneSymbols \/ UpsertSymbols \/ PruneImports \/ UpsertImports
      \/ PruneCalls \/ UpsertCalls \/ Detached \/ Resolve
      \/ BeginFull \/ (\E f \in Files : Detach(f)) \/ UNCHANGED vars
      => /\ UNCHANGED <<disk, recorded, walked>> /\ todo' \subseteq todo
         /\ pc' \in {"idle", "detach", "walk"} => pc \in {"idle", "detach", "walk"}
  BY Zenon DEF UpsertFiles, PruneSymbols, UpsertSymbols, PruneImports, UpsertImports,
         PruneCalls, UpsertCalls, Detached, Resolve, BeginFull, Detach, Goto, local, vars
<1>4. ASSUME BeginDelta PROVE WalkInv'
  <2>1. /\ UNCHANGED <<disk, recorded, walked>> /\ pc = "idle"
        /\ todo' = {f \in Files \ There : recorded[f] # 0} \X {"symbols", "file"}
    BY <1>4 DEF BeginDelta
  <2>2. ASSUME NEW f \in Files \ There, recorded[f] # 0 PROVE recorded[f] < disk[f]
    <3>1. recorded[f] # disk[f]
      BY <2>2 DEF WalkInv, There
    <3>2. recorded[f] \in Nat /\ disk[f] \in Nat /\ recorded[f] <= disk[f]
      BY WalkedNow DEF TypeOK
    <3>3. QED
      BY <3>1, <3>2
  <2>3. \A t \in todo' : recorded[t[1]] < disk[t[1]]
    BY <2>1, <2>2
  <2>4. QED
    BY <2>1, <2>3 DEF WalkInv, W, Is
<1>5. ASSUME Walk PROVE WalkInv'
  <2>1. /\ UNCHANGED <<disk, recorded, todo>> /\ pc' = "files"
        /\ walked' = [f \in Files |-> IF f \in target \cap There THEN disk[f] ELSE 0]
    BY <1>5 DEF Walk, Goto
  <2>2. \A f \in W' : /\ f \in Files /\ f \in There /\ walked'[f] = disk[f]
    BY <2>1 DEF W
  <2>3. \A f \in Files : recorded[f] <= disk[f]
    BY DEF TypeOK
  <2>4. QED
    BY <2>1, <2>2, <2>3 DEF WalkInv, Is, There
<1>6. ASSUME Record PROVE WalkInv'
  <2>1. /\ UNCHANGED disk /\ todo' = {} /\ walked' = [f \in Files |-> 0]
        /\ recorded' = [f \in Files |-> IF f \in W THEN walked[f] ELSE recorded[f]]
    BY <1>6 DEF Record, Ends
  <2>2. W' = {}
    BY <2>1 DEF W
  <2>3. \A f \in Files : recorded'[f] # 0 => Is(f, recorded'[f]) # Absent
    BY <2>1 DEF WalkInv
  <2>4. QED
    BY <2>1, <2>2, <2>3 DEF WalkInv, Is
<1>7. ASSUME Abort PROVE WalkInv'
  BY <1>2, <1>7 DEF Abort, Ends
<1>8. ASSUME NEW g \in Files, Change(g) PROVE WalkInv'
  <2>1. /\ UNCHANGED <<recorded, walked, todo, pc>>
        /\ disk' = [disk EXCEPT ![g] = disk[g] + 1]
    BY <1>8 DEF Change, local
  <2>2. disk \in [Files -> Nat] /\ recorded \in [Files -> Nat]
    BY DEF TypeOK
  <2>5. \A f \in Files : /\ disk[f] \in Nat /\ recorded[f] \in Nat /\ disk'[f] \in Nat
                         /\ disk[f] <= disk'[f]
    BY <2>1, <2>2
  <2>3. \A t \in todo : t[1] \in Files /\ recorded[t[1]] < disk[t[1]]
    BY DEF TypeOK, WalkInv
  <2>4. \A t \in todo' : recorded'[t[1]] < disk'[t[1]]
    BY <2>1, <2>3, <2>5
  <2>6. QED
    BY <2>1, <2>4 DEF WalkInv, W, Is
<1>9. QED
  BY <1>1, <1>3, <1>4, <1>5, <1>6, <1>7, <1>8 DEF Next, Step

\* The nodes of the files walked.
LEMMA NodesKept ==
    ASSUME TypeOK, WalkInv, NodesInv, [Next]_vars
    PROVE  NodesInv'
<1>1. ASSUME UNCHANGED <<walked, nodes, fnodes>>,
             \A p \in {"files", "prune", "symbols"} : pc' \in Past(p) => pc \in Past(p)
      PROVE  NodesInv'
  BY <1>1 DEF NodesInv, W, NodesOf, Defs, Is
<1>2. ASSUME pc' \notin Past("files") PROVE NodesInv'
  BY <1>2 DEF NodesInv, Past
<1>3. \/ BeginFull \/ BeginDelta \/ Detached \/ Walk \/ Record \/ Abort
      \/ (\E f \in Files : Detach(f))
      => pc' \notin Past("files")
  BY DEF BeginFull, BeginDelta, Detached, Walk, Record, Abort, Detach, Ends, Goto, Past
<1>4. \/ PruneImports \/ UpsertImports \/ Resolve \/ PruneCalls \/ UpsertCalls
      \/ (\E f \in Files : Change(f)) \/ UNCHANGED vars
      => /\ UNCHANGED <<walked, nodes, fnodes>>
         /\ \A p \in {"files", "prune", "symbols"} : pc' \in Past(p) => pc \in Past(p)
  BY DEF PruneImports, UpsertImports, Resolve, PruneCalls, UpsertCalls, Change, Goto, Past,
         vars, graph, local
<1>5. ASSUME UpsertFiles PROVE NodesInv'
  <2>1. UNCHANGED walked /\ fnodes' = fnodes \cup W /\ pc' = "prune"
    BY <1>5 DEF UpsertFiles, Goto, local
  <2>2. QED
    BY <2>1 DEF NodesInv, Past, W
<1>6. ASSUME PruneSymbols PROVE NodesInv'
  <2>1. /\ UNCHANGED <<walked, fnodes>> /\ pc' = "symbols" /\ pc = "prune"
        /\ nodes' = nodes \ {s \in Symbols : FileOf[s] \in W
                                /\ s \notin Defs(FileOf[s], walked[FileOf[s]])}
    BY <1>6 DEF PruneSymbols, Drop, Goto, local
  <2>2. \A f \in W : NodesOf(f)' \subseteq Defs(f, walked[f])
    BY <2>1 DEF NodesOf, TypeOK
  <2>3. W' = W /\ W \subseteq fnodes
    BY <2>1 DEF W, NodesInv, Past
  <2>4. QED
    BY <2>1, <2>2, <2>3 DEF NodesInv, Past, NodesOf, Defs, Is
<1>7. ASSUME UpsertSymbols PROVE NodesInv'
  <2>1. /\ UNCHANGED <<walked, fnodes>> /\ pc' = "unimport" /\ pc = "symbols"
        /\ nodes' = nodes \cup UNION {Defs(f, walked[f]) : f \in W}
    BY <1>7 DEF UpsertSymbols, Goto, local
  <2>2. W' = W /\ W \subseteq fnodes /\ \A f \in W : NodesOf(f) \subseteq Defs(f, walked[f])
    BY <2>1 DEF W, NodesInv, Past
  <2>3. \A f \in W : \A s \in Defs(f, walked[f]) : FileOf[s] = f
    BY WalkedNow, ContentIs DEF WalkInv
  <2>4. \A f \in W : NodesOf(f)' = Defs(f, walked[f])
    BY <2>1, <2>2, <2>3 DEF NodesOf
  <2>5. QED
    BY <2>1, <2>2, <2>4 DEF NodesInv, Past, NodesOf, Defs, Is
<1>8. QED
  BY <1>1, <1>2, <1>3, <1>4, <1>5, <1>6, <1>7 DEF Next, Step

\* The calls of the files walked.
LEMMA EdgesKept ==
    ASSUME TypeOK, WalkInv, EdgesInv, [Next]_vars
    PROVE  EdgesInv'
<1> DEFINE Said(e) == walked[FileOf[e.from]] = disk[FileOf[e.from]] => Made(e)
<1>0. /\ \A e \in edges : FileOf[e.from] \in W /\ Said(e)
      /\ pc = "call" => \A e \in calls : FileOf[e.from] \in W => Said(e)
  BY DEF EdgesInv
<1>1. ASSUME UNCHANGED <<disk, walked>>,
             \A e \in edges' : FileOf[e.from] \in W /\ Said(e),
             pc' = "call" => \A e \in calls' : FileOf[e.from] \in W => Said(e)
      PROVE  EdgesInv'
  BY <1>1 DEF EdgesInv, W, Made, Is
<1>2. \/ BeginFull \/ BeginDelta \/ Detached \/ (\E f \in Files : Detach(f))
      \/ UpsertFiles \/ PruneSymbols \/ UpsertSymbols \/ PruneImports \/ UpsertImports
      => UNCHANGED <<disk, walked, edges>> /\ pc' # "call"
  BY DEF BeginFull, BeginDelta, Detached, Detach, UpsertFiles, PruneSymbols, UpsertSymbols,
         PruneImports, UpsertImports, Goto, local
<1>3. ASSUME UNCHANGED <<disk, walked, edges>>, pc' # "call" PROVE EdgesInv'
  BY <1>0, <1>1, <1>3
<1>4. ASSUME Walk PROVE EdgesInv'
  <2>1. pc = "walk" /\ edges' = edges /\ pc' = "files"
    BY <1>4 DEF Walk, Goto
  <2>2. edges = {}
    BY <1>0, <2>1 DEF WalkInv
  <2>3. QED
    BY <2>1, <2>2 DEF EdgesInv
<1>5. ASSUME Resolve PROVE EdgesInv'
  <2>1. UNCHANGED <<disk, walked>> /\ pc' = "uncall"
    BY <1>5 DEF Resolve, Goto
  <2>2. \A e \in edges' : /\ FileOf[e.from] \in W
                          /\ walked[FileOf[e.from]] = disk[FileOf[e.from]] => Made(e)
    BY <1>5, EdgesAre
  <2>3. QED
    BY <1>1, <2>1, <2>2
<1>6. ASSUME PruneCalls PROVE EdgesInv'
  <2>1. UNCHANGED <<disk, walked, edges>> /\ calls' = {e \in calls : FileOf[e.from] \notin W}
    BY <1>6 DEF PruneCalls, local
  <2>2. QED
    BY <1>0, <1>1, <2>1
<1>7. ASSUME UpsertCalls PROVE EdgesInv'
  <2> DEFINE d == CHOOSE e \in edges : TRUE
  <2>1. /\ UNCHANGED <<disk, walked>> /\ pc = "call" /\ d \in edges
        /\ edges' \subseteq edges /\ calls' \subseteq calls \cup {d}
    BY <1>7 DEF UpsertCalls
  <2> HIDE DEF d
  <2>2. QED
    BY <1>0, <1>1, <2>1
<1>8. ASSUME Record \/ Abort PROVE EdgesInv'
  BY <1>8 DEF Record, Abort, Ends, Goto, EdgesInv
<1>9. ASSUME NEW g \in Files, Change(g) PROVE EdgesInv'
  <2>1. UNCHANGED <<walked, edges, calls, pc>> /\ disk' = [disk EXCEPT ![g] = disk[g] + 1]
    BY <1>9 DEF Change, graph, local
  <2>2. W' = W
    BY <2>1 DEF W
  <2>3. ASSUME NEW e, FileOf[e.from] \in W, Said(e),
               walked[FileOf[e.from]] = disk'[FileOf[e.from]]
        PROVE  Made(e)'
    <3>1. FileOf[e.from] \in Files
      BY <2>3 DEF W
    <3>2. disk[FileOf[e.from]] \in Nat /\ walked[FileOf[e.from]] <= disk[FileOf[e.from]]
      BY <3>1, WalkedNow DEF TypeOK
    <3>3. FileOf[e.from] # g
      BY <2>1, <2>3, <3>1, <3>2, WalkedNow DEF TypeOK
    <3>4. disk'[FileOf[e.from]] = disk[FileOf[e.from]]
      BY <2>1, <3>3
    <3>5. Made(e)
      BY <2>3, <3>4
    <3>6. QED
      BY <3>4, <3>5, Zenon DEF Made, Is
  <2>4. QED
    BY <1>0, <2>1, <2>2, <2>3 DEF EdgesInv
<1>10. CASE UNCHANGED vars
  BY <1>0, <1>1, <1>10 DEF vars, graph, local
<1>11. QED
  BY <1>2, <1>3, <1>4, <1>5, <1>6, <1>7, <1>8, <1>9, <1>10 DEF Next, Step

\* While no file walked has changed no call is misread.
LEMMA NoneMoved ==
    ASSUME TypeOK, AsWalked
    PROVE  \A f \in Files : Moved(f) = {}
<1>1. ASSUME NEW f \in Files, f \in W PROVE walked[f] = disk[f]
  BY <1>1 DEF AsWalked
<1>2. QED
  BY <1>1 DEF Moved

\* The calls the contents walked determine join symbols these define.
LEMMA FoundEnds ==
    ASSUME TypeOK, WalkInv, NodesInv, pc \in Past("symbols"),
           NEW e \in Found
    PROVE  {e.from, e.to} \subseteq nodes /\ FileOf[e.from] \in W
<1>1. \A f \in Files : \A c \in Sites({}, unread)[f] :
         walked[f] # 0 /\ c[1] \in Symbols /\ FileOf[c[1]] = f
  BY SitesAre
<1>2. /\ e \in Edge /\ Has(walked, e.to)
      /\ \E f \in Files : \E c \in Sites({}, unread)[f] :
            f = FileOf[e.from] /\ e.from = c[1] /\ NameOf[e.to] = c[2]
  BY <1>1, WalkedNow, ResolvedIs DEF Found
<1>0. PICK f \in Files : \E c \in Sites({}, unread)[f] : f = FileOf[e.from] /\ e.from = c[1]
  BY <1>2
<1>3. PICK c \in Sites({}, unread)[f] : f = FileOf[e.from] /\ e.from = c[1]
  BY <1>0
<1>4. f \in W
  BY <1>1, <1>3 DEF W
<1>5. \A g \in W : Defs(g, walked[g]) \subseteq nodes
  BY DEF NodesInv, NodesOf
<1>6. e.from \in Defs(f, walked[f])
  <2>1. /\ walked[f] \in DOMAIN History[f] /\ Is(f, walked[f]) # Absent
    BY <1>4, WalkedNow DEF WalkInv
  <2>2. CASE walked[f] = disk[f]
    <3>1. c \in Is(f, walked[f]).calls
      BY <1>3, <1>4, <2>2 DEF Sites
    <3>2. QED
      BY <1>3, <2>1, <3>1, ContentIs
  <2>3. CASE walked[f] # disk[f]
    BY <1>3, <2>3 DEF Sites
  <2>4. QED
    BY <2>2, <2>3
<1>7. e.to \in nodes
  BY <1>2, <1>5 DEF Has, W
<1>8. QED
  BY <1>3, <1>4, <1>5, <1>6, <1>7

\* An edge of the index for each call found, whichever is written next.
LEMMA WrittenStays ==
    ASSUME TypeOK, WalkInv, NodesInv, EdgesInv, AsWalked, pc = "call", UpsertCalls,
           Just(Found, edges \cup {e \in calls : FileOf[e.from] \in W})
    PROVE  Just(Found, edges' \cup {e \in calls' : FileOf[e.from] \in W})
<1> DEFINE x == CHOOSE d \in edges : TRUE
           mine == edges \cup {e \in calls : FileOf[e.from] \in W}
           next == edges' \cup {e \in calls' : FileOf[e.from] \in W}
<1>1. /\ x \in edges /\ edges' = edges \ {x}
      /\ calls' = IF {x.from, x.to} \subseteq nodes
                  THEN {d \in calls : d.from # x.from \/ d.to # x.to} \cup {x}
                  ELSE calls
  BY DEF UpsertCalls
<1>2. FileOf[x.from] \in W
  BY <1>1 DEF EdgesInv
<1>3. \A e \in Found : {e.from, e.to} \subseteq nodes
  BY FoundEnds DEF Past
<1>4. /\ \A e \in Found : \E d \in mine : d.from = e.from /\ d.to = e.to
      /\ \A e \in mine : e \in Found \/ (<<e.from, e.to>> \in Lsp /\ e.tier = "same")
  BY Zenon DEF Just
<1> HIDE DEF x
<1>5. ASSUME NEW e \in Found PROVE \E d \in next : d.from = e.from /\ d.to = e.to
  <2>1. PICK d \in mine : d.from = e.from /\ d.to = e.to
    BY <1>4
  <2>2. CASE d.from = x.from /\ d.to = x.to
    <3>1. x \in calls'
      BY <1>1, <1>3, <2>1, <2>2
    <3>2. QED
      BY <1>2, <2>1, <2>2, <3>1
  <2>3. CASE ~(d.from = x.from /\ d.to = x.to)
    BY <1>1, <2>1, <2>3
  <2>4. QED
    BY <2>2, <2>3
<1>6. next \subseteq mine
  BY <1>1, <1>2
<1>7. \A e \in next : e \in Found \/ (<<e.from, e.to>> \in Lsp /\ e.tier = "same")
  BY <1>4, <1>6
<1>8. QED
  BY <1>5, <1>7, Zenon DEF Just

\* The imports and the calls of the files walked are replaced.
LEMMA ReplaceKept ==
    ASSUME TypeOK, WalkInv, NodesInv, EdgesInv, ReplaceInv, [Next]_vars
    PROVE  ReplaceInv'
<1>1. ASSUME pc' \notin {"import", "resolve", "uncall", "call"} PROVE ReplaceInv'
  BY <1>1 DEF ReplaceInv
<1>2. \/ BeginFull \/ BeginDelta \/ (\E f \in Files : Detach(f)) \/ Detached \/ Walk
      \/ UpsertFiles \/ PruneSymbols \/ UpsertSymbols \/ Record \/ Abort
      => pc' \notin {"import", "resolve", "uncall", "call"}
  BY DEF BeginFull, BeginDelta, Detach, Detached, Walk, UpsertFiles, PruneSymbols,
         UpsertSymbols, Record, Abort, Ends, Goto
<1>3. ASSUME PruneImports PROVE ReplaceInv'
  <2>1. /\ pc' = "import" /\ imports' = {i \in imports : i[1] \notin W} /\ UNCHANGED walked
    BY <1>3 DEF PruneImports, Goto, local
  <2>2. W' = W
    BY <2>1 DEF W
  <2>3. QED
    BY <2>1, <2>2 DEF ReplaceInv
<1>4. ASSUME UpsertImports PROVE ReplaceInv'
  <2>1. /\ pc = "import" /\ pc' = "resolve" /\ imports' = imports \cup ImportsOf(walked)
        /\ UNCHANGED walked
    BY <1>4 DEF UpsertImports, Goto, local
  <2>2. \A i \in imports : i[1] \notin W
    BY <2>1 DEF ReplaceInv
  <2>3. \A i \in ImportsOf(walked) : i[1] \in W
    <3> DEFINE To(f) == UNION {FirstOf(imp.far, LAMBDA h : walked[h] # 0) : imp \in
                {Is(f, walked[f]).imports[i] : i \in DOMAIN Is(f, walked[f]).imports}}
    <3>1. ImportsOf(walked) = UNION {{<<f, g>> : g \in To(f)} : f \in W}
      BY DEF ImportsOf, W
    <3> HIDE DEF To
    <3>2. QED
      BY <3>1
  <2>4. W' = W
    BY <2>1 DEF W
  <2>5. {i \in imports' : i[1] \in W'} = ImportsOf(walked)
    BY <2>1, <2>2, <2>3, <2>4
  <2>6. ImportsOf(walked)' = ImportsOf(walked)
    BY <2>1
  <2>7. QED
    BY <2>1, <2>5, <2>6 DEF ReplaceInv
<1>5. ASSUME UNCHANGED <<walked, imports>>, pc \in {"resolve", "uncall", "call"},
             pc' \in {"resolve", "uncall", "call"}
      PROVE  /\ W' = W
             /\ ({i \in imports : i[1] \in W} = ImportsOf(walked))'
  <2>1. W' = W
    BY <1>5 DEF W
  <2>2. {i \in imports : i[1] \in W} = ImportsOf(walked)
    BY <1>5 DEF ReplaceInv
  <2>3. ImportsOf(walked)' = ImportsOf(walked)
    BY <1>5
  <2>4. QED
    BY <1>5, <2>1, <2>2, <2>3
<1>6. ASSUME UNCHANGED <<walked, unread>>, W' = W, \A f \in W : disk'[f] = disk[f]
      PROVE  Found' = Found
  <2>1. Sites({}, unread)' = Sites({}, unread)
    BY <1>6 DEF Sites, Is
  <2>2. QED
    BY <1>6, <2>1 DEF Found
<1>7. ASSUME UNCHANGED <<disk, walked, unread>>
      PROVE  W' = W /\ Found' = Found /\ AsWalked' = AsWalked
  <2>1. W' = W
    BY <1>7 DEF W
  <2>2. QED
    BY <1>6, <1>7, <2>1 DEF AsWalked
<1>8. ASSUME Resolve PROVE ReplaceInv'
  <2>1. /\ pc = "resolve" /\ pc' = "uncall" /\ UNCHANGED <<disk, walked, imports>>
    BY <1>8 DEF Resolve, Goto, graph
  <2> DEFINE found == Resolved(walked, Sites({}, unread'))
  <2>2. ASSUME AsWalked PROVE Just(found, edges')
    <3>1. PICK m \in SUBSET UNION {Moved(f) : f \in Files},
               more \in SUBSET {c \in Lsp : FileOf[c[1]] \in W /\ FileOf[c[2]] \in W} :
             edges' = Merged(Resolved(walked, Sites(m, unread')),
                             {[from |-> c[1], to |-> c[2], tier |-> "same"] : c \in more})
      BY <1>8, Zenon DEF Resolve
    <3>2. m = {}
      BY <2>2, NoneMoved
    <3>3. \A c \in more : c \in Lsp /\ c = <<c[1], c[2]>>
      BY CallGraphAssumption
    <3> DEFINE lsp == {[from |-> c[1], to |-> c[2], tier |-> "same"] : c \in more}
    <3>4. \A e \in lsp : <<e.from, e.to>> \in Lsp /\ e.tier = "same"
      BY <3>3
    <3>5. edges' = {e \in found : \A d \in lsp : d.from # e.from \/ d.to # e.to} \cup lsp
      BY <3>1, <3>2, Zenon DEF Merged
    <3> HIDE DEF lsp, found
    <3>6. QED
      BY <3>4, <3>5 DEF Just
  <2>3. W' = W
    BY <2>1 DEF W
  <2>4. AsWalked' = AsWalked
    BY <2>1, <2>3 DEF AsWalked
  <2>5. Sites({}, unread)' = Sites({}, unread')
    BY <2>1, <2>3 DEF Sites, Is
  <2>6. Found' = found
    BY <2>1, <2>5 DEF Found
  <2> HIDE DEF found
  <2>7. QED
    BY <1>5, <2>1, <2>2, <2>4, <2>6 DEF ReplaceInv
<1>9. ASSUME PruneCalls PROVE ReplaceInv'
  <2>1. /\ pc = "uncall" /\ pc' = "call" /\ UNCHANGED <<disk, walked, unread, imports, edges>>
        /\ calls' = {e \in calls : FileOf[e.from] \notin W}
    BY <1>9 DEF PruneCalls, Goto, local
  <2>2. edges' \cup {e \in calls' : FileOf[e.from] \in W} = edges
    BY <2>1
  <2>3. AsWalked => Just(Found, edges)
    BY <2>1 DEF ReplaceInv
  <2>4. W' = W /\ Found' = Found /\ AsWalked' = AsWalked
    BY <1>7, <2>1
  <2>5. (AsWalked => Just(Found, edges \cup {e \in calls : FileOf[e.from] \in W}))'
    BY <2>2, <2>3, <2>4
  <2>6. QED
    BY <1>5, <2>1, <2>5 DEF ReplaceInv
<1>10. ASSUME UpsertCalls PROVE ReplaceInv'
  <2>1. pc = "call" /\ pc' = "call" /\ UNCHANGED <<disk, walked, unread, imports>>
    BY <1>10 DEF UpsertCalls
  <2>2. AsWalked => Just(Found, edges' \cup {e \in calls' : FileOf[e.from] \in W})
    BY <1>10, <2>1, WrittenStays DEF ReplaceInv
  <2>3. QED
    BY <1>5, <1>7, <2>1, <2>2 DEF ReplaceInv
<1>11. ASSUME UNCHANGED <<pc, walked, unread, edges, calls, imports>>,
              AsWalked' => AsWalked /\ \A f \in W : disk'[f] = disk[f]
       PROVE  ReplaceInv'
  <2>1. W' = W
    BY <1>11 DEF W
  <2>2. AsWalked' => AsWalked /\ Found' = Found
    BY <1>6, <1>11, <2>1
  <2>3. ImportsOf(walked)' = ImportsOf(walked)
    BY <1>11
  <2>4. QED
    BY <1>11, <2>1, <2>2, <2>3 DEF ReplaceInv
<1>12. ASSUME NEW g \in Files, Change(g) PROVE ReplaceInv'
  <2>1. /\ UNCHANGED <<pc, walked, unread, edges, calls, imports>>
        /\ disk' = [disk EXCEPT ![g] = disk[g] + 1]
    BY <1>12 DEF Change, graph, local
  <2>2. W' = W
    BY <2>1 DEF W
  <2>3. \A f \in W : f \in Files /\ disk[f] \in Nat /\ walked[f] \in Nat /\ walked[f] <= disk[f]
    BY WalkedNow DEF TypeOK, W
  <2>4. AsWalked' => AsWalked /\ \A f \in W : disk'[f] = disk[f]
    BY <2>1, <2>2, <2>3, WalkedNow DEF AsWalked, TypeOK
  <2>5. QED
    BY <1>11, <2>1, <2>4
<1>13. CASE UNCHANGED vars
  <2>1. UNCHANGED <<disk, pc, walked, unread, edges, calls, imports>>
    BY <1>13 DEF vars, graph, local
  <2>2. AsWalked' => AsWalked
    BY <1>7, <2>1
  <2>3. QED
    BY <1>11, <2>1, <2>2
<1>14. QED
  BY <1>1, <1>2, <1>3, <1>4, <1>8, <1>9, <1>10, <1>12, <1>13 DEF Next, Step

\* What is known stays as the content says: an ingest touches the symbols and
\* the calls of a known file only to write them again.
LEMMA MadeKept ==
    ASSUME GraphInv, [Next]_vars
    PROVE  CallsAreMade'
<1>0. /\ \A f \in Known : /\ NodesOf(f) = Defs(f, disk[f])
                          /\ \A e \in calls : FileOf[e.from] = f => Made(e)
      /\ TypeOK /\ WalkInv
  BY DEF GraphInv, CallsAreMade
<1>1. ASSUME UNCHANGED <<disk, recorded>>,
             \A f \in Known : NodesOf(f)' = NodesOf(f),
             \A e \in calls' : FileOf[e.from] \in Known => e \in calls \/ Made(e)
      PROVE  CallsAreMade'
  <2>1. /\ Known' = Known /\ \A e : Made(e)' <=> Made(e)
        /\ \A f : Defs(f, disk[f])' = Defs(f, disk[f])
    BY <1>1, Zenon DEF Known, There, Made, Defs, Is
  <2>2. \A f \in Known : NodesOf(f)' = Defs(f, disk[f])'
    BY <1>0, <1>1, <2>1
  <2>3. \A f \in Known : \A e \in calls' : FileOf[e.from] = f => Made(e)'
    BY <1>0, <1>1, <2>1
  <2>4. QED
    BY <2>1, <2>2, <2>3 DEF CallsAreMade
<1>2. ASSUME UNCHANGED <<disk, recorded, nodes, calls>> PROVE CallsAreMade'
  BY <1>1, <1>2 DEF NodesOf
<1>3. \/ BeginFull \/ BeginDelta \/ Detached \/ Walk \/ UpsertFiles \/ PruneImports
      \/ UpsertImports \/ Resolve \/ Abort \/ UNCHANGED vars
      => UNCHANGED <<disk, recorded, nodes, calls>>
  BY DEF BeginFull, BeginDelta, Detached, Walk, UpsertFiles, PruneImports, UpsertImports,
         Resolve, Abort, vars, graph
<1>4. ASSUME NEW g \in Files, Detach(g) PROVE CallsAreMade'
  <2>1. CASE UNCHANGED <<nodes, calls>>
    BY <1>2, <1>4, <2>1 DEF Detach
  <2>2. CASE /\ <<g, "symbols">> \in todo
             /\ Drop(IF g \in fnodes THEN {s \in Symbols : FileOf[s] = g} ELSE {})
    <3>1. g \notin Known
      BY <2>2, KnownWalked
    <3>2. /\ nodes' \subseteq nodes /\ calls' \subseteq calls
          /\ \A s \in nodes \ nodes' : FileOf[s] = g
      BY <2>2 DEF Drop
    <3>3. \A f \in Known : NodesOf(f)' = NodesOf(f)
      BY <3>1, <3>2 DEF NodesOf
    <3>4. UNCHANGED <<disk, recorded>>
      BY <1>4 DEF Detach
    <3>5. QED
      BY <1>1, <3>2, <3>3, <3>4
  <2>3. QED
    BY <1>4, <2>1, <2>2 DEF Detach
<1>5. ASSUME PruneSymbols PROVE CallsAreMade'
  <2>1. /\ UNCHANGED <<disk, recorded>> /\ calls' \subseteq calls
        /\ nodes' = nodes \ {s \in Symbols : FileOf[s] \in W
                                /\ s \notin Defs(FileOf[s], walked[FileOf[s]])}
    BY <1>5 DEF PruneSymbols, Drop
  <2>2. ASSUME NEW f \in Known PROVE NodesOf(f)' = NodesOf(f)
    <3>1. f \in W => NodesOf(f) = Defs(f, walked[f])
      BY <1>0, KnownWalked
    <3>2. QED
      BY <2>1, <3>1 DEF NodesOf
  <2>3. QED
    BY <1>1, <2>1, <2>2
<1>6. ASSUME UpsertSymbols PROVE CallsAreMade'
  <2>1. /\ UNCHANGED <<disk, recorded, calls>>
        /\ nodes' = nodes \cup UNION {Defs(g, walked[g]) : g \in W}
    BY <1>6 DEF UpsertSymbols
  <2>2. \A g \in W : \A s \in Defs(g, walked[g]) : FileOf[s] = g
    BY <1>0, WalkedNow, ContentIs DEF WalkInv
  <2>3. ASSUME NEW f \in Known PROVE NodesOf(f)' = NodesOf(f)
    <3>1. f \in W => NodesOf(f) = Defs(f, walked[f])
      BY <1>0, KnownWalked
    <3>2. QED
      BY <2>1, <2>2, <3>1 DEF NodesOf
  <2>4. QED
    BY <1>1, <2>1, <2>3
<1>7. ASSUME PruneCalls PROVE CallsAreMade'
  <2>1. UNCHANGED <<disk, recorded, nodes>> /\ calls' \subseteq calls
    BY <1>7 DEF PruneCalls
  <2>2. QED
    BY <1>1, <2>1 DEF NodesOf
<1>8. ASSUME UpsertCalls PROVE CallsAreMade'
  <2> DEFINE e == CHOOSE d \in edges : TRUE
  <2>1. /\ UNCHANGED <<disk, recorded, nodes>> /\ e \in edges
        /\ calls' \subseteq calls \cup {e}
    BY <1>8 DEF UpsertCalls
  <2>2. /\ FileOf[e.from] \in W
        /\ walked[FileOf[e.from]] = disk[FileOf[e.from]] => Made(e)
    BY <2>1 DEF GraphInv, EdgesInv
  <2> HIDE DEF e
  <2>3. FileOf[e.from] \in Known => Made(e)
    BY <2>2, KnownWalked
  <2>4. QED
    BY <1>1, <2>1, <2>3 DEF NodesOf
<1>9. ASSUME Record PROVE CallsAreMade'
  <2>1. /\ UNCHANGED <<disk, nodes, calls>> /\ pc = "call"
        /\ recorded' = [f \in Files |-> IF f \in W THEN walked[f] ELSE recorded[f]]
    BY <1>9 DEF Record, graph
  <2>2. /\ \A e : Made(e)' <=> Made(e)
        /\ \A f : Defs(f, disk[f])' = Defs(f, disk[f]) /\ NodesOf(f)' = NodesOf(f)
    BY <2>1, Zenon DEF Made, Defs, Is, NodesOf
  <2>3. ASSUME NEW f \in Known'
        PROVE  /\ NodesOf(f) = Defs(f, disk[f])
               /\ \A e \in calls : FileOf[e.from] = f => Made(e)
    <3>1. f \in Files /\ f \in There /\ recorded'[f] = disk[f]
      BY <2>1 DEF Known, There, Is
    <3>2. CASE f \in W
      <4>1. walked[f] = disk[f]
        BY <2>1, <3>1, <3>2
      <4>2. NodesOf(f) = Defs(f, walked[f])
        BY <2>1, <3>2 DEF GraphInv, NodesInv, Past
      <4>3. \A e \in calls : FileOf[e.from] \in W =>
               (walked[FileOf[e.from]] = disk[FileOf[e.from]] => Made(e))
        BY <2>1 DEF GraphInv, EdgesInv
      <4>4. QED
        BY <3>2, <4>1, <4>2, <4>3
    <3>3. CASE f \notin W
      <4>1. f \in Known
        BY <2>1, <3>1, <3>3 DEF Known
      <4>2. QED
        BY <1>0, <4>1
    <3>4. QED
      BY <3>2, <3>3
  <2>4. QED
    BY <2>1, <2>2, <2>3 DEF CallsAreMade
<1>10. ASSUME NEW g \in Files, Change(g) PROVE CallsAreMade'
  <2>1. /\ UNCHANGED <<recorded, nodes, calls>> /\ disk' = [disk EXCEPT ![g] = disk[g] + 1]
    BY <1>10 DEF Change, graph
  <2>2. disk \in [Files -> Nat] /\ recorded \in [Files -> Nat]
        /\ \A f \in Files : recorded[f] <= disk[f]
    BY <1>0 DEF TypeOK
  <2>3. ASSUME NEW f \in Known' PROVE f \in Known /\ disk'[f] = disk[f]
    <3>1. f \in Files /\ recorded[f] = disk'[f] /\ Is(f, disk'[f]) # Absent
      BY <2>1 DEF Known, There, Is
    <3>2. f # g
      BY <2>1, <2>2, <3>1
    <3>3. disk'[f] = disk[f]
      BY <2>1, <2>2, <3>1, <3>2
    <3>4. QED
      BY <3>1, <3>3 DEF Known, There
  <2>4. ASSUME NEW f \in Known' PROVE NodesOf(f)' = Defs(f, disk[f])'
    <3>1. NodesOf(f)' = NodesOf(f) /\ Defs(f, disk[f])' = Defs(f, disk[f])
      BY <2>1, <2>3, Zenon DEF NodesOf, Defs, Is
    <3>2. QED
      BY <1>0, <2>3, <3>1
  <2>5. ASSUME NEW f \in Known', NEW e \in calls', FileOf[e.from] = f PROVE Made(e)'
    <3>1. Made(e) /\ disk'[FileOf[e.from]] = disk[FileOf[e.from]]
      BY <1>0, <2>1, <2>3, <2>5
    <3>2. QED
      BY <3>1, Zenon DEF Made, Is
  <2>6. QED
    BY <2>4, <2>5 DEF CallsAreMade
<1>11. QED
  BY <1>2, <1>3, <1>4, <1>5, <1>6, <1>7, <1>8, <1>9, <1>10 DEF Next, Step

\* A call that comes or goes is one of a file walked, or goes with a symbol.
LEMMA Loses ==
    ASSUME GraphInv, [Next]_vars
    PROVE  \A e \in (calls \ calls') \cup (calls' \ calls) :
              FileOf[e.from] \in W \/ (e \notin calls' /\ ~({e.from, e.to} \subseteq nodes'))
<1>1. ASSUME NEW S, Drop(S)
      PROVE  \A e \in (calls \ calls') \cup (calls' \ calls) :
                e \notin calls' /\ ~({e.from, e.to} \subseteq nodes')
  BY <1>1 DEF Drop
<1>2. \/ BeginFull \/ BeginDelta \/ Detached \/ Walk \/ UpsertFiles \/ PruneImports
      \/ UpsertImports \/ UpsertSymbols \/ Resolve \/ Record \/ Abort
      \/ (\E f \in Files : Change(f)) \/ UNCHANGED vars
      => UNCHANGED calls
  BY DEF BeginFull, BeginDelta, Detached, Walk, UpsertFiles, PruneImports, UpsertImports,
         UpsertSymbols, Resolve, Record, Abort, Change, vars, graph
<1>3. PruneSymbols \/ (\E f \in Files : Detach(f)) => UNCHANGED calls \/ \E S : Drop(S)
  BY DEF PruneSymbols, Detach
<1>4. ASSUME PruneCalls
      PROVE  \A e \in (calls \ calls') \cup (calls' \ calls) : FileOf[e.from] \in W
  BY <1>4 DEF PruneCalls
<1>5. ASSUME UpsertCalls
      PROVE  \A e \in (calls \ calls') \cup (calls' \ calls) : FileOf[e.from] \in W
  <2> DEFINE d == CHOOSE e \in edges : TRUE
  <2>1. /\ d \in edges
        /\ \/ calls' = calls
           \/ calls' = {e \in calls : e.from # d.from \/ e.to # d.to} \cup {d}
    BY <1>5 DEF UpsertCalls
  <2>2. FileOf[d.from] \in W
    BY <2>1 DEF GraphInv, EdgesInv
  <2> HIDE DEF d
  <2>3. QED
    BY <2>1, <2>2
<1>6. QED
  BY <1>1, <1>2, <1>3, <1>4, <1>5 DEF Next, Step

-----------------------------------------------------------------------------
(* The theorems.                                                           *)

\* The invariant is inductive.
LEMMA Inductive == Spec => []GraphInv
<1>1. Init => GraphInv
  <2> SUFFICES ASSUME Init PROVE GraphInv
    OBVIOUS
  <2>1. \A f \in Files : 1 \in DOMAIN History[f]
    BY CallGraphAssumption
  <2>2. TypeOK
    BY <2>1 DEF Init, TypeOK
  <2>3. WalkInv /\ NodesInv /\ EdgesInv /\ ReplaceInv
    BY DEF Init, WalkInv, NodesInv, EdgesInv, ReplaceInv, Past, W
  <2>4. Known = {}
    BY DEF Init, Known, There
  <2>5. QED
    BY <2>2, <2>3, <2>4 DEF GraphInv, CallsAreMade
<1>2. GraphInv /\ [Next]_vars => GraphInv'
  <2> SUFFICES ASSUME GraphInv, [Next]_vars PROVE GraphInv'
    OBVIOUS
  <2>1. TypeOK /\ WalkInv /\ NodesInv /\ EdgesInv /\ ReplaceInv
    BY DEF GraphInv
  <2>2. TypeOK'
    BY <2>1, GraphKept, LocalKept DEF GraphOK, LocalOK, TypeOK
  <2>3. QED
    BY <2>1, <2>2, WalkKept, NodesKept, EdgesKept, ReplaceKept, MadeKept DEF GraphInv
<1>3. QED
  BY <1>1, <1>2, PTL DEF Spec

\* The graph is one at every step: edges only between nodes there are, and one
\* for a pair; what is walked or recorded is no newer than what is on disk.
THEOREM TypeCorrect == Spec => []TypeOK
<1>1. GraphInv => TypeOK
  BY DEF GraphInv
<1>2. QED
  BY <1>1, Inductive, PTL

\* Of a file that is known the index says what is so, whatever ingests were
\* aborted and whatever was edited meanwhile (upsert_files_and_symbols,
\* upsert_call_edges and _detach_files).
THEOREM CallsAreMadeHolds == Spec => []CallsAreMade
<1>1. GraphInv => CallsAreMade
  BY DEF GraphInv
<1>2. QED
  BY <1>1, Inductive, PTL

\* When an ingest ends by itself and what it walked is still what there is, the
\* imports and calls of the files walked are those the contents determine,
\* whatever the index held of them before (upsert_call_edges and the IMPORTS of
\* upsert_files_and_symbols): no stale edge survives, none is missed.
THEOREM ReplacedHolds == Spec => Replaced
<1>1. GraphInv /\ [Next]_vars =>
        [/\ pc = "call" /\ pc' = "idle" /\ aborts' = aborts
         /\ AsWalked
         =>
            /\ {i \in imports : i[1] \in W} = ImportsOf(walked)
            /\ Just(Found, {e \in calls : FileOf[e.from] \in W})]_vars
  <2> SUFFICES ASSUME GraphInv, Next, pc = "call", pc' = "idle", aborts' = aborts, AsWalked
               PROVE  /\ {i \in imports : i[1] \in W} = ImportsOf(walked)
                      /\ Just(Found, {e \in calls : FileOf[e.from] \in W})
    OBVIOUS
  <2>1. edges = {}
    <3>1. aborts \in Nat
      BY DEF GraphInv, TypeOK
    <3>2. ~Abort
      BY <3>1 DEF Abort
    <3>3. Record
      BY <3>2 DEF Next, Step, BeginFull, BeginDelta, Detach, Detached, Walk, UpsertFiles,
             PruneSymbols, UpsertSymbols, PruneImports, UpsertImports, Resolve, PruneCalls,
             UpsertCalls, Change, Goto
    <3>4. QED
      BY <3>3 DEF Record
  <2>2. edges \cup {e \in calls : FileOf[e.from] \in W} = {e \in calls : FileOf[e.from] \in W}
    BY <2>1
  <2>3. QED
    BY <2>2 DEF GraphInv, ReplaceInv
<1>2. QED
  BY <1>1, Inductive, PTL DEF Spec, Replaced

\* No ingest adds or changes a call of a file it does not walk, nor takes one
\* away unless a symbol it joins goes (the scope of upsert_call_edges).
THEOREM OthersOnlyLoseHolds == Spec => OthersOnlyLose
<1>1. GraphInv /\ [Next]_vars =>
        [\A e \in (calls \ calls') \cup (calls' \ calls) :
            FileOf[e.from] \in W
               \/ (e \notin calls' /\ ~({e.from, e.to} \subseteq nodes'))]_vars
  BY Loses
<1>2. QED
  BY <1>1, Inductive, PTL DEF Spec, OthersOnlyLose

=============================================================================
