----------------------------- MODULE Ingest_proof -----------------------------
(***************************************************************************)
(* Proofs about Ingest, for any files, edits, commits and aborts.          *)
(***************************************************************************)
EXTENDS Ingest, SequenceTheorems, TLAPS

-----------------------------------------------------------------------------
(* Types.                                                                  *)

\* Trees and their combinations are trees.
LEMMA Trees ==
    /\ Nothing \in [Files -> Nat] /\ Nothing \in [Files -> 0..3]
    /\ work \in [Files -> Nat] => Packed \in [Files -> Nat]
    /\ \A t, u \in [Files -> Nat] : Over(t, u) \in [Files -> Nat]
  BY DEF Nothing, Packed, Over

\* The end of an ingest keeps the types of what belongs to the ingests.
LEMMA ReturnType ==
    ASSUME RunsOK, NEW w \in Workers, NEW s \in Statuses, Return(w, s),
           UNCHANGED commits, aborts' \in Nat
    PROVE  RunsOK'
  BY Trees DEF RunsOK, Return, Goto, Positions, HEAD

\* The initial state is well typed.
LEMMA InitType == Init => TypeOK
<1> SUFFICES ASSUME Init PROVE TypeOK
  OBVIOUS
<1>0. work \in [Files -> {0, 1}]
  BY DEF Init
<1>1. work \in [Files -> Nat]
  BY <1>0
<1>2. commits \in Seq([Files -> Nat]) /\ (Git => HEAD > 0) /\ HEAD \in Nat
  <2>1. CASE Git
    <3>1. commits = <<Packed>>
      BY <2>1 DEF Init
    <3>2. QED
      BY <1>1, <3>1, Trees DEF HEAD
  <2>2. CASE ~Git
    <3>1. commits = <<>>
      BY <2>2 DEF Init
    <3>2. QED
      BY <2>2, <3>1 DEF HEAD
  <2>3. QED
    BY <2>1, <2>2
<1>3. TreeOK
  BY <1>1, <1>2 DEF Init, TreeOK
<1>4. DbOK
  <2>1. gitHead = 0 /\ hashes = Nothing /\ packSha = NoPack
    BY DEF Init
  <2>2. QED
    BY <1>2, <2>1, Trees DEF DbOK
<1>5. GraphOK
  BY Trees DEF Init, GraphOK
<1>6. RunsOK
  <2>1. 0 \in 0..HEAD
    BY <1>2
  <2>2. /\ pc = [w \in Workers |-> "idle"]
        /\ full = [w \in Workers |-> FALSE]
        /\ skip = [w \in Workers |-> {}]
        /\ head = [w \in Workers |-> 0]
        /\ target = [w \in Workers |-> {}]
        /\ left = [w \in Workers |-> Nothing]
        /\ pack = [w \in Workers |-> Nothing]
        /\ walked = [w \in Workers |-> Nothing]
        /\ draft = [w \in Workers |-> Nothing]
        /\ last = [w \in Workers |-> ""]
        /\ fulls = 0 /\ aborts = 0
    BY DEF Init
  <2>3. QED
    BY <2>1, <2>2, Trees DEF RunsOK, Positions, Statuses
<1>7. QED
  BY <1>3, <1>4, <1>5, <1>6 DEF TypeOK

\* Edits and commits.
LEMMA TreeType ==
    ASSUME TypeOK,
           \/ \E f \in Files : Write(f) \/ Remove(f)
           \/ \E S \in SUBSET Files : Commit(S)
    PROVE  TypeOK'
<1> USE DEF TypeOK
<1>1. ASSUME NEW f \in Files, Write(f) PROVE TypeOK'
  <2>1. TreeOK'
    BY <1>1 DEF Write, TreeOK, HEAD
  <2>2. QED
    BY <1>1, <2>1
    DEF Write, DbOK, GraphOK, RunsOK, HEAD, db, graph, local
<1>2. ASSUME NEW f \in Files, Remove(f) PROVE TypeOK'
  <2>1. TreeOK'
    BY <1>2 DEF Remove, TreeOK, HEAD
  <2>2. QED
    BY <1>2, <2>1
    DEF Remove, DbOK, GraphOK, RunsOK, HEAD, db, graph, local
<1>3. ASSUME NEW S \in SUBSET Files, Commit(S) PROVE TypeOK'
  <2> DEFINE t == [f \in Files |-> IF f \in S THEN work[f]
                                   ELSE commits[HEAD][f]]
  <2>1. HEAD \in Nat \ {0} /\ commits[HEAD] \in [Files -> Nat]
    BY <1>3, ElementOfSeq DEF Commit, TreeOK, HEAD
  <2>2. t \in [Files -> Nat]
    BY <2>1 DEF TreeOK
  <2>3. commits' \in Seq([Files -> Nat]) /\ HEAD' = HEAD + 1
    BY <1>3, <2>2, AppendProperties DEF Commit, TreeOK, HEAD
  <2>4. TreeOK'
    BY <1>3, <2>1, <2>3 DEF Commit, TreeOK
  <2>5. 0..HEAD \subseteq 0..HEAD'
    BY <2>1, <2>3
  <2>6. QED
    BY <1>3, <2>4, <2>5 DEF Commit, DbOK, GraphOK, RunsOK, db, graph, local
<1>4. QED
  BY <1>1, <1>2, <1>3

\* Beginning, detection and removal.
LEMMA DetectType ==
    ASSUME TypeOK, NEW w \in Workers,
           \/ StartDelta(w) \/ GoCold(w) \/ NoChanges(w) \/ Changed(w)
           \/ \E f \in Files : Detach(w, f)
    PROVE  TypeOK'
<1> USE DEF TypeOK, tree, db, graph
<1>1. CASE StartDelta(w)
  <2>1. skip' \in [Workers -> SUBSET Stages]
    BY <1>1, IngestAssumption DEF StartDelta, RunsOK
  <2>2. HeadRead \subseteq 0..HEAD
    BY DEF HeadRead, TreeOK, HEAD
  <2>3. head' \in [Workers -> 0..HEAD]
    BY <1>1, <2>2 DEF StartDelta, RunsOK
  <2>4. RunsOK'
    BY <1>1, <2>1, <2>3 DEF StartDelta, RunsOK, HEAD, Goto, Positions
  <2>5. QED
    BY <1>1, <2>4 DEF StartDelta, TreeOK, DbOK, GraphOK, HEAD
<1>2. CASE GoCold(w)
  <2>1. RunsOK'
    BY <1>2 DEF GoCold, RunsOK, TreeOK, HEAD, Goto, Positions
  <2>2. QED
    BY <1>2, <2>1 DEF GoCold, TreeOK, DbOK, GraphOK, HEAD
<1>3. CASE NoChanges(w)
  <2>1. RunsOK'
    BY <1>3, ReturnType DEF NoChanges, RunsOK, Statuses
  <2>2. head[w] \in 0..HEAD
    BY DEF RunsOK
  <2>3. QED
    BY <1>3, <2>1, <2>2 DEF NoChanges, TreeOK, DbOK, GraphOK, HEAD
<1>4. CASE Changed(w)
  <2>1. PICK c \in Changes(w) :
           /\ target' = [target EXCEPT ![w] = c.toIndex]
           /\ left' = [left EXCEPT ![w] =
                         [f \in Files |-> IF f \in c.deleted THEN 3 ELSE 0]]
    BY <1>4 DEF Changed
  <2>2. c.toIndex \subseteq Files
    BY DEF Changes, GitDiffs, HashDiff, NoDiff
  <2>3. [f \in Files |-> IF f \in c.deleted THEN 3 ELSE 0] \in [Files -> 0..3]
    OBVIOUS
  <2>4. RunsOK'
    BY <1>4, <2>1, <2>2, <2>3 DEF Changed, RunsOK, HEAD, Goto, Positions
  <2>5. QED
    BY <1>4, <2>4 DEF Changed, TreeOK, DbOK, GraphOK, HEAD
<1>5. ASSUME NEW f \in Files, Detach(w, f) PROVE TypeOK'
  <2>1. left[w][f] - 1 \in 0..3 /\ left[w] \in [Files -> 0..3]
    BY <1>5 DEF Detach, RunsOK
  <2>2. left' \in [Workers -> [Files -> 0..3]]
    <3>1. [left[w] EXCEPT ![f] = left[w][f] - 1] \in [Files -> 0..3]
      BY <2>1
    <3>2. left' = [left EXCEPT ![w] =
                     [left[w] EXCEPT ![f] = left[w][f] - 1]]
      BY <1>5 DEF Detach
    <3>3. QED
      BY <3>1, <3>2 DEF RunsOK
  <2>3. RunsOK'
    BY <1>5, <2>2 DEF Detach, RunsOK, HEAD
  <2>4. GraphOK'
    BY <1>5 DEF Detach, GraphOK
  <2>5. QED
    BY <1>5, <2>3, <2>4 DEF Detach, TreeOK, DbOK, HEAD
<1>6. QED
  BY <1>1, <1>2, <1>3, <1>4, <1>5

\* The walks, and what comes before a full one.
LEMMA WalkType ==
    ASSUME TypeOK, NEW w \in Workers,
           WalkSubset(w) \/ WalkRepo(w) \/ PackUnchanged(w) \/ PackChanged(w)
    PROVE  TypeOK'
<1> USE DEF TypeOK, tree, db, graph
<1>1. ASSUME NEW S, Walk(w, S),
             UNCHANGED <<tree, db, graph, full, skip, head, target, left,
                         pack, draft, last, fulls, aborts>>
      PROVE  TypeOK'
  <2>1. walked' \in [Workers -> [Files -> Nat]]
    <3>1. PICK I \in LeftOut :
             walked' = [walked EXCEPT ![w] =
                          [f \in Files |-> IF f \in S \ I THEN work[f] ELSE 0]]
      BY <1>1 DEF Walk
    <3>2. [f \in Files |-> IF f \in S \ I THEN work[f] ELSE 0]
            \in [Files -> Nat]
      BY DEF TreeOK
    <3>3. QED
      BY <3>1, <3>2 DEF RunsOK
  <2>2. RunsOK'
    BY <1>1, <2>1 DEF Walk, RunsOK, HEAD, Goto, Positions
  <2>3. QED
    BY <1>1, <2>2 DEF TreeOK, DbOK, GraphOK, HEAD
<1>2. CASE PackUnchanged(w)
  <2>0. skip' \in [Workers -> SUBSET Stages] /\ fulls' \in Nat
    BY <1>2 DEF PackUnchanged, Begins, RunsOK
  <2>1. RunsOK'
    BY <1>2, <2>0
    DEF PackUnchanged, RunsOK, HEAD, Goto, Positions, Statuses
  <2>2. QED
    BY <1>2, <2>1 DEF PackUnchanged, TreeOK, DbOK, GraphOK, HEAD
<1>3. CASE PackChanged(w)
  <2>1. PICK s \in Skips, force \in BOOLEAN :
           Begins(w, s, force) /\ skip' = [skip EXCEPT ![w] = s]
    BY <1>3 DEF PackChanged
  <2>2. s \subseteq Stages /\ Packed \in [Files -> Nat] /\ fulls' \in Nat
    BY <2>1, IngestAssumption, Trees DEF TreeOK, Begins, RunsOK
  <2>3. RunsOK'
    <3>1. /\ pc' \in [Workers -> Positions] /\ full' \in [Workers -> BOOLEAN]
          /\ pack' \in [Workers -> [Files -> Nat]]
      BY <1>3, <2>2 DEF PackChanged, RunsOK, Goto, Positions
    <3>2. skip' \in [Workers -> SUBSET Stages] /\ fulls' \in Nat
      BY <2>1, <2>2 DEF RunsOK
    <3>3. UNCHANGED <<HEAD, head, target, left, walked, draft, last, aborts>>
      BY <1>3 DEF PackChanged, tree, HEAD
    <3>4. QED
      BY <3>1, <3>2, <3>3 DEF RunsOK
  <2>4. QED
    BY <1>3, <2>3 DEF PackChanged, TreeOK, DbOK, GraphOK, HEAD
<1>4. QED
  BY <1>1, <1>2, <1>3 DEF WalkSubset, WalkRepo

\* The stages.
LEMMA StageType ==
    ASSUME TypeOK, NEW w \in Workers,
           \/ UpsertFiles(w) \/ PruneSymbols(w) \/ UpsertSymbols(w)
           \/ Summarize(w) \/ WriteSummaries(w)
           \/ SplitChunks(w) \/ WriteChunks(w)
    PROVE  TypeOK'
<1> USE DEF TypeOK, tree, db, StageLeaves
<1>1. UNCHANGED <<tree, db, full, skip, head, target, left, pack, walked, last,
                  fulls, aborts>>
  BY DEF UpsertFiles, PruneSymbols, UpsertSymbols, Summarize, WriteSummaries,
         SplitChunks, WriteChunks
<1>2. pc' \in [Workers -> Positions]
  <2>1. \A p : After(w, p) \in Positions
    BY DEF After, Positions
  <2>2. \E p \in Positions : Goto(w, p)
    <3>1. {"prune", "symbols", "summaries", "chunks", "record"}
             \subseteq Positions
      BY DEF Positions
    <3>2. QED
      BY <2>1, <3>1
      DEF UpsertFiles, PruneSymbols, UpsertSymbols, Summarize, WriteSummaries,
          SplitChunks, WriteChunks
  <2>3. QED
    BY <2>2 DEF Goto, RunsOK
<1>3. walked[w] \in [Files -> Nat] /\ draft[w] \in [Files -> Nat]
  BY DEF RunsOK
<1>4. GraphOK' /\ draft' \in [Workers -> [Files -> Nat]]
  <2> USE DEF GraphOK, RunsOK
  <2>1. CASE UpsertFiles(w)
    BY <2>1, <1>3, Trees DEF UpsertFiles
  <2>2. CASE PruneSymbols(w)
    BY <2>2 DEF PruneSymbols
  <2>3. CASE UpsertSymbols(w)
    BY <2>3, <1>3, Trees DEF UpsertSymbols
  <2>4. CASE Summarize(w)
    <3>1. PICK done : draft' = [draft EXCEPT ![w] =
                        [f \in Files |-> IF f \in done THEN work[f] ELSE 0]]
      BY <2>4 DEF Summarize
    <3>2. [f \in Files |-> IF f \in done THEN work[f] ELSE 0]
            \in [Files -> Nat]
      BY DEF TreeOK
    <3>3. QED
      BY <2>4, <3>1, <3>2 DEF Summarize, graph
  <2>5. CASE WriteSummaries(w)
    <3>1. Over(draft[w], summ) \in [Files -> Nat]
      BY <1>3, Trees
    <3>2. summ' \in [Files -> Nat]
      BY <2>5, <3>1 DEF WriteSummaries
    <3>3. QED
      BY <2>5, <3>2 DEF WriteSummaries
  <2>6. CASE SplitChunks(w)
    <3>1. draft' \in [Workers -> [Files -> Nat]]
      <4>1. [f \in Files |-> IF walked[w][f] = 0 \/ work[f] \in Chunkless
                             THEN 0 ELSE work[f]] \in [Files -> Nat]
        BY DEF TreeOK
      <4>2. QED
        BY <2>6, <4>1 DEF SplitChunks
    <3>2. chunks' \in [Files -> Nat]
      BY <2>6 DEF SplitChunks
    <3>3. QED
      BY <2>6, <3>1, <3>2 DEF SplitChunks
  <2>7. CASE WriteChunks(w)
    BY <2>7, <1>3, Trees DEF WriteChunks
  <2>8. QED
    BY <2>1, <2>2, <2>3, <2>4, <2>5, <2>6, <2>7
<1>5. RunsOK'
  BY <1>1, <1>2, <1>4 DEF RunsOK, HEAD
<1>6. QED
  BY <1>1, <1>4, <1>5 DEF TreeOK, DbOK, HEAD

\* The state database, and the end.
LEMMA RecordType ==
    ASSUME TypeOK, NEW w \in Workers,
           Record(w) \/ SetPack(w) \/ SetHead(w) \/ Abort(w)
    PROVE  TypeOK'
<1> USE DEF TypeOK, tree, db, graph, local
<1>1. CASE Record(w) \/ SetPack(w)
  <2>1. RunsOK'
    BY <1>1 DEF Record, SetPack, RunsOK, HEAD, Goto, Positions
  <2>2. walked[w] \in [Files -> Nat] /\ pack[w] \in [Files -> Nat]
    BY DEF RunsOK
  <2>3. DbOK'
    BY <1>1, <2>2, Trees DEF Record, SetPack, DbOK, HEAD
  <2>4. QED
    BY <1>1, <2>1, <2>3 DEF Record, SetPack, TreeOK, GraphOK, HEAD
<1>2. CASE SetHead(w)
  <2>1. RunsOK'
    BY <1>2, ReturnType DEF SetHead, RunsOK, Statuses
  <2>2. HeadRead \subseteq 0..HEAD /\ head[w] \in 0..HEAD
    BY DEF HeadRead, RunsOK, TreeOK, HEAD
  <2>3. gitHead' \in 0..HEAD
    <3>1. PICK h \in IF full[w] THEN HeadRead ELSE {head[w]} :
             gitHead' = IF h # 0 THEN h ELSE gitHead
      BY <1>2 DEF SetHead
    <3>2. QED
      BY <2>2, <3>1 DEF DbOK
  <2>4. QED
    BY <1>2, <2>1, <2>3 DEF SetHead, TreeOK, DbOK, GraphOK, HEAD
<1>3. CASE Abort(w)
  <2>1. RunsOK'
    <3>0. aborts \in Nat /\ aborts' = aborts + 1
      BY <1>3 DEF Abort, RunsOK
    <3>1. aborts' \in Nat /\ "error" \in Statuses
      BY <3>0 DEF Statuses
    <3>2. QED
      BY <1>3, <3>1, ReturnType DEF Abort
  <2>2. QED
    BY <1>3, <2>1 DEF Abort, TreeOK, DbOK, GraphOK, HEAD
<1>4. QED
  BY <1>1, <1>2, <1>3

\* Every step keeps the types.
LEMMA TypeStep == TypeOK /\ [Next]_vars => TypeOK'
<1> SUFFICES ASSUME TypeOK, [Next]_vars
             PROVE  TypeOK'
  OBVIOUS
<1>1. CASE UNCHANGED vars
  <2>1. TreeOK' /\ DbOK' /\ GraphOK'
    BY <1>1 DEF vars, TypeOK, TreeOK, DbOK, GraphOK, HEAD
  <2>2. RunsOK'
    BY <1>1 DEF vars, TypeOK, RunsOK, HEAD
  <2>3. QED
    BY <2>1, <2>2 DEF TypeOK
<1>2. QED
  BY <1>1, TreeType, DetectType, WalkType, StageType, RecordType
  DEF Next, ByHand, Step

\* Every variable of the index keeps its type, whatever overlaps.
THEOREM TypeCorrect == Spec => []TypeOK
  BY InitType, TypeStep, PTL DEF Spec

-----------------------------------------------------------------------------
(* What the steps may write.                                               *)

\* The working tree belongs to its users.
LEMMA LeaveTree ==
    ASSUME NEW w \in Workers,
           StartDelta(w) \/ ByHand(w) \/ Step(w) \/ Abort(w)
    PROVE  UNCHANGED tree
<1>1. CASE StartDelta(w) \/ ByHand(w) \/ Abort(w)
  BY <1>1 DEF StartDelta, ByHand, PackUnchanged, PackChanged, Abort
<1>2. CASE Step(w)
  BY <1>2 DEF Step, StageLeaves, GoCold, NoChanges, Changed, Detach, WalkSubset,
              WalkRepo, PackUnchanged, PackChanged, UpsertFiles, PruneSymbols,
              UpsertSymbols, Summarize, WriteSummaries, SplitChunks,
              WriteChunks, Record, SetPack, SetHead
<1>3. QED
  BY <1>1, <1>2

\* The same of every step: edits and commits change the tree, nothing else does.
LEMMA TreeSteps ==
    ASSUME [Next]_vars
    PROVE  \/ \E f \in Files : Write(f) \/ Remove(f)
           \/ \E S \in SUBSET Files : Commit(S)
           \/ UNCHANGED tree
<1>1. CASE UNCHANGED vars
  BY <1>1 DEF vars, tree
<1>2. QED
  BY <1>1, LeaveTree DEF Next

\* The recorded hashes change in one place.
LEMMA HashSteps ==
    ASSUME [Next]_vars
    PROVE  hashes' = hashes \/ \E w \in Workers : Record(w)
<1>1. CASE UNCHANGED vars \/ \E f \in Files : Write(f) \/ Remove(f)
  BY <1>1 DEF vars, db, Write, Remove
<1>2. CASE \E S \in SUBSET Files : Commit(S)
  BY <1>2 DEF Commit, db
<1>3. ASSUME NEW w \in Workers, StartDelta(w) \/ ByHand(w) \/ Abort(w)
      PROVE  hashes' = hashes
  BY <1>3 DEF StartDelta, ByHand, PackUnchanged, PackChanged, StageLeaves,
              Abort, db
<1>4. ASSUME NEW w \in Workers, Step(w), ~Record(w)
      PROVE  hashes' = hashes
  <2>1. CASE \/ GoCold(w) \/ NoChanges(w) \/ Changed(w)
             \/ \E f \in Files : Detach(w, f)
    BY <2>1 DEF GoCold, NoChanges, Changed, Detach, StageLeaves, db
  <2>2. CASE \/ WalkSubset(w) \/ WalkRepo(w) \/ PackUnchanged(w)
             \/ PackChanged(w)
    BY <2>2 DEF WalkSubset, WalkRepo, PackUnchanged, PackChanged, StageLeaves,
                db
  <2>3. CASE \/ UpsertFiles(w) \/ PruneSymbols(w) \/ UpsertSymbols(w)
             \/ Summarize(w) \/ WriteSummaries(w)
    BY <2>3 DEF UpsertFiles, PruneSymbols, UpsertSymbols, Summarize,
                WriteSummaries, StageLeaves, db
  <2>4. CASE SplitChunks(w) \/ WriteChunks(w) \/ SetPack(w) \/ SetHead(w)
    BY <2>4 DEF SplitChunks, WriteChunks, SetPack, SetHead, StageLeaves, db
  <2>5. QED
    BY <1>4, <2>1, <2>2, <2>3, <2>4 DEF Step
<1>5. QED
  BY <1>1, <1>2, <1>3, <1>4 DEF Next

\* What has been walked is walked once, and forgotten in the end.
LEMMA WalkSteps ==
    ASSUME [Next]_vars
    PROVE  \/ walked' = walked
           \/ \E w \in Workers : walked' = [walked EXCEPT ![w] = Nothing]
           \/ \E w \in Workers : \E S : Walk(w, S)
<1>1. CASE UNCHANGED vars \/ \E f \in Files : Write(f) \/ Remove(f)
  BY <1>1 DEF vars, local, Write, Remove
<1>2. CASE \E S \in SUBSET Files : Commit(S)
  BY <1>2 DEF Commit, local
<1>3. ASSUME NEW w \in Workers, StartDelta(w) \/ ByHand(w) \/ Abort(w)
      PROVE  walked' = walked \/ walked' = [walked EXCEPT ![w] = Nothing]
  BY <1>3 DEF StartDelta, ByHand, PackUnchanged, PackChanged, StageLeaves,
              Abort, Return, local
<1>4. ASSUME NEW w \in Workers, Step(w), ~WalkSubset(w), ~WalkRepo(w)
      PROVE  walked' = walked \/ walked' = [walked EXCEPT ![w] = Nothing]
  <2>1. CASE GoCold(w) \/ NoChanges(w) \/ Changed(w)
    BY <2>1 DEF GoCold, NoChanges, Changed, Return, StageLeaves
  <2>2. CASE \/ \E f \in Files : Detach(w, f)
             \/ PackUnchanged(w) \/ PackChanged(w)
    BY <2>2 DEF Detach, PackUnchanged, PackChanged, Return, StageLeaves, local
  <2>3. CASE \/ UpsertFiles(w) \/ PruneSymbols(w) \/ UpsertSymbols(w)
             \/ Summarize(w) \/ WriteSummaries(w)
    BY <2>3 DEF UpsertFiles, PruneSymbols, UpsertSymbols, Summarize,
                WriteSummaries, StageLeaves, local
  <2>4. CASE \/ SplitChunks(w) \/ WriteChunks(w) \/ Record(w)
             \/ SetPack(w) \/ SetHead(w)
    BY <2>4 DEF SplitChunks, WriteChunks, Record, SetPack, SetHead, Return,
                StageLeaves, local
  <2>5. QED
    BY <1>4, <2>1, <2>2, <2>3, <2>4 DEF Step
<1>5. ASSUME NEW w \in Workers, WalkSubset(w) \/ WalkRepo(w)
      PROVE  \E S : Walk(w, S)
  <2>1. CASE WalkSubset(w)
    BY <2>1 DEF WalkSubset
  <2>2. CASE WalkRepo(w)
    BY <2>2 DEF WalkRepo
  <2>3. QED
    BY <1>5, <2>1, <2>2
<1>6. QED
  BY <1>1, <1>2, <1>3, <1>4, <1>5 DEF Next

\* A walk finds a content that is there, or nothing.
LEMMA WalkFinds ==
    ASSUME TypeOK, [Next]_vars, NEW w \in Workers, NEW f \in Files
    PROVE  walked'[w][f] \in {0, work[f], walked[w][f]}
<1> USE DEF TypeOK, RunsOK, Nothing
<1>1. ASSUME NEW v \in Workers, walked' = [walked EXCEPT ![v] = Nothing]
      PROVE  walked'[w][f] \in {0, walked[w][f]}
  BY <1>1
<1>2. ASSUME NEW v \in Workers, NEW S, Walk(v, S)
      PROVE  walked'[w][f] \in {0, work[f], walked[w][f]}
  BY <1>2 DEF Walk
<1>3. QED
  BY <1>1, <1>2, WalkSteps

\* What is recorded has been walked.
LEMMA RecordsWalked ==
    ASSUME TypeOK, [Next]_vars, NEW f \in Files
    PROVE  hashes'[f] = hashes[f] \/ \E w \in Workers : hashes'[f] = walked[w][f]
  BY HashSteps DEF Record, Over

-----------------------------------------------------------------------------
(* Contents and removals.                                                  *)

\* Nothing is ever newer than the clock.
LEMMA FreshStep ==
    ASSUME ~Revert
    PROVE  TypeOK /\ FreshInv /\ [Next]_vars => FreshInv'
<1> SUFFICES ASSUME TypeOK, FreshInv, [Next]_vars
             PROVE  FreshInv'
  OBVIOUS
<1> USE DEF FreshInv
<1>1. ASSUME NEW f \in Files, Write(f) PROVE FreshInv'
  <2>1. clock' = clock + 1 /\ work' = [work EXCEPT ![f] = clock + 1]
    BY <1>1 DEF Write
  <2>2. UNCHANGED <<hashes, walked>>
    BY <1>1 DEF Write, db, local
  <2>3. QED
    BY <2>1, <2>2 DEF TypeOK, TreeOK, DbOK, RunsOK
<1>2. ASSUME NEW f \in Files, Remove(f) PROVE FreshInv'
  BY <1>2 DEF Remove, db, local, TypeOK, TreeOK
<1>3. ASSUME NEW S \in SUBSET Files, Commit(S) PROVE FreshInv'
  BY <1>3 DEF Commit, db, local
<1>4. CASE UNCHANGED tree
  <2>1. ASSUME NEW f \in Files, NEW w \in Workers
        PROVE  walked'[w][f] <= clock
    BY WalkFinds DEF TypeOK, TreeOK
  <2>2. ASSUME NEW f \in Files
        PROVE  hashes'[f] <= clock
    BY RecordsWalked
  <2>3. QED
    BY <1>4, <2>1, <2>2 DEF tree
<1>5. QED
  BY <1>1, <1>2, <1>3, <1>4, TreeSteps

\* What is missing stays accounted for as deleted.
LEMMA GoneStep ==
    ASSUME ~Restore
    PROVE  TypeOK /\ GoneInv /\ [Next]_vars => GoneInv'
<1> SUFFICES ASSUME TypeOK, GoneInv, [Next]_vars
             PROVE  GoneInv'
  OBVIOUS
<1> USE DEF GoneInv, Known
<1>1. ASSUME NEW f \in Files, Write(f) PROVE GoneInv'
  <2>1. /\ \E v \in Nat \ {0} : work' = [work EXCEPT ![f] = v]
        /\ work[f] = 0 => f \notin removed
    BY <1>1 DEF Write, TypeOK, TreeOK
  <2>2. UNCHANGED <<hashes, walked, commits, removed>>
    BY <1>1 DEF Write, db, local
  <2>3. QED
    BY <2>1, <2>2 DEF TypeOK, TreeOK, HEAD
<1>2. ASSUME NEW f \in Files, Remove(f) PROVE GoneInv'
  <2>1. /\ UNCHANGED <<hashes, walked, commits>>
        /\ work' = [work EXCEPT ![f] = 0] /\ removed' = removed \cup {f}
    BY <1>2 DEF Remove, db, local
  <2>2. QED
    BY <2>1 DEF TypeOK, TreeOK, HEAD
<1>3. ASSUME NEW S \in SUBSET Files, Commit(S) PROVE GoneInv'
  <2> DEFINE t == [f \in Files |-> IF f \in S THEN work[f]
                                   ELSE commits[HEAD][f]]
  <2>1. UNCHANGED <<hashes, walked, work, removed>>
    BY <1>3 DEF Commit, db, local
  <2>2. HEAD \in Nat \ {0}
    BY <1>3 DEF Commit, TypeOK, TreeOK, HEAD
  <2>3. /\ HEAD' = HEAD + 1
        /\ commits'[HEAD + 1] = t
        /\ \A i \in 1..HEAD : commits'[i] = commits[i]
    BY <1>3, <2>2, AppendProperties DEF Commit, TypeOK, TreeOK, HEAD
  <2>4. ASSUME NEW f \in Files, NEW i \in 1..HEAD', commits'[i][f] # 0
        PROVE  Known(f)
    BY <2>2, <2>3, <2>4
  <2>5. ASSUME NEW f \in Files, NEW i \in 1..HEAD', NEW j \in 1..HEAD',
               i < j, commits'[i][f] # 0, commits'[j][f] = 0
        PROVE  f \in removed
    <3>1. i \in 1..HEAD /\ commits[i][f] # 0
      BY <2>2, <2>3, <2>5
    <3>2. CASE j \in 1..HEAD
      BY <2>3, <2>5, <3>1, <3>2
    <3>3. CASE j = HEAD + 1
      BY <2>2, <2>3, <2>5, <3>1, <3>3
    <3>4. QED
      BY <2>2, <2>3, <3>2, <3>3
  <2>6. QED
    BY <2>1, <2>4, <2>5
<1>4. CASE UNCHANGED tree
  <2>1. ASSUME NEW f \in Files, NEW w \in Workers, walked'[w][f] # 0
        PROVE  Known(f)
    BY <2>1, WalkFinds
  <2>2. ASSUME NEW f \in Files, hashes'[f] # 0
        PROVE  Known(f)
    BY <2>2, RecordsWalked
  <2>3. QED
    BY <1>4, <2>1, <2>2 DEF tree, HEAD
<1>5. QED
  BY <1>1, <1>2, <1>3, <1>4, TreeSteps

\* Initially everything is fresh and nothing is gone.
LEMMA InitHistory == Init => FreshInv /\ GoneInv
<1>1. Init => FreshInv
  <2> SUFFICES ASSUME Init, NEW f \in Files
               PROVE  /\ work[f] <= clock /\ hashes[f] <= clock
                      /\ \A w \in Workers : walked[w][f] <= clock
    BY DEF FreshInv
  <2>1. work[f] \in {0, 1} /\ clock = 1
    BY DEF Init
  <2>2. hashes[f] = 0 /\ \A w \in Workers : walked[w][f] = 0
    BY DEF Init, Nothing
  <2>3. QED
    BY <2>1, <2>2
<1>2. Init => GoneInv
  <2> SUFFICES ASSUME Init PROVE GoneInv
    OBVIOUS
  <2>1. HEAD \in {0, 1} /\ \A i \in 1..HEAD : i = 1 /\ commits[i] = Packed
    <3>1. CASE Git
      <4>1. commits = <<Packed>>
        BY <3>1 DEF Init
      <4>2. QED
        BY <4>1 DEF HEAD
    <3>2. CASE ~Git
      <4>1. commits = <<>>
        BY <3>2 DEF Init
      <4>2. QED
        BY <4>1 DEF HEAD
    <3>3. QED
      BY <3>1, <3>2
  <2>2. removed = {}
    BY DEF Init
  <2>3. ASSUME NEW f \in Files
        PROVE  hashes[f] = 0 /\ \A w \in Workers : walked[w][f] = 0
    BY DEF Init, Nothing
  <2>4. ASSUME NEW f \in Files, NEW i \in 1..HEAD, commits[i][f] # 0
        PROVE  Known(f)
    BY <2>1, <2>4 DEF Packed, Known
  <2>5. ASSUME NEW f \in Files, NEW i \in 1..HEAD, NEW j \in 1..HEAD, i < j
        PROVE  FALSE
    <3>1. i = 1 /\ j = 1
      BY <2>1
    <3>2. QED
      BY <2>5, <3>1
  <2>6. QED
    BY <2>2, <2>3, <2>4, <2>5 DEF GoneInv
<1>3. QED
  BY <1>1, <1>2

-----------------------------------------------------------------------------
(* One ingest at a time.                                                   *)

SerialAll == TypeOK /\ FreshInv /\ GoneInv /\ OneAtATime /\ SerialInv
             /\ RecordedIsIndexed

\* An edit gives a file a content that no hash and no walk knows.
LEMMA EditStep ==
    ASSUME ~Revert, ~Restore, SerialAll,
           \/ \E f \in Files : Write(f) \/ Remove(f)
           \/ \E S \in SUBSET Files : Commit(S)
    PROVE  SerialInv' /\ RecordedIsIndexed'
<1> USE DEF SerialAll, SerialInv, SerialPart, RecordedIsIndexed, Indexed
<1>1. ASSUME NEW f \in Files, Write(f) PROVE SerialInv' /\ RecordedIsIndexed'
  <2>1. clock' = clock + 1 /\ work' = [work EXCEPT ![f] = clock + 1]
    BY <1>1 DEF Write
  <2>2. UNCHANGED <<removed, gitHead, hashes, node, syms, pc, head, left, walked>>
    BY <1>1 DEF Write, db, graph, local
  <2>3. work'[f] # hashes[f] /\ \A g \in Files \ {f} : work'[g] = work[g]
    BY <2>1 DEF FreshInv, TypeOK, TreeOK, DbOK
  <2>4. SerialInv'
    BY <2>2, <2>3
  <2>5. RecordedIsIndexed'
    BY <2>2, <2>3
  <2>6. QED
    BY <2>4, <2>5
<1>2. ASSUME NEW f \in Files, Remove(f) PROVE SerialInv' /\ RecordedIsIndexed'
  <2>1. /\ work' = [work EXCEPT ![f] = 0] /\ removed' = removed \cup {f}
        /\ UNCHANGED <<gitHead, hashes, node, syms, pc, head, left, walked>>
    BY <1>2 DEF Remove, db, graph, local
  <2>2. work'[f] = 0 /\ \A g \in Files \ {f} : work'[g] = work[g]
    BY <2>1 DEF TypeOK, TreeOK
  <2>3. SerialInv'
    BY <2>1, <2>2
  <2>4. RecordedIsIndexed'
    BY <2>1, <2>2
  <2>5. QED
    BY <2>3, <2>4
<1>3. ASSUME NEW S \in SUBSET Files, Commit(S)
      PROVE  SerialInv' /\ RecordedIsIndexed'
  BY <1>3 DEF Commit, db, graph, local
<1>4. QED
  BY <1>1, <1>2, <1>3

\* An ingest that runs disturbs no other.
LEMMA OthersStep ==
    ASSUME SerialAll, NEW w \in Workers, NEW v \in Workers \ {w},
           StartDelta(w) \/ ByHand(w) \/ Step(w) \/ Abort(w)
    PROVE  SerialPart(v)'
<1> USE DEF SerialAll
<1>1. UNCHANGED <<work, removed>>
  BY LeaveTree DEF tree
<1>2. SerialPart(v)
  BY DEF SerialInv
<1>3. CASE StartDelta(w) \/ ByHand(w)
  <2>1. UNCHANGED <<hashes, gitHead, node, syms, left, walked>>
    BY <1>3 DEF StartDelta, ByHand, PackUnchanged, PackChanged, db, graph
  <2>2. pc'[v] = pc[v] /\ head'[v] = head[v]
    BY <1>3 DEF StartDelta, ByHand, PackUnchanged, PackChanged, Goto, TypeOK,
                RunsOK
  <2>3. QED
    BY <1>1, <1>2, <2>1, <2>2 DEF SerialPart
<1>4. CASE Step(w) \/ Abort(w)
  <2>1. pc[w] # "idle"
    BY <1>4 DEF Step, GoCold, NoChanges, Changed, Detach, WalkSubset, WalkRepo,
                UpsertFiles, PruneSymbols, UpsertSymbols, Summarize,
                WriteSummaries, SplitChunks, WriteChunks, Record, SetPack,
                SetHead, Abort
  <2>2. pc[v] = "idle"
    BY <2>1 DEF OneAtATime
  <2>3. pc'[v] = pc[v] /\ left'[v] = left[v]
    BY <1>4 DEF Step, StageLeaves, GoCold, NoChanges, Changed, Detach,
                WalkSubset, WalkRepo, PackUnchanged, PackChanged, UpsertFiles,
                PruneSymbols, UpsertSymbols, Summarize, WriteSummaries,
                SplitChunks, WriteChunks, Record, SetPack, SetHead, Abort,
                Walk, Goto, Return, local, TypeOK, RunsOK
  <2>4. QED
    BY <1>1, <1>2, <2>2, <2>3 DEF SerialPart, HasWalked, HasFiles, HasSymbols
<1>5. QED
  BY <1>3, <1>4

\* An ingest that begins or ends writes nothing of the index.
LEMMA BeginStep ==
    ASSUME SerialAll, NEW w \in Workers,
           StartDelta(w) \/ ByHand(w) \/ GoCold(w) \/ NoChanges(w)
           \/ PackUnchanged(w) \/ PackChanged(w) \/ SetPack(w) \/ SetHead(w)
           \/ Abort(w)
    PROVE  SerialPart(w)' /\ RecordedIsIndexed'
<1> USE DEF SerialAll, TypeOK, RunsOK
<1>1. UNCHANGED <<work, removed, hashes, node, syms>>
  BY DEF StartDelta, ByHand, GoCold, NoChanges, PackUnchanged, PackChanged,
         SetPack, SetHead, Abort, tree, db, graph
<1>2. RecordedIsIndexed'
  BY <1>1 DEF RecordedIsIndexed, Indexed
<1>3. SerialPart(w)
  BY DEF SerialInv
<1>4. CASE StartDelta(w)
  <2>1. /\ pc'[w] = "detect" /\ head'[w] \in HeadRead
        /\ UNCHANGED <<left, gitHead, commits>>
    BY <1>4 DEF StartDelta, Goto, tree, db
  <2>2. head'[w] # 0 => gitHead' <= head'[w]
    BY <2>1 DEF HeadRead, DbOK
  <2>3. QED
    BY <1>1, <1>2, <1>3, <2>1, <2>2 DEF SerialPart, HasWalked, HasFiles, HasSymbols
<1>5. CASE ByHand(w) \/ GoCold(w) \/ PackUnchanged(w) \/ PackChanged(w)
  <2>1. pc'[w] \in {"idle", "cold", "services"} /\ left' = left
    BY <1>5 DEF ByHand, GoCold, PackUnchanged, PackChanged, Goto
  <2>2. QED
    BY <1>1, <1>2, <1>3, <2>1 DEF SerialPart, HasWalked, HasFiles, HasSymbols
<1>6. CASE NoChanges(w) \/ SetHead(w) \/ Abort(w)
  <2>1. pc'[w] = "idle" /\ left'[w] = Nothing
    BY <1>6 DEF NoChanges, SetHead, Abort, Return, Goto
  <2>2. QED
    BY <1>2, <2>1 DEF SerialPart, HasWalked, HasFiles, HasSymbols, Nothing
<1>7. CASE SetPack(w)
  <2>1. pc[w] = "pack" /\ pc'[w] = "head" /\ UNCHANGED <<left, walked>>
    BY <1>7 DEF SetPack, Goto, local
  <2>2. QED
    BY <1>1, <1>2, <1>3, <2>1 DEF SerialPart, HasWalked, HasFiles, HasSymbols
<1>8. QED
  BY <1>2, <1>4, <1>5, <1>6, <1>7

\* Of two different commits in order, the first is the earlier.
LEMMA Earlier ==
    ASSUME NEW n \in Nat, NEW i \in 0..n, NEW j \in 0..n,
           i # 0, j # 0, j # i, i <= j
    PROVE  i \in 1..n /\ j \in 1..n /\ i < j
  OBVIOUS

\* What a delta takes for deleted is deleted.
LEMMA DetectStep ==
    ASSUME SerialAll, NEW w \in Workers, Changed(w)
    PROVE  SerialPart(w)' /\ RecordedIsIndexed'
<1> USE DEF SerialAll, TypeOK, RunsOK
<1>1. UNCHANGED <<work, removed, hashes, node, syms>>
  BY DEF Changed, tree, db, graph
<1>2. RecordedIsIndexed'
  BY <1>1 DEF RecordedIsIndexed, Indexed
<1>3. pc[w] = "detect" /\ pc'[w] = "detach"
  BY DEF Changed, Goto
<1>4. PICK c \in Changes(w) \ {NoDiff} :
        left' = [left EXCEPT ![w] =
                   [f \in Files |-> IF f \in c.deleted THEN 3 ELSE 0]]
  BY DEF Changed
<1>5. ASSUME NEW f \in Files, f \in c.deleted PROVE f \in removed
  <2>1. CASE HeadMoved(w)
    <3>1. c \in GitDiffs(gitHead, head[w])
      BY <1>4, <2>1 DEF Changes
    <3>2. commits[gitHead][f] # 0 /\ commits[head[w]][f] = 0
      BY <1>5, <3>1 DEF GitDiffs, NoDiff
    <3>3. gitHead \in 1..HEAD /\ head[w] \in 1..HEAD /\ gitHead < head[w]
      <4>1. gitHead <= head[w]
        BY <1>3, <2>1 DEF SerialInv, SerialPart, HeadMoved
      <4>2. HEAD \in Nat
        BY DEF TreeOK, HEAD
      <4>3. gitHead \in 0..HEAD /\ head[w] \in 0..HEAD
        BY DEF DbOK
      <4>4. gitHead # 0 /\ head[w] # 0 /\ head[w] # gitHead
        BY <2>1 DEF HeadMoved
      <4>5. QED
        BY <4>1, <4>2, <4>3, <4>4, Earlier
    <3>4. QED
      BY <3>2, <3>3 DEF GoneInv
  <2>2. CASE ~HeadMoved(w)
    <3>1. hashes[f] # 0 /\ work[f] = 0
      BY <1>4, <1>5, <2>2 DEF Changes, HashDiff
    <3>2. QED
      BY <3>1 DEF GoneInv, Known
  <2>3. QED
    BY <2>1, <2>2
<1>6. \A f \in Files : left'[w][f] # 0 => f \in removed'
  BY <1>1, <1>4, <1>5
<1>7. QED
  BY <1>2, <1>3, <1>6 DEF SerialPart, HasWalked, HasFiles, HasSymbols

\* What is detached is gone, and a walk finds what is there.
LEMMA WalkStep ==
    ASSUME SerialAll, NEW w \in Workers,
           (\E f \in Files : Detach(w, f)) \/ WalkSubset(w) \/ WalkRepo(w)
    PROVE  SerialPart(w)' /\ RecordedIsIndexed'
<1> USE DEF SerialAll, TypeOK, RunsOK
<1>1. UNCHANGED <<work, removed, hashes>>
  BY DEF Detach, WalkSubset, WalkRepo, tree, db
<1>2. SerialPart(w)
  BY DEF SerialInv
<1>3. ASSUME NEW f \in Files, Detach(w, f)
      PROVE  SerialPart(w)' /\ RecordedIsIndexed'
  <2>1. work[f] = 0
    BY <1>2, <1>3 DEF Detach, SerialPart, GoneInv
  <2>2. \A g \in Files \ {f} : node'[g] = node[g] /\ syms'[g] = syms[g]
    BY <1>3 DEF Detach, GraphOK
  <2>3. RecordedIsIndexed'
    BY <1>1, <2>1, <2>2 DEF RecordedIsIndexed, Indexed
  <2>4. \A g \in Files : left'[w][g] # 0 => left[w][g] # 0
    BY <1>3 DEF Detach
  <2>5. pc'[w] = "detach"
    BY <1>3 DEF Detach
  <2>6. SerialPart(w)'
    BY <1>1, <1>2, <2>4, <2>5 DEF SerialPart, HasWalked, HasFiles, HasSymbols
  <2>7. QED
    BY <2>3, <2>6
<1>4. ASSUME WalkSubset(w) \/ WalkRepo(w)
      PROVE  SerialPart(w)' /\ RecordedIsIndexed'
  <2>1. UNCHANGED <<node, syms, left>>
    BY <1>4 DEF WalkSubset, WalkRepo, graph
  <2>2. RecordedIsIndexed'
    BY <1>1, <2>1 DEF RecordedIsIndexed, Indexed
  <2>3. PICK S : Walk(w, S)
    BY <1>4 DEF WalkSubset, WalkRepo
  <2>4. \A f \in Files : walked'[w][f] \in {0, work[f]}
    BY <2>3 DEF Walk
  <2>5. CASE walked'[w] = Nothing
    <3>1. pc'[w] = "record" /\ \A f \in Files : walked'[w][f] = 0
      BY <2>3, <2>5 DEF Walk, Goto, Nothing
    <3>2. QED
      BY <1>1, <1>2, <2>1, <2>2, <3>1 DEF SerialPart
  <2>6. CASE walked'[w] # Nothing
    <3>1. pc'[w] = "files"
      BY <2>3, <2>6 DEF Walk, Goto
    <3>2. QED
      BY <1>1, <1>2, <2>1, <2>2, <2>4, <3>1
      DEF SerialPart, HasFiles, HasSymbols
  <2>7. QED
    BY <2>5, <2>6
<1>5. QED
  BY <1>3, <1>4

\* The stages write what was walked, which is what is there or what has
\* changed since.
LEMMA StageStep ==
    ASSUME SerialAll, NEW w \in Workers,
           \/ UpsertFiles(w) \/ PruneSymbols(w) \/ UpsertSymbols(w)
           \/ Summarize(w) \/ WriteSummaries(w) \/ SplitChunks(w)
           \/ WriteChunks(w) \/ Record(w)
    PROVE  SerialPart(w)' /\ RecordedIsIndexed'
<1> USE DEF SerialAll, TypeOK, RunsOK, Over, RecordedIsIndexed, Indexed
<1>1. UNCHANGED <<work, removed, left, walked>>
  BY DEF UpsertFiles, PruneSymbols, UpsertSymbols, Summarize, WriteSummaries,
         SplitChunks, WriteChunks, Record, StageLeaves, tree, local
<1>2. SerialPart(w)
  BY DEF SerialInv
<1>3. ASSUME NEW f \in Files, pc[w] \in HasWalked, walked[w][f] # 0
      PROVE  /\ work[f] \in {0, walked[w][f]} \/ work[f] # hashes[f]
             /\ pc[w] \in HasFiles => node[f] = walked[w][f]
             /\ pc[w] \in HasSymbols => syms[f] = walked[w][f]
  BY <1>2, <1>3 DEF SerialPart
<1> USE DEF HasWalked, HasFiles, HasSymbols
<1>4. CASE UpsertFiles(w)
  <2>1. /\ pc[w] = "files" /\ pc'[w] = "prune"
        /\ \A f \in Files : node'[f] = IF walked[w][f] # 0 THEN walked[w][f]
                                         ELSE node[f]
        /\ UNCHANGED <<hashes, syms>>
    BY <1>4 DEF UpsertFiles, StageLeaves, db, Goto
  <2>2. RecordedIsIndexed'
    BY <1>1, <1>3, <2>1
  <2>3. SerialPart(w)'
    BY <1>1, <1>2, <1>3, <2>1 DEF SerialPart
  <2>4. QED
    BY <2>2, <2>3
<1>5. CASE PruneSymbols(w)
  <2>1. /\ pc[w] = "prune" /\ pc'[w] = "symbols"
        /\ \A f \in Files : walked[w][f] \in {0, syms[f]} => syms'[f] = syms[f]
        /\ UNCHANGED <<hashes, node>>
    BY <1>5 DEF PruneSymbols, StageLeaves, db, Goto
  <2>2. RecordedIsIndexed'
    BY <1>1, <1>3, <2>1
  <2>3. SerialPart(w)'
    BY <1>1, <1>2, <1>3, <2>1 DEF SerialPart
  <2>4. QED
    BY <2>2, <2>3
<1>6. CASE UpsertSymbols(w)
  <2>1. /\ pc[w] = "symbols" /\ pc'[w] \in {"summarize", "chunk", "record"}
        /\ \A f \in Files : syms'[f] = IF walked[w][f] # 0 THEN walked[w][f]
                                         ELSE syms[f]
        /\ UNCHANGED <<hashes, node>>
    BY <1>6 DEF UpsertSymbols, StageLeaves, db, Goto, After
  <2>2. RecordedIsIndexed'
    BY <1>1, <1>3, <2>1
  <2>3. SerialPart(w)'
    BY <1>1, <1>2, <1>3, <2>1 DEF SerialPart
  <2>4. QED
    BY <2>2, <2>3
<1>7. CASE Summarize(w) \/ WriteSummaries(w) \/ SplitChunks(w) \/ WriteChunks(w)
  <2>1. /\ pc[w] \in HasSymbols /\ pc'[w] \in HasSymbols
        /\ UNCHANGED <<hashes, node, syms>>
    BY <1>7 DEF Summarize, WriteSummaries, SplitChunks, WriteChunks,
                StageLeaves, db, graph, Goto, After
  <2>2. RecordedIsIndexed'
    BY <1>1, <2>1
  <2>3. SerialPart(w)'
    BY <1>1, <1>2, <2>1 DEF SerialPart
  <2>4. QED
    BY <2>2, <2>3
<1>8. CASE Record(w)
  <2>1. /\ pc[w] = "record" /\ pc'[w] \in {"pack", "head"}
        /\ \A f \in Files : hashes'[f] = IF walked[w][f] # 0 THEN walked[w][f]
                                           ELSE hashes[f]
        /\ UNCHANGED <<node, syms>>
    BY <1>8 DEF Record, graph, Goto
  <2>2. RecordedIsIndexed'
    BY <1>1, <1>3, <2>1
  <2>3. SerialPart(w)'
    BY <1>1, <1>2, <1>3, <2>1 DEF SerialPart
  <2>4. QED
    BY <2>2, <2>3
<1>9. QED
  BY <1>4, <1>5, <1>6, <1>7, <1>8

\* Nobody has begun.
LEMMA SerialInit == Init => SerialAll
<1>1. Init => TypeOK /\ FreshInv /\ GoneInv
  BY InitType, InitHistory
<1>2. Init => OneAtATime /\ SerialInv /\ RecordedIsIndexed
  <2> SUFFICES ASSUME Init PROVE OneAtATime /\ SerialInv /\ RecordedIsIndexed
    OBVIOUS
  <2>1. \A w \in Workers : pc[w] = "idle" /\ left[w] = Nothing
    BY DEF Init
  <2>2. hashes = Nothing
    BY DEF Init
  <2>3. QED
    BY <2>1, <2>2 DEF OneAtATime, SerialInv, SerialPart, RecordedIsIndexed,
                      Nothing, HasWalked, HasFiles, HasSymbols
<1>3. QED
  BY <1>1, <1>2 DEF SerialAll

\* A step keeps what one ingest at a time guarantees.
LEMMA SerialStep ==
    ASSUME ~Revert, ~Restore, SerialAll, [Next /\ OneAtATime']_vars
    PROVE  SerialAll'
<1>1. TypeOK' /\ FreshInv' /\ GoneInv'
  BY TypeStep, FreshStep, GoneStep DEF SerialAll
<1>2. OneAtATime'
  BY DEF SerialAll, OneAtATime, vars
<1>3. SerialInv' /\ RecordedIsIndexed'
  <2>1. CASE \/ \E f \in Files : Write(f) \/ Remove(f)
             \/ \E S \in SUBSET Files : Commit(S)
    BY <2>1, EditStep
  <2>2. ASSUME NEW w \in Workers,
               StartDelta(w) \/ ByHand(w) \/ Step(w) \/ Abort(w)
        PROVE  SerialInv' /\ RecordedIsIndexed'
    <3>1. SerialPart(w)' /\ RecordedIsIndexed'
      BY <2>2, BeginStep, DetectStep, WalkStep, StageStep DEF Step
    <3>2. QED
      BY <2>2, <3>1, OthersStep DEF SerialInv
  <2>3. CASE UNCHANGED vars
    BY <2>3 DEF vars, SerialAll, SerialInv, SerialPart, RecordedIsIndexed,
                Indexed
  <2>4. QED
    BY <2>1, <2>2, <2>3 DEF Next
<1>4. QED
  BY <1>1, <1>2, <1>3 DEF SerialAll

\* At every moment, and whatever was aborted where, a file whose present
\* content is recorded is indexed: ingests do not overlap, no file gets a
\* content it had before, and none comes back after it was deleted.
THEOREM RecordedIsIndexedHolds ==
    ASSUME ~Revert, ~Restore
    PROVE  SpecSerial => []RecordedIsIndexed
<1>1. SerialAll /\ [Next /\ OneAtATime']_vars => SerialAll'
  BY SerialStep
<1>2. SerialAll => RecordedIsIndexed
  BY DEF SerialAll
<1>3. QED
  BY SerialInit, <1>1, <1>2, PTL DEF SpecSerial

-----------------------------------------------------------------------------
(* The other safety properties.                                            *)

\* The steps of an ingest that is running afterwards or was before.
Runs(w) == StartDelta(w) \/ PackChanged(w) \/ Step(w) \/ Abort(w)

\* While one ingest takes a step the others are idle.
LEMMA OthersIdle ==
    ASSUME SerialAll, OneAtATime', NEW w \in Workers, NEW v \in Workers \ {w}, Runs(w)
    PROVE  pc'[v] = "idle"
<1>1. CASE StartDelta(w) \/ PackChanged(w)
  <2>1. pc'[w] \in {"detect", "services"}
    BY <1>1 DEF StartDelta, PackChanged, Goto, SerialAll, TypeOK, RunsOK
  <2>2. QED
    BY <2>1 DEF OneAtATime
<1>2. CASE Step(w) \/ Abort(w)
  <2>1. pc[w] # "idle"
    BY <1>2 DEF Step, GoCold, NoChanges, Changed, Detach, WalkSubset, WalkRepo,
                UpsertFiles, PruneSymbols, UpsertSymbols, Summarize,
                WriteSummaries, SplitChunks, WriteChunks, Record, SetPack,
                SetHead, Abort
  <2>2. pc[v] = "idle"
    BY <2>1 DEF OneAtATime, SerialAll
  <2>3. pc'[v] = pc[v]
    BY <1>2 DEF Step, GoCold, NoChanges, Changed, Detach,
                WalkSubset, WalkRepo, PackUnchanged, PackChanged, UpsertFiles,
                PruneSymbols, UpsertSymbols, Summarize, WriteSummaries,
                SplitChunks, WriteChunks, Record, SetPack, SetHead, Abort,
                Walk, Goto, Return, SerialAll, TypeOK, RunsOK
  <2>4. QED
    BY <2>2, <2>3
<1>3. QED
  BY <1>1, <1>2 DEF Runs

\* A full ingest that is skipped writes nothing at all.
LEMMA Skipped ==
    ASSUME TypeOK, NEW w \in Workers, PackUnchanged(w)
    PROVE  /\ UNCHANGED <<tree, db, graph, full, pack, walked, draft>>
           /\ pc' = [pc EXCEPT ![w] = "idle"]
  BY DEF PackUnchanged, Goto

\* Who takes a step.
LEMMA Actors ==
    ASSUME [Next]_vars
    PROVE  \/ \E f \in Files : Write(f) \/ Remove(f)
           \/ \E S \in SUBSET Files : Commit(S)
           \/ \E w \in Workers : Runs(w) \/ PackUnchanged(w)
           \/ UNCHANGED vars
  BY DEF Next, ByHand, Runs

\* What people do leaves the index and the ingests alone.
LEMMA EditsLeave ==
    ASSUME \/ \E f \in Files : Write(f) \/ Remove(f)
           \/ \E S \in SUBSET Files : Commit(S)
    PROVE  UNCHANGED <<hashes, gitHead, packSha, node, syms, summ, chunks, pc, full, skip,
                       pack, walked, draft>>
<1>1. ASSUME NEW f \in Files, Write(f) \/ Remove(f)
      PROVE  UNCHANGED <<db, graph, pc, local>>
  BY <1>1 DEF Write, Remove
<1>2. ASSUME NEW S \in SUBSET Files, Commit(S)
      PROVE  UNCHANGED <<db, graph, pc, local>>
  BY <1>2 DEF Commit
<1>3. QED
  BY <1>1, <1>2 DEF db, graph, local

\* A content changes to one that was never there, or to none.
LEMMA EditsMake ==
    ASSUME ~Revert, TypeOK, [Next]_vars
    PROVE  /\ clock' \in Nat /\ clock <= clock'
           /\ \A f \in Files : \/ work'[f] = work[f] \/ work'[f] = 0
                               \/ (work'[f] = clock + 1 /\ clock' = clock + 1)
<1>1. ASSUME NEW g \in Files, Write(g)
      PROVE  clock' = clock + 1 /\ work' = [work EXCEPT ![g] = clock + 1]
  BY <1>1 DEF Write
<1>2. ASSUME NEW g \in Files, Remove(g)
      PROVE  clock' = clock /\ work' = [work EXCEPT ![g] = 0]
  BY <1>2 DEF Remove
<1>3. ASSUME NEW S \in SUBSET Files, Commit(S) PROVE UNCHANGED <<clock, work>>
  BY <1>3 DEF Commit
<1>4. UNCHANGED tree => UNCHANGED <<clock, work>>
  BY DEF tree
<1>5. work \in [Files -> Nat] /\ clock \in Nat
  BY DEF TypeOK, TreeOK
<1>6. QED
  BY <1>1, <1>2, <1>3, <1>4, <1>5, TreeSteps

\* Where summaries, drafts and packs come from.
LEMMA TextSteps ==
    ASSUME TypeOK, NEW w \in Workers, Runs(w)
    PROVE  /\ \A f \in Files : summ'[f] \in {0, summ[f], draft[w][f]}
           /\ packSha' \in {packSha, pack[w]}
           /\ \A v \in Workers, f \in Files :
                 /\ draft'[v][f] \in {0, draft[v][f], work[f]}
                 /\ pack'[v][f] \in {0, pack[v][f], work[f]}
<1> USE DEF TypeOK, GraphOK, RunsOK
<1>1. CASE UNCHANGED <<summ, packSha, draft, pack>>
  BY <1>1
<1>2. CASE StartDelta(w) \/ GoCold(w) \/ Changed(w) \/ WalkSubset(w) \/ WalkRepo(w)
           \/ UpsertFiles(w) \/ PruneSymbols(w) \/ UpsertSymbols(w) \/ WriteChunks(w)
           \/ Record(w) \/ PackUnchanged(w)
  <2>1. UNCHANGED <<summ, packSha, draft, pack>>
    BY <1>2 DEF StartDelta, GoCold, Changed, WalkSubset, WalkRepo, UpsertFiles,
                PruneSymbols, UpsertSymbols, WriteChunks, Record, PackUnchanged,
                StageLeaves, db, graph, local
  <2>2. QED
    BY <1>1, <2>1
<1>3. CASE NoChanges(w) \/ SetHead(w) \/ Abort(w)
  <2>1. /\ UNCHANGED <<summ, packSha>>
        /\ draft' = [draft EXCEPT ![w] = Nothing] /\ pack' = [pack EXCEPT ![w] = Nothing]
    BY <1>3 DEF NoChanges, SetHead, Abort, Return, db, graph
  <2>2. QED
    BY <2>1 DEF Nothing
<1>4. ASSUME NEW f \in Files, Detach(w, f)
      PROVE  /\ \A g \in Files : summ'[g] \in {0, summ[g]}
             /\ UNCHANGED <<packSha, draft, pack>>
  BY <1>4 DEF Detach, db
<1>5. CASE PackChanged(w)
  <2>1. UNCHANGED <<summ, packSha, draft>> /\ pack' = [pack EXCEPT ![w] = Packed]
    BY <1>5 DEF PackChanged, db, graph
  <2>2. QED
    BY <2>1 DEF Packed
<1>6. CASE Summarize(w)
  <2>1. UNCHANGED <<summ, packSha, pack>>
    BY <1>6 DEF Summarize, StageLeaves, db, graph
  <2>2. PICK done : draft' = [draft EXCEPT ![w] =
                       [f \in Files |-> IF f \in done THEN work[f] ELSE 0]]
    BY <1>6 DEF Summarize
  <2>3. QED
    BY <2>1, <2>2
<1>7. CASE SplitChunks(w)
  <2>1. UNCHANGED <<summ, packSha, pack>>
    BY <1>7 DEF SplitChunks, StageLeaves, db
  <2>2. draft' = [draft EXCEPT ![w] =
           [f \in Files |-> IF walked[w][f] = 0 \/ work[f] \in Chunkless THEN 0 ELSE work[f]]]
    BY <1>7 DEF SplitChunks
  <2>3. QED
    BY <2>1, <2>2
<1>8. CASE WriteSummaries(w)
  <2>1. UNCHANGED <<packSha, draft, pack>>
    BY <1>8 DEF WriteSummaries, StageLeaves, db
  <2>2. \A f \in Files : summ'[f] \in {summ[f], draft[w][f]}
    BY <1>8 DEF WriteSummaries, Over
  <2>3. QED
    BY <2>1, <2>2
<1>9. CASE SetPack(w)
  BY <1>9 DEF SetPack, graph, local
<1>10. QED
  BY <1>2, <1>3, <1>4, <1>5, <1>6, <1>7, <1>8, <1>9 DEF Runs, Step

\* So these too are never newer than the clock.
LEMMA TextFreshStep ==
    ASSUME ~Revert, TypeOK, FreshInv, TextFresh, [Next]_vars
    PROVE  TextFresh'
<1>0. clock \in Nat /\ clock' \in Nat /\ clock <= clock'
  BY EditsMake DEF TypeOK, TreeOK
<1>t. /\ packSha \in [Files -> Nat] \cup {NoPack}
      /\ \A f \in Files : /\ summ[f] \in Nat /\ work[f] \in Nat
                          /\ \A w \in Workers : draft[w][f] \in Nat /\ pack[w][f] \in Nat
  BY DEF TypeOK, TreeOK, DbOK, GraphOK, RunsOK
<1>f. \A f \in Files : /\ summ[f] <= clock /\ work[f] <= clock
                       /\ packSha # NoPack => packSha[f] <= clock
                       /\ \A w \in Workers : draft[w][f] <= clock /\ pack[w][f] <= clock
  BY DEF TextFresh, FreshInv
<1>n. \A n \in Nat : n <= clock => n <= clock'
  BY <1>0
<1>1. ASSUME UNCHANGED <<summ, packSha, draft, pack>> PROVE TextFresh'
  BY <1>1, <1>t, <1>f, <1>n DEF TextFresh
<1>2. ASSUME NEW w \in Workers, Runs(w) PROVE TextFresh'
  <2>0. 0 <= clock
    BY <1>0
  <2>1. ASSUME NEW f \in Files, packSha' # NoPack PROVE packSha'[f] <= clock'
    <3>1. packSha' \in {packSha, pack[w]}
      BY <1>2, TextSteps
    <3>2. packSha'[f] \in Nat /\ packSha'[f] <= clock
      BY <1>t, <1>f, <2>1, <3>1
    <3>3. QED
      BY <1>n, <3>2
  <2>2. ASSUME NEW f \in Files PROVE summ'[f] <= clock'
    <3>1. summ'[f] \in {0, summ[f], draft[w][f]}
      BY <1>2, TextSteps
    <3>2. summ'[f] \in Nat /\ summ'[f] <= clock
      BY <1>t, <1>f, <2>0, <3>1
    <3>3. QED
      BY <1>n, <3>2
  <2>3. ASSUME NEW f \in Files, NEW v \in Workers
        PROVE  draft'[v][f] <= clock' /\ pack'[v][f] <= clock'
    <3>1. /\ draft'[v][f] \in {0, draft[v][f], work[f]}
          /\ pack'[v][f] \in {0, pack[v][f], work[f]}
      BY <1>2, TextSteps
    <3>2. draft'[v][f] \in Nat /\ draft'[v][f] <= clock
      BY <1>t, <1>f, <2>0, <3>1
    <3>3. pack'[v][f] \in Nat /\ pack'[v][f] <= clock
      BY <1>t, <1>f, <2>0, <3>1
    <3>4. QED
      BY <1>n, <3>2, <3>3
  <2>4. QED
    BY <2>1, <2>2, <2>3 DEF TextFresh
<1>3. ASSUME NEW w \in Workers, PackUnchanged(w) PROVE TextFresh'
  BY <1>1, <1>3, Skipped DEF db, graph
<1>4. UNCHANGED vars => UNCHANGED <<summ, packSha, draft, pack>>
  BY DEF vars
<1>5. QED
  BY <1>1, <1>2, <1>3, <1>4, Actors, EditsLeave

\* Settings are chosen once.
LEMMA SkipStep ==
    ASSUME TypeOK, SkipInv, [Next]_vars
    PROVE  SkipInv'
<1> USE DEF TypeOK, RunsOK
<1>1. ASSUME NEW w \in Workers, Runs(w) \/ PackUnchanged(w)
      PROVE  \E s \in Skips \cup {{}} : skip' = skip \/ skip' = [skip EXCEPT ![w] = s]
  <2>1. CASE StartDelta(w)
    BY <2>1 DEF StartDelta
  <2>2. CASE PackChanged(w)
    BY <2>2 DEF PackChanged
  <2>3. CASE PackUnchanged(w) \/ NoChanges(w) \/ SetHead(w) \/ Abort(w)
    <3>1. skip' = [skip EXCEPT ![w] = {}]
      BY <2>3 DEF PackUnchanged, NoChanges, SetHead, Abort, Return
    <3>2. QED
      BY <3>1
  <2>4. CASE \/ GoCold(w) \/ Changed(w) \/ WalkSubset(w) \/ WalkRepo(w)
             \/ \E f \in Files : Detach(w, f)
    BY <2>4 DEF GoCold, Changed, WalkSubset, WalkRepo, Detach
  <2>5. CASE \/ UpsertFiles(w) \/ PruneSymbols(w) \/ UpsertSymbols(w) \/ Summarize(w)
             \/ WriteSummaries(w) \/ SplitChunks(w) \/ WriteChunks(w)
             \/ Record(w) \/ SetPack(w)
    BY <2>5 DEF UpsertFiles, PruneSymbols, UpsertSymbols, Summarize, WriteSummaries,
                SplitChunks, WriteChunks, Record, SetPack, StageLeaves, local
  <2>6. QED
    BY <1>1, <2>1, <2>2, <2>3, <2>4, <2>5 DEF Runs, Step
<1>2. UNCHANGED vars => UNCHANGED skip
  BY DEF vars
<1>3. QED
  BY <1>1, <1>2, Actors, EditsLeave DEF SkipInv

\* An ingest that is idle has nothing to prove.
LEMMA IdlePack ==
    ASSUME NEW v \in Workers, PackPart(v), pc'[v] = "idle", full'[v] = full[v], pc[v] = "idle"
    PROVE  PackPart(v)'
  BY DEF PackPart, Unrecorded, HasWalked, HasFiles, HasSymbols

\* The flag of a full ingest is its own.
LEMMA FullStep ==
    ASSUME TypeOK, NEW w \in Workers, Runs(w)
    PROVE  /\ \A v \in Workers \ {w} : full'[v] = full[v] /\ pc'[v] = pc[v]
           /\ \/ full'[w] = full[w]
              \/ full'[w] = TRUE /\ pc'[w] = "services"
              \/ full'[w] = FALSE /\ pc'[w] = "idle"
<1> USE DEF TypeOK, RunsOK
<1>1. CASE StartDelta(w) \/ GoCold(w) \/ Changed(w) \/ (\E f \in Files : Detach(w, f))
           \/ WalkSubset(w) \/ WalkRepo(w) \/ PackUnchanged(w)
  BY <1>1 DEF StartDelta, GoCold, Changed, Detach, WalkSubset, WalkRepo, PackUnchanged,
              Walk, Goto
<1>2. CASE NoChanges(w) \/ SetHead(w) \/ Abort(w)
  <2>1. full' = [full EXCEPT ![w] = FALSE] /\ pc' = [pc EXCEPT ![w] = "idle"]
    BY <1>2 DEF NoChanges, SetHead, Abort, Return, Goto
  <2>2. QED
    BY <2>1
<1>3. CASE PackChanged(w)
  <2>1. full' = [full EXCEPT ![w] = TRUE] /\ pc' = [pc EXCEPT ![w] = "services"]
    BY <1>3 DEF PackChanged, Goto
  <2>2. QED
    BY <2>1
<1>4. CASE \/ UpsertFiles(w) \/ PruneSymbols(w) \/ UpsertSymbols(w) \/ Summarize(w)
           \/ WriteSummaries(w) \/ SplitChunks(w) \/ WriteChunks(w)
           \/ Record(w) \/ SetPack(w)
  <2>1. full' = full /\ \E p : pc' = [pc EXCEPT ![w] = p]
    BY <1>4 DEF UpsertFiles, PruneSymbols, UpsertSymbols, Summarize, WriteSummaries,
                SplitChunks, WriteChunks, Record, SetPack, StageLeaves, local, Goto
  <2>2. QED
    BY <2>1
<1>5. QED
  BY <1>1, <1>2, <1>3, <1>4 DEF Runs, Step

\* What a file is recorded with is what was walked, if that is still there.
LEMMA RecordsPresent ==
    ASSUME SerialAll, NEW w \in Workers, Record(w), NEW f \in Files, work[f] # 0
    PROVE  /\ hashes[f] = work[f] => hashes'[f] = work[f]
           /\ walked[w][f] = work[f] => hashes'[f] = work[f]
           /\ hashes'[f] = work[f] => hashes[f] = work[f] \/ walked[w][f] = work[f]
<1>1. pc[w] = "record" /\ hashes'[f] = IF walked[w][f] # 0 THEN walked[w][f] ELSE hashes[f]
  BY DEF Record, Over
<1>2. walked[w][f] # 0 => work[f] \in {0, walked[w][f]} \/ work[f] # hashes[f]
  BY <1>1 DEF SerialAll, SerialInv, SerialPart, HasWalked, HasFiles, HasSymbols
<1>3. QED
  BY <1>1, <1>2

\* The pack stands for what is recorded.
LEMMA PackStep ==
    ASSUME ~Revert, \A s \in Skips : "symbols" \notin s,
           SerialAll, OneAtATime', TextFresh, SkipInv, PackInv, [Next]_vars
    PROVE  PackInv'
<1>0. TypeOK
  BY DEF SerialAll
<1> DEFINE Kept(f) == packSha # NoPack /\ work[f] # 0 /\ packSha[f] = work[f] => hashes[f] = work[f]
<1>1. (\A f \in Files \ Ignored : Kept(f)) /\ \A w \in Workers : PackPart(w)
  BY DEF PackInv
<1>2. ASSUME UNCHANGED <<hashes, packSha, pc, full, pack, walked>>,
             \A f \in Files : work'[f] = work[f] \/ work'[f] = 0 \/ work'[f] = clock + 1
      PROVE  PackInv'
  <2>1. clock \in Nat
    BY <1>0 DEF TypeOK, TreeOK
  <2>2. ASSUME NEW f \in Files \ Ignored PROVE Kept(f)'
    <3>1. packSha # NoPack => packSha[f] \in Nat /\ packSha[f] <= clock
      BY <1>0 DEF TextFresh, TypeOK, DbOK
    <3>2. QED
      BY <1>1, <1>2, <2>1, <3>1
  <2>3. ASSUME NEW w \in Workers, NEW f \in Files \ Ignored,
               full[w], work'[f] # 0, pack[w][f] = work'[f]
        PROVE  work'[f] = work[f]
    <3>1. pack[w][f] \in Nat /\ pack[w][f] <= clock
      BY <1>0 DEF TextFresh, TypeOK, RunsOK
    <3>2. QED
      BY <1>2, <2>1, <2>3, <3>1
  <2>4. ASSUME NEW w \in Workers PROVE PackPart(w)'
    BY <1>1, <1>2, <2>3 DEF PackPart
  <2>5. QED
    BY <2>2, <2>4 DEF PackInv
<1>3. CASE \/ \E f \in Files : Write(f) \/ Remove(f)
           \/ \E S \in SUBSET Files : Commit(S)
  <2>1. UNCHANGED <<hashes, packSha, pc, full, pack, walked>>
    BY <1>3, EditsLeave
  <2>2. \A f \in Files : work'[f] = work[f] \/ work'[f] = 0 \/ work'[f] = clock + 1
    BY <1>0, EditsMake
  <2>3. QED
    BY <1>2, <2>1, <2>2
<1>4. ASSUME UNCHANGED vars PROVE PackInv'
  BY <1>2, <1>4 DEF vars
<1>5. ASSUME NEW w \in Workers, PackUnchanged(w) PROVE PackInv'
  <2>1. UNCHANGED <<work, hashes, packSha, full, pack, walked>>
        /\ pc' = [pc EXCEPT ![w] = "idle"]
    BY <1>0, <1>5, Skipped DEF tree, db
  <2>2. ASSUME NEW v \in Workers PROVE PackPart(v)'
    <3>1. CASE v = w
      <4>1. pc'[v] = "idle" /\ ~full[v]
        BY <1>0, <1>1, <1>5, <2>1, <3>1 DEF PackPart, PackUnchanged, Begins, TypeOK, RunsOK
      <4>2. QED
        BY <2>1, <4>1 DEF PackPart
    <3>2. CASE v # w
      <4>1. pc'[v] = pc[v]
        BY <1>0, <2>1, <3>2 DEF TypeOK, RunsOK
      <4>2. QED
        BY <1>1, <2>1, <4>1 DEF PackPart
    <3>3. QED
      BY <3>1, <3>2
  <2>3. QED
    BY <1>1, <2>1, <2>2 DEF PackInv
<1>6. ASSUME NEW w \in Workers, Runs(w) PROVE PackInv'
  <2>0. PackPart(w)
    BY <1>1
  <2>1. UNCHANGED work
    BY <1>6, LeaveTree DEF Runs, ByHand, PackChanged, tree
  <2>2. ASSUME NEW v \in Workers \ {w} PROVE PackPart(v)'
    <3>1. pc'[v] = "idle" /\ full'[v] = full[v] /\ pc[v] = "idle"
      BY <1>0, <1>6, OthersIdle, FullStep
    <3>2. PackPart(v)
      BY <1>1
    <3>3. QED
      BY <3>1, <3>2, IdlePack
  <2>3. ASSUME UNCHANGED <<hashes, packSha>>,
               pc'[w] \in {"idle", "detect", "cold", "detach"} => ~full'[w],
               pc'[w] \notin Unrecorded \cup {"pack"}
        PROVE  PackInv'
    <3>1. PackPart(w)'
      BY <2>3 DEF PackPart
    <3>2. \A f \in Files \ Ignored : Kept(f)'
      BY <1>1, <2>1, <2>3
    <3>3. QED
      BY <2>2, <3>1, <3>2 DEF PackInv
  <2>4. CASE StartDelta(w) \/ GoCold(w) \/ Changed(w) \/ (\E f \in Files : Detach(w, f))
    <3>1. /\ UNCHANGED <<hashes, packSha, full>>
          /\ pc[w] \in {"idle", "detect", "cold", "detach"}
          /\ pc'[w] \in {"detect", "cold", "detach"}
      BY <1>0, <2>4 DEF StartDelta, GoCold, Changed, Detach, db, Goto, TypeOK, RunsOK
    <3>2. QED
      BY <2>0, <2>3, <3>1 DEF PackPart, Unrecorded, HasWalked, HasFiles, HasSymbols
  <2>5. CASE NoChanges(w) \/ SetHead(w) \/ Abort(w)
    <3>1. UNCHANGED <<hashes, packSha>> /\ pc'[w] = "idle" /\ full'[w] = FALSE
      BY <1>0, <2>5 DEF NoChanges, SetHead, Abort, Return, Goto, db, TypeOK, RunsOK
    <3>2. QED
      BY <2>3, <3>1 DEF Unrecorded, HasWalked, HasFiles, HasSymbols
  <2>6. CASE PackChanged(w)
    <3>1. UNCHANGED <<hashes, packSha>> /\ pc'[w] = "services"
      BY <1>0, <2>6 DEF PackChanged, Goto, db, TypeOK, RunsOK
    <3>2. QED
      BY <2>3, <3>1 DEF Unrecorded, HasWalked, HasFiles, HasSymbols
  <2>7. CASE PackUnchanged(w)
    BY <1>5, <2>7
  <2>8. CASE WalkSubset(w)
    <3>1. /\ UNCHANGED <<hashes, packSha, full, pack>> /\ pc[w] = "detach"
          /\ pc'[w] \in {"files", "record"}
      BY <1>0, <2>8 DEF WalkSubset, Walk, Goto, db, TypeOK, RunsOK
    <3>2. ~full'[w]
      BY <2>0, <3>1 DEF PackPart
    <3>3. PackPart(w)'
      BY <3>1, <3>2 DEF PackPart
    <3>4. QED
      BY <1>1, <2>1, <2>2, <3>1, <3>3 DEF PackInv
  <2>9. CASE WalkRepo(w)
    <3>1. /\ UNCHANGED <<hashes, packSha, full, pack>>
          /\ pc'[w] \in {"files", "record"}
      BY <1>0, <2>9 DEF WalkRepo, Walk, Goto, db, TypeOK, RunsOK
    <3>2. "symbols" \notin skip[w]
      BY DEF SkipInv
    <3>3. \A f \in Files \ Ignored : walked'[w][f] = work[f]
      <4>1. Walk(w, Files)
        BY <2>9, <3>2 DEF WalkRepo
      <4>2. PICK I \in LeftOut : walked' = [walked EXCEPT ![w] =
                       [f \in Files |-> IF f \in Files \ I THEN work[f] ELSE 0]]
        BY <4>1 DEF Walk
      <4>3. I \subseteq Ignored
        BY DEF LeftOut
      <4>4. QED
        BY <1>0, <4>2, <4>3 DEF TypeOK, RunsOK
    <3>4. PackPart(w)'
      BY <2>1, <3>1, <3>3 DEF PackPart
    <3>5. QED
      BY <1>1, <2>1, <2>2, <3>1, <3>4 DEF PackInv
  <2>10. CASE \/ UpsertFiles(w) \/ PruneSymbols(w) \/ UpsertSymbols(w) \/ Summarize(w)
              \/ WriteSummaries(w) \/ SplitChunks(w) \/ WriteChunks(w)
    <3>1. /\ UNCHANGED <<hashes, packSha, full, pack, walked>>
          /\ pc[w] \in Unrecorded /\ pc'[w] \in Unrecorded
      BY <1>0, <2>10
      DEF UpsertFiles, PruneSymbols, UpsertSymbols, Summarize, WriteSummaries,
          SplitChunks, WriteChunks, StageLeaves, db, Goto, After, TypeOK, RunsOK,
          Unrecorded, HasWalked, HasFiles, HasSymbols
    <3>2. PackPart(w)'
      BY <2>0, <2>1, <3>1 DEF PackPart, Unrecorded, HasWalked, HasFiles, HasSymbols
    <3>3. QED
      BY <1>1, <2>1, <2>2, <3>1, <3>2 DEF PackInv
  <2>11. CASE Record(w)
    <3>1. /\ UNCHANGED <<packSha, full, pack, walked>>
          /\ pc[w] = "record" /\ pc'[w] = IF full[w] THEN "pack" ELSE "head"
      BY <1>0, <2>11 DEF Record, Goto, local, TypeOK, RunsOK
    <3>2. ASSUME NEW f \in Files \ Ignored PROVE Kept(f)'
      BY <1>1, <2>1, <2>11, <3>1, RecordsPresent
    <3>3. ASSUME NEW f \in Files \ Ignored, full[w], work[f] # 0, pack[w][f] = work[f]
          PROVE  hashes'[f] = work[f]
      <4>1. walked[w][f] = work[f]
        BY <2>0, <3>1, <3>3 DEF PackPart, Unrecorded, HasWalked, HasFiles, HasSymbols
      <4>2. QED
        BY <2>11, <3>3, <4>1, RecordsPresent
    <3>4. PackPart(w)'
      BY <2>1, <3>1, <3>3 DEF PackPart, Unrecorded
    <3>5. QED
      BY <2>2, <3>2, <3>4 DEF PackInv
  <2>12. CASE SetPack(w)
    <3>1. /\ UNCHANGED <<hashes, full>> /\ packSha' = pack[w]
          /\ pc[w] = "pack" /\ pc'[w] = "head"
      BY <1>0, <2>12 DEF SetPack, Goto, local, TypeOK, RunsOK
    <3>2. \A f \in Files \ Ignored : Kept(f)'
      BY <2>0, <2>1, <3>1 DEF PackPart
    <3>3. PackPart(w)'
      BY <3>1 DEF PackPart, Unrecorded
    <3>4. QED
      BY <2>2, <3>2, <3>3 DEF PackInv
  <2>13. QED
    BY <1>6, <2>4, <2>5, <2>6, <2>7, <2>8, <2>9, <2>10, <2>11, <2>12 DEF Runs, Step
<1>7. QED
  BY <1>3, <1>4, <1>5, <1>6, Actors

\* Where the summaries of an ingest come from, and where they go.
LEMMA SummarySteps ==
    ASSUME TypeOK, NEW w \in Workers, Runs(w)
    PROVE  \/ Summarize(w)
           \/ WriteSummaries(w)
           \/ \E f \in Files : Detach(w, f)
           \/ UNCHANGED summ /\ pc'[w] # "summaries"
<1> USE DEF TypeOK, RunsOK
<1>1. CASE \/ StartDelta(w) \/ GoCold(w) \/ Changed(w) \/ WalkSubset(w) \/ WalkRepo(w)
           \/ PackUnchanged(w) \/ PackChanged(w)
  BY <1>1 DEF StartDelta, GoCold, Changed, WalkSubset, WalkRepo, PackUnchanged, PackChanged,
              Walk, Goto, graph
<1>2. CASE NoChanges(w) \/ SetHead(w) \/ Abort(w)
  <2>1. UNCHANGED summ /\ pc' = [pc EXCEPT ![w] = "idle"]
    BY <1>2 DEF NoChanges, SetHead, Abort, Return, Goto, graph
  <2>2. QED
    BY <2>1
<1>3. CASE \/ UpsertFiles(w) \/ PruneSymbols(w) \/ UpsertSymbols(w) \/ SplitChunks(w)
           \/ WriteChunks(w) \/ Record(w) \/ SetPack(w)
  <2>1. UNCHANGED summ
    BY <1>3 DEF UpsertFiles, PruneSymbols, UpsertSymbols, SplitChunks, WriteChunks, Record,
                SetPack, StageLeaves, graph
  <2>2. \E q \in {"prune", "symbols", "summarize", "chunk", "chunks", "record", "pack", "head"} :
           pc' = [pc EXCEPT ![w] = q]
    BY <1>3 DEF UpsertFiles, PruneSymbols, UpsertSymbols, SplitChunks, WriteChunks, Record,
                SetPack, Goto, After
  <2>3. QED
    BY <2>1, <2>2
<1>4. QED
  BY <1>1, <1>2, <1>3 DEF Runs, Step

\* What the model is given is what is there when it is asked.
LEMMA Drafted ==
    ASSUME TypeOK, NEW w \in Workers, Summarize(w)
    PROVE  /\ UNCHANGED <<work, hashes, summ, walked>>
           /\ pc[w] = "summarize" /\ pc'[w] = "summaries"
           /\ \A f \in Files : /\ draft'[w][f] \in {0, work[f]}
                               /\ draft'[w][f] # 0 => walked[w][f] # 0
           /\ ~LlmMayFail => \A f \in Files : NeedsSummary(w, f) => draft'[w][f] = work[f]
<1>a. PICK todo \in ToSummarize(w) :
         \E done \in IF LlmMayFail THEN SUBSET todo ELSE {todo} :
            draft' = [draft EXCEPT ![w] = [f \in Files |-> IF f \in done THEN work[f] ELSE 0]]
  BY DEF Summarize
<1>b. PICK done \in IF LlmMayFail THEN SUBSET todo ELSE {todo} :
         draft' = [draft EXCEPT ![w] = [f \in Files |-> IF f \in done THEN work[f] ELSE 0]]
  BY <1>a
<1>c. /\ {f \in Files : NeedsSummary(w, f)} \subseteq todo
      /\ todo \subseteq {f \in Files : walked[w][f] # 0}
  BY <1>a DEF ToSummarize, NeedsSummary
<1>1. /\ draft' = [draft EXCEPT ![w] = [f \in Files |-> IF f \in done THEN work[f] ELSE 0]]
      /\ done \subseteq {f \in Files : walked[w][f] # 0}
      /\ ~LlmMayFail => {f \in Files : NeedsSummary(w, f)} \subseteq done
  BY <1>b, <1>c
<1>2. \A f \in Files : draft'[w][f] = IF f \in done THEN work[f] ELSE 0
  BY <1>1 DEF TypeOK, RunsOK
<1>3. \A f \in done : walked[w][f] # 0
  BY <1>1
<1>4. UNCHANGED <<work, hashes, summ, walked>> /\ pc[w] = "summarize" /\ pc'[w] = "summaries"
  BY DEF Summarize, StageLeaves, tree, db, graph, Goto, TypeOK, RunsOK
<1>5. QED
  BY <1>1, <1>2, <1>3, <1>4

\* Summaries are in the order of the contents.
LEMMA SummaryStep ==
    ASSUME ~Revert, SerialAll, OneAtATime', TextFresh, SummaryInv, [Next]_vars
    PROVE  SummaryInv'
<1>0. TypeOK /\ clock \in Nat
  BY DEF SerialAll, TypeOK, TreeOK
<1> USE DEF SummaryInv, SummaryPart
<1>1. ASSUME UNCHANGED <<summ, pc, draft>>,
             \A f \in Files : work'[f] = work[f] \/ work'[f] = 0 \/ work'[f] = clock + 1
      PROVE  SummaryInv'
  <2>1. \A f \in Files : /\ summ[f] \in Nat /\ summ[f] <= clock
                         /\ \A w \in Workers : draft[w][f] \in Nat /\ draft[w][f] <= clock
    BY <1>0 DEF TextFresh, TypeOK, GraphOK, RunsOK
  <2>2. QED
    BY <1>0, <1>1, <2>1
<1>2. CASE \/ \E f \in Files : Write(f) \/ Remove(f)
           \/ \E S \in SUBSET Files : Commit(S)
  <2>1. UNCHANGED <<summ, pc, draft>>
    BY <1>2, EditsLeave
  <2>2. \A f \in Files : work'[f] = work[f] \/ work'[f] = 0 \/ work'[f] = clock + 1
    BY <1>0, EditsMake
  <2>3. QED
    BY <1>1, <2>1, <2>2
<1>3. ASSUME UNCHANGED vars PROVE SummaryInv'
  BY <1>1, <1>3 DEF vars
<1>4. ASSUME NEW w \in Workers, PackUnchanged(w) PROVE SummaryInv'
  <2>1. UNCHANGED <<work, summ, draft>> /\ pc' = [pc EXCEPT ![w] = "idle"]
    BY <1>0, <1>4, Skipped DEF tree, graph
  <2>2. \A v \in Workers : pc'[v] = "summaries" => pc[v] = "summaries"
    BY <1>0, <2>1 DEF TypeOK, RunsOK
  <2>3. QED
    BY <2>1, <2>2
<1>5. ASSUME NEW w \in Workers, Runs(w) PROVE SummaryInv'
  <2>1. UNCHANGED work
    BY <1>5, LeaveTree DEF Runs, ByHand, PackChanged, tree
  <2>2. \A v \in Workers \ {w} : pc'[v] = "idle"
    BY <1>5, OthersIdle
  <2>3. ASSUME pc'[w] # "summaries",
               \A f \in Files : work[f] # 0 => summ'[f] <= work[f]
        PROVE  SummaryInv'
    BY <2>1, <2>2, <2>3
  <2>4. CASE Summarize(w)
    <3>1. UNCHANGED summ /\ \A f \in Files : draft'[w][f] \in {0, work[f]}
      BY <1>0, <2>4, Drafted
    <3>2. \A f \in Files : work[f] \in Nat
      BY <1>0 DEF TypeOK, TreeOK
    <3>3. QED
      BY <2>1, <2>2, <3>1, <3>2
  <2>5. CASE WriteSummaries(w)
    <3>1. /\ pc[w] = "summaries"
          /\ \A f \in Files : summ'[f] = summ[f] \/ (draft[w][f] # 0 /\ summ'[f] = draft[w][f])
      BY <2>5 DEF WriteSummaries, Over
    <3>2. pc'[w] # "summaries"
      BY <1>0, <2>5 DEF WriteSummaries, Goto, After, TypeOK, RunsOK
    <3>3. QED
      BY <2>3, <3>1, <3>2
  <2>6. CASE \E f \in Files : Detach(w, f)
    <3>1. pc'[w] = "detach" /\ \A f \in Files : summ'[f] \in {0, summ[f]}
      BY <1>0, <2>6 DEF Detach, TypeOK, GraphOK
    <3>2. \A f \in Files : 0 <= work[f]
      BY <1>0 DEF TypeOK, TreeOK
    <3>3. QED
      BY <2>3, <3>1, <3>2
  <2>7. CASE UNCHANGED summ /\ pc'[w] # "summaries"
    BY <2>3, <2>7
  <2>8. QED
    BY <1>0, <1>5, <2>4, <2>5, <2>6, <2>7, SummarySteps
<1>6. QED
  BY <1>2, <1>3, <1>4, <1>5, Actors

\* A summary gives way to a newer one, or goes with the node.
LEMMA SummaryGives ==
    ASSUME SerialAll, SummaryInv, [Next]_vars
    PROVE  \A f \in Files : summ[f] # 0 => summ'[f] >= summ[f] \/ node'[f] = 0
<1>0. TypeOK /\ summ \in [Files -> Nat] /\ node \in [Files -> Nat]
  BY DEF SerialAll, TypeOK, GraphOK
<1>1. CASE UNCHANGED summ
  BY <1>0, <1>1
<1>2. ASSUME NEW w \in Workers, WriteSummaries(w), NEW f \in Files
      PROVE  summ'[f] >= summ[f]
  <2>1. /\ pc[w] = "summaries"
        /\ summ'[f] = summ[f] \/ (draft[w][f] # 0 /\ summ'[f] = draft[w][f])
    BY <1>2 DEF WriteSummaries, Over
  <2>2. draft[w][f] # 0 => summ[f] <= draft[w][f]
    BY <2>1 DEF SummaryInv, SummaryPart
  <2>3. draft[w][f] \in Nat /\ summ[f] \in Nat
    BY <1>0 DEF TypeOK, RunsOK
  <2>4. QED
    BY <2>1, <2>2, <2>3
<1>3. ASSUME NEW w \in Workers, NEW g \in Files, Detach(w, g), NEW f \in Files
      PROVE  summ'[f] = summ[f] \/ node'[f] = 0
  <2>1. \/ UNCHANGED summ
        \/ summ' = [summ EXCEPT ![g] = 0] /\ node' = [node EXCEPT ![g] = 0]
    BY <1>3 DEF Detach
  <2>2. QED
    BY <1>0, <2>1
<1>4. ASSUME NEW w \in Workers, Summarize(w) PROVE UNCHANGED summ
  BY <1>4 DEF Summarize, graph
<1>5. ASSUME NEW w \in Workers, PackUnchanged(w) PROVE UNCHANGED summ
  BY <1>5 DEF PackUnchanged, graph
<1>6. UNCHANGED vars => UNCHANGED summ
  BY DEF vars
<1>7. \A f \in Files : summ[f] >= summ[f]
  BY <1>0
<1>8. QED
  BY <1>0, <1>1, <1>2, <1>3, <1>4, <1>5, <1>6, <1>7, Actors, EditsLeave, SummarySteps

\* A recorded content that is there is the one an ingest has walked, if any.
LEMMA RecordedWalked ==
    ASSUME SerialAll, NEW w \in Workers, pc[w] \in HasWalked, NEW f \in Files,
           work[f] # 0, hashes[f] = work[f], walked[w][f] # 0
    PROVE  walked[w][f] = work[f]
  BY DEF SerialAll, SerialInv, SerialPart

\* Nothing left out, no failure, nothing without chunks: what is recorded has
\* its text.
LEMMA TextStep ==
    ASSUME ~Revert, ~LlmMayFail, Skips = {{}}, Chunkless = {},
           SerialAll, OneAtATime', SkipInv, TextInv, RecordedHasText, [Next]_vars
    PROVE  TextInv' /\ RecordedHasText'
<1>0. TypeOK /\ clock \in Nat
  BY DEF SerialAll, TypeOK, TreeOK
<1>h. \A f \in Files : work[f] # 0 /\ hashes[f] = work[f] =>
                          summ[f] = work[f] /\ chunks[f] = work[f]
  BY DEF RecordedHasText
<1>t. \A w \in Workers : TextPart(w)
  BY DEF TextInv
<1>1. ASSUME \A f \in Files : work'[f] # 0 /\ hashes'[f] = work'[f] =>
                                 summ'[f] = work'[f] /\ chunks'[f] = work'[f]
      PROVE  RecordedHasText'
  BY <1>1 DEF RecordedHasText
<1>2. ASSUME UNCHANGED <<hashes, summ, chunks, pc, walked, draft>>,
             \A f \in Files : work'[f] = work[f] \/ work'[f] = 0 \/ work'[f] = clock + 1
      PROVE  TextInv' /\ RecordedHasText'
  <2>1. \A f \in Files : /\ hashes[f] \in Nat /\ hashes[f] <= clock
                         /\ \A w \in Workers : walked[w][f] \in Nat /\ walked[w][f] <= clock
    BY <1>0 DEF SerialAll, FreshInv, TypeOK, DbOK, RunsOK
  <2>2. ASSUME NEW w \in Workers PROVE TextPart(w)'
    <3>1. \A f \in Files : walked[w][f] # 0 /\ work'[f] = walked[w][f] => work'[f] = work[f]
      BY <1>0, <1>2, <2>1
    <3>2. QED
      BY <1>2, <1>t, <3>1 DEF TextPart
  <2>3. \A f \in Files : work'[f] # 0 /\ hashes[f] = work'[f] => work'[f] = work[f]
    BY <1>0, <1>2, <2>1
  <2>4. QED
    BY <1>1, <1>2, <1>h, <2>2, <2>3 DEF TextInv
<1>3. CASE \/ \E f \in Files : Write(f) \/ Remove(f)
           \/ \E S \in SUBSET Files : Commit(S)
  <2>1. UNCHANGED <<hashes, summ, chunks, pc, walked, draft>>
    BY <1>3, EditsLeave
  <2>2. \A f \in Files : work'[f] = work[f] \/ work'[f] = 0 \/ work'[f] = clock + 1
    BY <1>0, EditsMake
  <2>3. QED
    BY <1>2, <2>1, <2>2
<1>4. ASSUME UNCHANGED vars PROVE TextInv' /\ RecordedHasText'
  BY <1>2, <1>4 DEF vars
<1>5. ASSUME NEW w \in Workers, PackUnchanged(w) PROVE TextInv' /\ RecordedHasText'
  <2>1. UNCHANGED <<work, hashes, summ, chunks, walked, draft>>
        /\ pc' = [pc EXCEPT ![w] = "idle"]
    BY <1>0, <1>5, Skipped DEF tree, db, graph
  <2>2. ASSUME NEW v \in Workers PROVE TextPart(v)'
    <3>1. pc'[v] = "idle" \/ pc'[v] = pc[v]
      BY <1>0, <2>1 DEF TypeOK, RunsOK
    <3>2. QED
      BY <1>t, <2>1, <3>1 DEF TextPart
  <2>3. QED
    BY <1>1, <1>h, <2>1, <2>2 DEF TextInv
<1>6. ASSUME NEW w \in Workers, Runs(w) PROVE TextInv' /\ RecordedHasText'
  <2>0. skip[w] = {}
    BY DEF SkipInv
  <2>1. UNCHANGED work
    BY <1>6, LeaveTree DEF Runs, ByHand, PackChanged, tree
  <2>2. ASSUME NEW v \in Workers \ {w} PROVE TextPart(v)'
    <3>1. pc'[v] = "idle"
      BY <1>6, OthersIdle
    <3>2. QED
      BY <3>1 DEF TextPart
  <2>3. ASSUME TextPart(w)',
               \A f \in Files : work[f] # 0 /\ hashes'[f] = work[f] =>
                                   summ'[f] = work[f] /\ chunks'[f] = work[f]
        PROVE  TextInv' /\ RecordedHasText'
    BY <1>1, <2>1, <2>2, <2>3 DEF TextInv
  <2>4. ASSUME UNCHANGED <<hashes, summ, chunks>>,
               pc'[w] \notin {"summaries", "chunk", "chunks", "record"}
        PROVE  TextInv' /\ RecordedHasText'
    <3>1. TextPart(w)'
      BY <2>4 DEF TextPart
    <3>2. QED
      BY <1>h, <2>3, <2>4, <3>1
  <2>5. CASE StartDelta(w) \/ GoCold(w) \/ Changed(w) \/ PackUnchanged(w) \/ PackChanged(w)
    <3>1. /\ UNCHANGED <<hashes, summ, chunks>>
          /\ pc'[w] \in {"detect", "cold", "detach", "idle", "services"}
      BY <1>0, <2>5 DEF StartDelta, GoCold, Changed, PackUnchanged, PackChanged, Goto,
                        db, graph, TypeOK, RunsOK
    <3>2. QED
      BY <2>4, <3>1
  <2>6. CASE NoChanges(w) \/ SetHead(w) \/ Abort(w)
    <3>1. UNCHANGED <<hashes, summ, chunks>> /\ pc'[w] = "idle"
      BY <1>0, <2>6 DEF NoChanges, SetHead, Abort, Return, Goto, db, graph, TypeOK, RunsOK
    <3>2. QED
      BY <2>4, <3>1
  <2>7. CASE UpsertFiles(w) \/ PruneSymbols(w) \/ UpsertSymbols(w) \/ SetPack(w)
    <3>1. UNCHANGED <<hashes, summ, chunks>>
      <4>1. CASE UpsertFiles(w) \/ PruneSymbols(w) \/ UpsertSymbols(w)
        BY <4>1 DEF UpsertFiles, PruneSymbols, UpsertSymbols, StageLeaves, db
      <4>2. CASE SetPack(w)
        BY <4>2 DEF SetPack, graph
      <4>3. QED
        BY <2>7, <4>1, <4>2
    <3>2. \E q \in {"prune", "symbols", "summarize", "head"} : pc' = [pc EXCEPT ![w] = q]
      <4>1. CASE UpsertFiles(w) \/ PruneSymbols(w) \/ SetPack(w)
        BY <4>1 DEF UpsertFiles, PruneSymbols, SetPack, Goto
      <4>2. CASE UpsertSymbols(w)
        <5>1. After(w, "symbols") = "summarize"
          BY <2>0 DEF After
        <5>2. QED
          BY <4>2, <5>1 DEF UpsertSymbols, Goto
      <4>3. QED
        BY <2>7, <4>1, <4>2
    <3>3. pc'[w] \in {"prune", "symbols", "summarize", "head"}
      BY <1>0, <3>2 DEF TypeOK, RunsOK
    <3>4. QED
      BY <2>4, <3>1, <3>3
  <2>8. CASE WalkSubset(w) \/ WalkRepo(w)
    <3>1. UNCHANGED <<hashes, summ, chunks>>
      BY <2>8 DEF WalkSubset, WalkRepo, db, graph
    <3>2. pc'[w] = "files" \/ (pc'[w] = "record" /\ \A f \in Files : walked'[w][f] = 0)
      BY <1>0, <2>8 DEF WalkSubset, WalkRepo, Walk, Goto, Nothing, TypeOK, RunsOK
    <3>3. TextPart(w)'
      BY <3>2 DEF TextPart
    <3>4. QED
      BY <1>h, <2>3, <3>1, <3>3
  <2>9. ASSUME NEW g \in Files, Detach(w, g) PROVE TextInv' /\ RecordedHasText'
    <3>1. work[g] = 0
      BY <2>9 DEF Detach, SerialAll, SerialInv, SerialPart, GoneInv
    <3>2. /\ UNCHANGED hashes /\ pc'[w] = "detach"
          /\ \A f \in Files \ {g} : summ'[f] = summ[f] /\ chunks'[f] = chunks[f]
      BY <1>0, <2>9 DEF Detach, db, TypeOK, GraphOK
    <3>3. TextPart(w)'
      BY <3>2 DEF TextPart
    <3>4. QED
      BY <1>h, <2>3, <3>1, <3>2, <3>3
  <2>10. CASE Summarize(w)
    <3>1. /\ UNCHANGED <<hashes, summ, chunks, walked>> /\ pc'[w] = "summaries"
          /\ \A f \in Files : /\ draft'[w][f] \in {0, work[f]}
                              /\ draft'[w][f] # 0 => walked[w][f] # 0
                              /\ NeedsSummary(w, f) => draft'[w][f] = work[f]
      BY <1>0, <2>10, Drafted DEF Summarize, graph
    <3>2. ASSUME NEW f \in Files, walked[w][f] # 0, work[f] = walked[w][f],
                 ~NeedsSummary(w, f)
          PROVE  summ[f] = work[f]
      BY <1>h, <3>2 DEF NeedsSummary
    <3>3. TextPart(w)'
      BY <2>1, <3>1, <3>2 DEF TextPart
    <3>4. QED
      BY <1>h, <2>3, <3>1, <3>3
  <2>11. CASE WriteSummaries(w)
    <3>1. /\ UNCHANGED <<hashes, chunks, walked>> /\ pc[w] = "summaries" /\ pc'[w] = "chunk"
          /\ \A f \in Files : summ'[f] = IF node[f] # 0 /\ draft[w][f] # 0
                                         THEN draft[w][f] ELSE summ[f]
      BY <1>0, <2>0, <2>11
      DEF WriteSummaries, Over, Goto, After, StageLeaves, db, TypeOK, RunsOK
    <3>2. pc[w] \in HasWalked /\ pc[w] \in HasFiles
      BY <3>1 DEF HasWalked, HasFiles, HasSymbols
    <3>3. ASSUME NEW f \in Files, walked[w][f] # 0, work[f] = walked[w][f]
          PROVE  summ'[f] = work[f]
      <4>1. node[f] # 0
        BY <3>2, <3>3 DEF SerialAll, SerialInv, SerialPart
      <4>2. QED
        BY <1>t, <3>1, <3>3, <4>1 DEF TextPart
    <3>4. ASSUME NEW f \in Files, work[f] # 0, hashes[f] = work[f] PROVE summ'[f] = work[f]
      <4>1. CASE draft[w][f] = 0
        BY <1>h, <3>1, <3>4, <4>1
      <4>2. CASE draft[w][f] # 0
        <5>1. walked[w][f] # 0
          BY <1>t, <3>1, <4>2 DEF TextPart
        <5>2. QED
          BY <3>2, <3>3, <3>4, <5>1, RecordedWalked
      <4>3. QED
        BY <4>1, <4>2
    <3>5. TextPart(w)'
      BY <2>1, <3>1, <3>3 DEF TextPart
    <3>6. QED
      BY <1>h, <2>3, <3>1, <3>4, <3>5
  <2>12. CASE SplitChunks(w)
    <3>1. /\ UNCHANGED <<hashes, summ, walked>> /\ pc[w] = "chunk" /\ pc'[w] = "chunks"
          /\ \A f \in Files : draft'[w][f] = IF walked[w][f] = 0 THEN 0 ELSE work[f]
          /\ \A f \in Files : draft'[w][f] \in {0, chunks[f]} => chunks'[f] = chunks[f]
      BY <1>0, <2>12 DEF SplitChunks, Goto, StageLeaves, db, TypeOK, RunsOK
    <3>2. TextPart(w)'
      BY <1>t, <2>1, <3>1 DEF TextPart
    <3>3. ASSUME NEW f \in Files, work[f] # 0, hashes[f] = work[f]
          PROVE  chunks'[f] = work[f]
      BY <1>h, <3>1, <3>3
    <3>4. QED
      BY <1>h, <2>3, <3>1, <3>2, <3>3
  <2>13. CASE WriteChunks(w)
    <3>1. /\ UNCHANGED <<hashes, summ, walked>> /\ pc[w] = "chunks" /\ pc'[w] = "record"
          /\ \A f \in Files : chunks'[f] = IF draft[w][f] # 0 THEN draft[w][f] ELSE chunks[f]
      BY <1>0, <2>13 DEF WriteChunks, Over, Goto, StageLeaves, db, TypeOK, RunsOK
    <3>2. pc[w] \in HasWalked
      BY <3>1 DEF HasWalked, HasFiles, HasSymbols
    <3>3. ASSUME NEW f \in Files, walked[w][f] # 0, work[f] = walked[w][f]
          PROVE  chunks'[f] = work[f] /\ summ[f] = work[f]
      BY <1>t, <3>1, <3>3 DEF TextPart
    <3>4. ASSUME NEW f \in Files, work[f] # 0, hashes[f] = work[f] PROVE chunks'[f] = work[f]
      <4>1. CASE draft[w][f] = 0
        BY <1>h, <3>1, <3>4, <4>1
      <4>2. CASE draft[w][f] # 0
        <5>1. walked[w][f] # 0
          BY <1>t, <3>1, <4>2 DEF TextPart
        <5>2. QED
          BY <3>2, <3>3, <3>4, <5>1, RecordedWalked
      <4>3. QED
        BY <4>1, <4>2
    <3>5. TextPart(w)'
      BY <2>1, <3>1, <3>3 DEF TextPart
    <3>6. QED
      BY <1>h, <2>3, <3>1, <3>4, <3>5
  <2>14. CASE Record(w)
    <3>1. UNCHANGED <<summ, chunks>> /\ pc[w] = "record" /\ pc'[w] \in {"pack", "head"}
      BY <1>0, <2>14 DEF Record, Goto, graph, TypeOK, RunsOK
    <3>2. TextPart(w)'
      BY <3>1 DEF TextPart
    <3>3. ASSUME NEW f \in Files, work[f] # 0, hashes'[f] = work[f]
          PROVE  summ[f] = work[f] /\ chunks[f] = work[f]
      <4>1. hashes[f] = work[f] \/ walked[w][f] = work[f]
        BY <2>14, <3>3, RecordsPresent
      <4>2. QED
        BY <1>h, <1>t, <3>1, <3>3, <4>1 DEF TextPart
    <3>4. QED
      BY <2>3, <3>1, <3>2, <3>3
  <2>15. QED
    BY <1>6, <2>5, <2>6, <2>7, <2>8, <2>9, <2>10, <2>11, <2>12, <2>13, <2>14 DEF Runs, Step
<1>7. QED
  BY <1>3, <1>4, <1>5, <1>6, Actors

\* Where no ingest ends half way, what is in the graph gets recorded.
LEMMA NodeStep ==
    ASSUME MaxAborts = 0, SerialAll, OneAtATime', NodeInv, [Next]_vars
    PROVE  NodeInv'
<1>0. TypeOK
  BY DEF SerialAll
<1> USE DEF NodeInv
<1>1. ASSUME UNCHANGED <<hashes, node, syms, pc, walked>> PROVE NodeInv'
  BY <1>1
<1>2. CASE \/ \E f \in Files : Write(f) \/ Remove(f)
           \/ \E S \in SUBSET Files : Commit(S)
  BY <1>1, <1>2, EditsLeave
<1>3. ASSUME UNCHANGED vars PROVE NodeInv'
  BY <1>1, <1>3 DEF vars
<1>4. ASSUME NEW w \in Workers, PackUnchanged(w) PROVE NodeInv'
  <2>1. UNCHANGED <<hashes, node, syms, walked>> /\ pc' = [pc EXCEPT ![w] = "idle"]
    BY <1>0, <1>4, Skipped DEF db, graph
  <2>2. pc[w] \in {"idle", "cold"}
    BY <1>4 DEF PackUnchanged, Begins
  <2>3. \A v \in Workers : pc[v] \in Unrecorded => pc'[v] = pc[v]
    BY <1>0, <2>1, <2>2 DEF TypeOK, RunsOK, Unrecorded, HasWalked, HasFiles, HasSymbols
  <2>4. QED
    BY <2>1, <2>3
<1>5. ASSUME NEW w \in Workers, Runs(w) PROVE NodeInv'
  <2>1. \A v \in Workers \ {w} : pc[v] = "idle"
    BY <1>0, <1>5, OthersIdle, FullStep
  <2>2. ASSUME NEW f \in Files, node[f] # 0 \/ syms[f] # 0
        PROVE  hashes[f] # 0 \/ (pc[w] \in Unrecorded /\ walked[w][f] # 0)
    BY <2>1, <2>2 DEF Unrecorded, HasWalked, HasFiles, HasSymbols
  <2>3. ASSUME pc[w] \notin Unrecorded, UNCHANGED hashes,
               \A f \in Files : node'[f] \in {0, node[f]} /\ syms'[f] \in {0, syms[f]}
        PROVE  NodeInv'
    BY <2>2, <2>3
  <2>4. ASSUME UNCHANGED <<hashes, walked>>, pc'[w] \in Unrecorded,
               \A f \in Files : /\ node'[f] \in {node[f], walked[w][f]}
                                /\ syms'[f] \in {0, syms[f], walked[w][f]}
        PROVE  NodeInv'
    BY <2>2, <2>4
  <2>5. CASE \/ StartDelta(w) \/ GoCold(w) \/ NoChanges(w) \/ Changed(w)
             \/ PackUnchanged(w) \/ PackChanged(w)
    <3>1. pc[w] \in {"idle", "detect", "cold"} /\ UNCHANGED <<hashes, node, syms>>
      BY <2>5 DEF StartDelta, GoCold, NoChanges, Changed, PackUnchanged, PackChanged, Begins,
                  db, graph
    <3>2. QED
      BY <2>3, <3>1 DEF Unrecorded, HasWalked, HasFiles, HasSymbols
  <2>6. CASE WalkSubset(w) \/ WalkRepo(w) \/ SetPack(w) \/ SetHead(w)
    <3>1. /\ pc[w] \in {"detach", "services", "pack", "head"}
          /\ UNCHANGED <<hashes, node, syms>>
      BY <2>6 DEF WalkSubset, WalkRepo, SetPack, SetHead, db, graph
    <3>2. QED
      BY <2>3, <3>1 DEF Unrecorded, HasWalked, HasFiles, HasSymbols
  <2>7. ASSUME NEW g \in Files, Detach(w, g) PROVE NodeInv'
    <3>1. pc[w] = "detach" /\ UNCHANGED hashes
      BY <2>7 DEF Detach, db
    <3>2. \A f \in Files : node'[f] \in {0, node[f]} /\ syms'[f] \in {0, syms[f]}
      BY <1>0, <2>7 DEF Detach, TypeOK, GraphOK
    <3>3. QED
      BY <2>3, <3>1, <3>2 DEF Unrecorded, HasWalked, HasFiles, HasSymbols
  <2>8. CASE \/ UpsertFiles(w) \/ PruneSymbols(w) \/ UpsertSymbols(w)
             \/ Summarize(w) \/ WriteSummaries(w) \/ SplitChunks(w) \/ WriteChunks(w)
    <3>1. UNCHANGED <<hashes, walked>>
      BY <2>8 DEF UpsertFiles, PruneSymbols, UpsertSymbols, Summarize, WriteSummaries,
                  SplitChunks, WriteChunks, StageLeaves, db
    <3>2. \E q \in {"prune", "symbols", "summarize", "summaries", "chunk", "chunks", "record"} :
             pc' = [pc EXCEPT ![w] = q]
      BY <2>8 DEF UpsertFiles, PruneSymbols, UpsertSymbols, Summarize, WriteSummaries,
                  SplitChunks, WriteChunks, Goto, After
    <3>3. \A f \in Files : /\ node'[f] \in {node[f], walked[w][f]}
                           /\ syms'[f] \in {0, syms[f], walked[w][f]}
      <4>1. CASE UpsertFiles(w)
        BY <4>1 DEF UpsertFiles, Over
      <4>2. CASE PruneSymbols(w)
        BY <4>2 DEF PruneSymbols
      <4>3. CASE UpsertSymbols(w)
        BY <4>3 DEF UpsertSymbols, Over
      <4>4. CASE Summarize(w) \/ WriteSummaries(w) \/ SplitChunks(w) \/ WriteChunks(w)
        BY <4>4 DEF Summarize, WriteSummaries, SplitChunks, WriteChunks, graph
      <4>5. QED
        BY <2>8, <4>1, <4>2, <4>3, <4>4
    <3>4. pc'[w] \in Unrecorded
      BY <1>0, <3>2 DEF TypeOK, RunsOK, Unrecorded, HasWalked, HasFiles, HasSymbols
    <3>5. QED
      BY <2>4, <3>1, <3>3, <3>4
  <2>9. CASE Record(w)
    <3>1. /\ UNCHANGED <<node, syms>>
          /\ \A f \in Files : hashes'[f] = IF walked[w][f] # 0 THEN walked[w][f]
                                           ELSE hashes[f]
      BY <2>9 DEF Record, Over, graph
    <3>2. QED
      BY <2>2, <3>1
  <2>10. CASE Abort(w)
    BY <1>0, <2>10 DEF Abort, TypeOK, RunsOK
  <2>11. QED
    BY <1>5, <2>5, <2>6, <2>7, <2>8, <2>9, <2>10 DEF Runs, Step
<1>6. QED
  BY <1>2, <1>3, <1>4, <1>5, Actors

\* When the hashes are those of the working tree, the graph mirrors it.
LEMMA NoDiffMirrors ==
    ASSUME SerialAll, NodeInv, NEW w \in Workers, NoChanges(w), ~HeadMoved(w)
    PROVE  Mirrors
<1>1. pc[w] = "detect" /\ HashDiff = NoDiff
  BY DEF NoChanges, Changes
<1>2. \A v \in Workers : pc[v] \notin Unrecorded
  BY <1>1 DEF SerialAll, OneAtATime, Unrecorded, HasWalked, HasFiles, HasSymbols
<1>3. ASSUME NEW f \in Files PROVE Indexed(f)
  <2>1. f \notin HashDiff.toIndex /\ f \notin HashDiff.deleted
    BY <1>1 DEF NoDiff
  <2>2. work[f] \in {0, hashes[f]} /\ (work[f] = 0 => hashes[f] = 0)
    BY <2>1 DEF HashDiff
  <2>3. CASE work[f] # 0
    BY <2>2, <2>3 DEF SerialAll, RecordedIsIndexed
  <2>4. CASE work[f] = 0
    BY <1>2, <2>2, <2>4 DEF NodeInv, Indexed
  <2>5. QED
    BY <2>3, <2>4
<1>4. QED
  BY <1>3 DEF Mirrors

\* Nobody has begun, and nothing is written.
LEMMA OthersInit == Init => TextFresh /\ SkipInv /\ PackInv /\ TextInv /\ SummaryInv /\ NodeInv
<1> SUFFICES ASSUME Init
             PROVE  TextFresh /\ SkipInv /\ PackInv /\ TextInv /\ SummaryInv /\ NodeInv
  OBVIOUS
<1>1. \A w \in Workers : /\ pc[w] = "idle" /\ ~full[w] /\ skip[w] = {}
                         /\ \A f \in Files : /\ pack[w][f] = 0 /\ draft[w][f] = 0
                                             /\ walked[w][f] = 0
  BY DEF Init, Nothing
<1>2. \A f \in Files : /\ summ[f] = 0 /\ node[f] = 0 /\ syms[f] = 0
                       /\ work[f] \in {0, 1}
  BY DEF Init, Nothing
<1>3. packSha = NoPack /\ clock = 1
  BY DEF Init
<1>4. TextFresh
  <2>1. 0 <= clock
    BY <1>3
  <2>2. QED
    BY <1>1, <1>2, <1>3, <2>1 DEF TextFresh
<1>5. SkipInv
  BY <1>1 DEF SkipInv
<1>6. PackInv
  BY <1>1, <1>3 DEF PackInv, PackPart, Unrecorded, HasWalked, HasFiles, HasSymbols
<1>7. TextInv /\ SummaryInv /\ NodeInv
  BY <1>1, <1>2 DEF TextInv, TextPart, SummaryInv, SummaryPart, NodeInv
<1>8. QED
  BY <1>4, <1>5, <1>6, <1>7

\* A full ingest that is skipped because the pack is the recorded one skips no
\* file that has changed: no ingest leaves the symbols out, ingests do not
\* overlap, no file gets a content it had before, and none comes back after it
\* was deleted.
THEOREM PackedIsIndexedHolds ==
    ASSUME ~Revert, ~Restore, \A s \in Skips : "symbols" \notin s
    PROVE  SpecSerial => []PackedIsIndexed
<1> DEFINE All == SerialAll /\ TextFresh /\ SkipInv /\ PackInv
<1>1. Init => All
  BY SerialInit, OthersInit
<1>2. All /\ [Next /\ OneAtATime']_vars => All'
  <2> SUFFICES ASSUME All, [Next /\ OneAtATime']_vars PROVE All'
    OBVIOUS
  <2>1. SerialAll'
    BY SerialStep
  <2>2. OneAtATime' /\ TypeOK /\ FreshInv /\ [Next]_vars
    BY <2>1 DEF SerialAll
  <2>3. QED
    BY <2>1, <2>2, TextFreshStep, SkipStep, PackStep
<1>3. All => PackedIsIndexed
  <2> SUFFICES ASSUME All, packSha = Packed, NEW f \in Files \ Ignored, work[f] # 0
               PROVE  hashes[f] = work[f]
    BY DEF PackedIsIndexed
  <2>1. Packed \in [Files -> Nat] /\ Packed[f] = work[f]
    BY DEF SerialAll, TypeOK, TreeOK, Packed
  <2>2. packSha # NoPack
    BY <2>1, IngestAssumption
  <2>3. QED
    BY <2>1, <2>2 DEF PackInv
<1>4. QED
  BY <1>1, <1>2, <1>3, PTL DEF SpecSerial

\* A summary is only ever replaced by that of a newer content, or goes with its
\* file, though the model may fail and ingests end half way: ingests do not
\* overlap, no file gets a content it had before, and none comes back after it
\* was deleted.
THEOREM SummaryNeverLostHolds ==
    ASSUME ~Revert, ~Restore
    PROVE  SpecSerial => SummaryNeverLost
<1> DEFINE All == SerialAll /\ TextFresh /\ SummaryInv
           Gives == \A f \in Files : summ[f] # 0 => summ'[f] >= summ[f] \/ node'[f] = 0
<1>1. Init => All
  BY SerialInit, OthersInit
<1>2. All /\ [Next /\ OneAtATime']_vars => All' /\ Gives
  <2> SUFFICES ASSUME All, [Next /\ OneAtATime']_vars PROVE All' /\ Gives
    OBVIOUS
  <2>1. SerialAll'
    BY SerialStep
  <2>2. OneAtATime' /\ TypeOK /\ FreshInv /\ [Next]_vars
    BY <2>1 DEF SerialAll
  <2>3. Gives
    BY <2>2, SummaryGives
  <2>4. QED
    BY <2>1, <2>2, <2>3, TextFreshStep, SummaryStep
<1>3. SummaryNeverLost <=> [][Gives]_vars
  BY DEF SummaryNeverLost
<1>4. QED
  BY <1>1, <1>2, <1>3, PTL DEF SpecSerial

\* At every moment a file whose present content is recorded has the summary and
\* the chunks of this content: no stage is left out, the model does not fail,
\* every content has chunks, ingests do not overlap, no file gets a content it
\* had before, and none comes back after it was deleted.
THEOREM RecordedHasTextHolds ==
    ASSUME ~Revert, ~Restore, ~LlmMayFail, Skips = {{}}, Chunkless = {}
    PROVE  SpecSerial => []RecordedHasText
<1> DEFINE All == SerialAll /\ SkipInv /\ TextInv /\ RecordedHasText
<1>1. Init => All
  <2>1. Init => RecordedHasText
    BY DEF Init, RecordedHasText, Nothing
  <2>2. QED
    BY <2>1, SerialInit, OthersInit
<1>2. All /\ [Next /\ OneAtATime']_vars => All'
  <2> SUFFICES ASSUME All, [Next /\ OneAtATime']_vars PROVE All'
    OBVIOUS
  <2>1. SerialAll'
    BY SerialStep
  <2>2. OneAtATime' /\ TypeOK /\ [Next]_vars
    BY <2>1 DEF SerialAll
  <2>3. QED
    BY <2>1, <2>2, SkipStep, TextStep
<1>3. QED
  BY <1>1, <1>2, PTL DEF SpecSerial

\* no_changes is only answered, on the strength of the hashes, when the graph
\* mirrors the working tree, where no ingest ends half way: ingests do not
\* overlap, no file gets a content it had before, and none comes back after it
\* was deleted.
THEOREM NoChangesIsTrueHolds ==
    ASSUME ~Revert, ~Restore, MaxAborts = 0
    PROVE  SpecSerial => NoChangesIsTrue
<1> DEFINE All == SerialAll /\ NodeInv
           True == \A w \in Workers : NoChanges(w) /\ ~HeadMoved(w) => Mirrors
<1>1. Init => All
  BY SerialInit, OthersInit
<1>2. All /\ [Next /\ OneAtATime']_vars => All'
  <2> SUFFICES ASSUME All, [Next /\ OneAtATime']_vars PROVE All'
    OBVIOUS
  <2>1. SerialAll'
    BY SerialStep
  <2>2. OneAtATime' /\ [Next]_vars
    BY <2>1 DEF SerialAll
  <2>3. QED
    BY <2>1, <2>2, NodeStep
<1>3. All => True
  BY NoDiffMirrors
<1>4. NoChangesIsTrue <=> [][True]_vars
  BY DEF NoChangesIsTrue
<1>5. QED
  BY <1>1, <1>2, <1>3, <1>4, PTL DEF SpecSerial

-----------------------------------------------------------------------------
(* The index follows the tree.                                             *)

\* What the steps of an ingest do to what it has walked and what is recorded.
LEMMA OrderSteps ==
    ASSUME TypeOK, NEW w \in Workers, Runs(w)
    PROVE  \/ WalkSubset(w) \/ WalkRepo(w) \/ Record(w)
           \/ UNCHANGED hashes /\ pc'[w] \notin HasWalked
           \/ UNCHANGED <<hashes, walked>> /\ pc[w] \in HasWalked
<1> USE DEF TypeOK, RunsOK, HasWalked, HasFiles, HasSymbols
<1>1. CASE \/ StartDelta(w) \/ PackChanged(w) \/ PackUnchanged(w) \/ GoCold(w)
           \/ NoChanges(w) \/ Changed(w) \/ SetHead(w) \/ Abort(w)
  <2>1. UNCHANGED hashes
    BY <1>1 DEF StartDelta, PackChanged, PackUnchanged, GoCold, NoChanges, Changed, SetHead,
                Abort, db
  <2>2. pc'[w] \in {"detect", "services", "idle", "cold", "detach"}
    BY <1>1 DEF StartDelta, PackChanged, PackUnchanged, GoCold, NoChanges, Changed, SetHead,
                Abort, Return, Goto
  <2>3. QED
    BY <2>1, <2>2
<1>2. CASE \E f \in Files : Detach(w, f)
  BY <1>2 DEF Detach, db
<1>3. CASE \/ UpsertFiles(w) \/ PruneSymbols(w) \/ UpsertSymbols(w) \/ Summarize(w)
           \/ WriteSummaries(w) \/ SplitChunks(w) \/ WriteChunks(w) \/ SetPack(w)
  BY <1>3 DEF UpsertFiles, PruneSymbols, UpsertSymbols, Summarize, WriteSummaries,
              SplitChunks, WriteChunks, SetPack, StageLeaves, db, local
<1>4. QED
  BY <1>1, <1>2, <1>3 DEF Runs, Step

\* Contents are walked and recorded in their order.
LEMMA OrderStep ==
    ASSUME ~Revert, SerialAll, OneAtATime', OrderInv, [Next]_vars
    PROVE  OrderInv'
<1>0. TypeOK /\ clock \in Nat
  BY DEF SerialAll, TypeOK, TreeOK
<1>t. \A f \in Files : /\ work[f] \in Nat /\ hashes[f] \in Nat /\ hashes[f] <= clock
                       /\ \A w \in Workers : walked[w][f] \in Nat /\ walked[w][f] <= clock
  BY <1>0 DEF SerialAll, FreshInv, TypeOK, TreeOK, DbOK, RunsOK
<1> USE DEF OrderInv
<1>1. ASSUME UNCHANGED <<hashes, pc, walked>>,
             \A f \in Files : work'[f] = work[f] \/ work'[f] = 0 \/ work'[f] = clock + 1
      PROVE  OrderInv'
  BY <1>0, <1>t, <1>1
<1>2. CASE \/ \E f \in Files : Write(f) \/ Remove(f)
           \/ \E S \in SUBSET Files : Commit(S)
  <2>1. UNCHANGED <<hashes, pc, walked>>
    BY <1>2, EditsLeave
  <2>2. \A f \in Files : work'[f] = work[f] \/ work'[f] = 0 \/ work'[f] = clock + 1
    BY <1>0, EditsMake
  <2>3. QED
    BY <1>1, <2>1, <2>2
<1>3. ASSUME UNCHANGED vars PROVE OrderInv'
  BY <1>1, <1>3 DEF vars
<1>4. ASSUME NEW w \in Workers, PackUnchanged(w) PROVE OrderInv'
  <2>1. UNCHANGED <<work, hashes, walked>> /\ pc' = [pc EXCEPT ![w] = "idle"]
    BY <1>0, <1>4, Skipped DEF tree, db
  <2>2. \A v \in Workers : pc'[v] \in HasWalked => pc[v] \in HasWalked
    BY <1>0, <2>1 DEF TypeOK, RunsOK, HasWalked, HasFiles, HasSymbols
  <2>3. QED
    BY <2>1, <2>2
<1>5. ASSUME NEW w \in Workers, Runs(w) PROVE OrderInv'
  <2>1. UNCHANGED work
    BY <1>5, LeaveTree DEF Runs, ByHand, PackChanged, tree
  <2>2. \A v \in Workers \ {w} : pc'[v] \notin HasWalked
    BY <1>5, OthersIdle DEF HasWalked, HasFiles, HasSymbols
  <2>3. CASE WalkSubset(w) \/ WalkRepo(w)
    <3>1. UNCHANGED hashes
      BY <2>3 DEF WalkSubset, WalkRepo, db
    <3>2. PICK S : Walk(w, S)
      BY <2>3 DEF WalkSubset, WalkRepo
    <3>3. \A f \in Files : walked'[w][f] \in {0, work[f]}
      BY <1>0, <3>2 DEF Walk, TypeOK, RunsOK
    <3>4. \A f \in Files : work[f] <= work[f]
      BY <1>t
    <3>5. QED
      BY <2>1, <2>2, <3>1, <3>3, <3>4
  <2>4. CASE Record(w)
    <3>1. /\ pc[w] \in HasWalked /\ UNCHANGED walked
          /\ \A f \in Files : hashes'[f] = IF walked[w][f] # 0 THEN walked[w][f] ELSE hashes[f]
      BY <2>4 DEF Record, Over, local, HasWalked, HasFiles, HasSymbols
    <3>2. \A f \in Files : work[f] # 0 => hashes'[f] <= work[f]
      BY <3>1
    <3>3. \A f \in Files : walked[w][f] # 0 =>
             hashes'[f] <= walked[w][f] /\ (work[f] # 0 => walked[w][f] <= work[f])
      BY <1>t, <3>1
    <3>4. QED
      BY <2>1, <2>2, <3>1, <3>2, <3>3
  <2>5. CASE UNCHANGED hashes /\ pc'[w] \notin HasWalked
    BY <2>1, <2>2, <2>5
  <2>6. CASE UNCHANGED <<hashes, walked>> /\ pc[w] \in HasWalked
    BY <2>1, <2>2, <2>6
  <2>7. QED
    BY <1>0, <1>5, <2>3, <2>4, <2>5, <2>6, OrderSteps
<1>6. QED
  BY <1>2, <1>3, <1>4, <1>5, Actors

\* Nodes and symbols change in four statements.
LEMMA NodeSteps ==
    ASSUME NEW w \in Workers, Runs(w)
    PROVE  \/ UNCHANGED <<node, syms>>
           \/ (\E f \in Files : Detach(w, f))
           \/ UpsertFiles(w) \/ PruneSymbols(w) \/ UpsertSymbols(w)
<1>1. CASE \/ StartDelta(w) \/ PackChanged(w) \/ PackUnchanged(w) \/ GoCold(w)
           \/ NoChanges(w) \/ Changed(w) \/ SetHead(w) \/ Abort(w)
  BY <1>1 DEF StartDelta, PackChanged, PackUnchanged, GoCold, NoChanges, Changed, SetHead,
              Abort, graph
<1>2. CASE \/ WalkSubset(w) \/ WalkRepo(w) \/ Summarize(w) \/ WriteSummaries(w)
           \/ SplitChunks(w) \/ WriteChunks(w) \/ SetPack(w) \/ Record(w)
  BY <1>2 DEF WalkSubset, WalkRepo, Summarize, WriteSummaries, SplitChunks, WriteChunks,
              SetPack, Record, graph
<1>3. QED
  BY <1>1, <1>2 DEF Runs, Step

\* What a file is answered from changes only while it is not settled, and to
\* what was walked or to nothing.
LEMMA AnsweredStep ==
    ASSUME SerialAll, OrderInv, NEW w \in Workers, NEW f \in Files,
           \/ (\E g \in Files : Detach(w, g))
           \/ UpsertFiles(w) \/ PruneSymbols(w) \/ UpsertSymbols(w),
           Answered'[f] # Answered[f]
    PROVE  /\ ~Following!Settled(f)
           /\ Answered'[f] = 0 \/ Answered'[f] >= hashes[f]
<1>0. TypeOK /\ SerialPart(w)
  BY DEF SerialAll, SerialInv
<1>t. /\ node \in [Files -> Nat] /\ syms \in [Files -> Nat]
      /\ walked[w][f] \in Nat /\ hashes[f] \in Nat
  BY <1>0 DEF TypeOK, GraphOK, DbOK, RunsOK
<1>a. /\ Answered[f] = IF node[f] = syms[f] THEN node[f] ELSE 0
      /\ Answered'[f] = IF node'[f] = syms'[f] THEN node'[f] ELSE 0
  BY DEF Answered
<1>s. Following!Settled(f) <=> work[f] # 0 /\ hashes[f] = work[f]
  BY DEF Following!Settled
<1>i. Following!Settled(f) => node[f] = work[f] /\ syms[f] = work[f]
  BY <1>s DEF SerialAll, RecordedIsIndexed, Indexed
<1>1. ASSUME NEW g \in Files, Detach(w, g)
      PROVE  ~Following!Settled(f) /\ Answered'[f] = 0
  <2>1. work[g] = 0
    BY <1>0, <1>1 DEF Detach, SerialPart, SerialAll, GoneInv
  <2>2. /\ g # f => node'[f] = node[f] /\ syms'[f] = syms[f]
        /\ \/ node'[f] = node[f] /\ syms'[f] \in {0, syms[f]}
           \/ node'[f] \in {0, node[f]} /\ syms'[f] = syms[f]
    BY <1>t, <1>1 DEF Detach
  <2>3. g = f
    BY <1>a, <2>2
  <2>4. QED
    BY <1>a, <1>s, <2>1, <2>2, <2>3
<1>2. ASSUME pc[w] \in HasWalked,
             /\ node'[f] \in {node[f], walked[w][f]}
             /\ syms'[f] \in {0, syms[f], walked[w][f]}
             /\ walked[w][f] \in {0, syms[f]} => syms'[f] = syms[f]
             /\ walked[w][f] = 0 => node'[f] = node[f],
             node'[f] = node[f] \/ syms'[f] = syms[f],
             syms'[f] # syms[f] => node[f] = walked[w][f]
      PROVE  /\ ~Following!Settled(f)
             /\ Answered'[f] = 0 \/ Answered'[f] >= hashes[f]
  <2>1. walked[w][f] # 0
    BY <1>a, <1>2
  <2>2. Following!Settled(f) => walked[w][f] = work[f]
    BY <1>2, <1>s, <2>1, RecordedWalked
  <2>3. ~Following!Settled(f)
    BY <1>a, <1>i, <1>2, <2>2
  <2>4. Answered'[f] \in {0, Answered[f], walked[w][f]}
    BY <1>a, <1>2
  <2>5. walked[w][f] >= hashes[f]
    BY <1>t, <1>2, <2>1 DEF OrderInv
  <2>6. QED
    BY <2>3, <2>4, <2>5
<1>3. CASE UpsertFiles(w)
  <2>1. /\ pc[w] = "files" /\ UNCHANGED syms
        /\ node'[f] = IF walked[w][f] # 0 THEN walked[w][f] ELSE node[f]
    BY <1>3 DEF UpsertFiles, Over
  <2>2. QED
    BY <1>2, <2>1 DEF HasWalked
<1>4. CASE PruneSymbols(w)
  <2>1. /\ pc[w] = "prune" /\ UNCHANGED node
        /\ syms'[f] = IF walked[w][f] \in {0, syms[f]} THEN syms[f] ELSE 0
    BY <1>4 DEF PruneSymbols
  <2>2. walked[w][f] # 0 => node[f] = walked[w][f]
    BY <1>0, <2>1 DEF SerialPart, HasWalked, HasFiles
  <2>3. QED
    BY <1>2, <2>1, <2>2 DEF HasWalked, HasFiles
<1>5. CASE UpsertSymbols(w)
  <2>1. /\ pc[w] = "symbols" /\ UNCHANGED node
        /\ syms'[f] = IF walked[w][f] # 0 THEN walked[w][f] ELSE syms[f]
    BY <1>5 DEF UpsertSymbols, Over
  <2>2. walked[w][f] # 0 => node[f] = walked[w][f]
    BY <1>0, <2>1 DEF SerialPart, HasWalked, HasFiles
  <2>3. QED
    BY <1>2, <2>1, <2>2 DEF HasWalked, HasFiles
<1>6. QED
  BY <1>1, <1>3, <1>4, <1>5

\* Every step of the tree and of an ingest is one of Follow's, or none.
LEMMA FollowStep ==
    ASSUME ~Revert, SerialAll, SerialAll', OrderInv, [Next]_vars
    PROVE  [Following!Next]_<<work, Answered, hashes>>
<1>t. /\ TypeOK /\ work' \in [Files -> Nat] /\ hashes' \in [Files -> Nat]
      /\ node' \in [Files -> Nat] /\ syms' \in [Files -> Nat]
      /\ clock \in Nat /\ \A f \in Files : hashes[f] \in Nat /\ hashes[f] <= clock
  BY DEF SerialAll, FreshInv, TypeOK, TreeOK, DbOK, GraphOK
<1>a. UNCHANGED <<node, syms>> => UNCHANGED Answered
  BY DEF Answered
<1>1. CASE \/ \E f \in Files : Write(f) \/ Remove(f)
           \/ \E S \in SUBSET Files : Commit(S)
  <2>1. UNCHANGED <<hashes, node, syms>>
    BY <1>1, EditsLeave
  <2>2. \A f \in Files : work'[f] = work[f] \/ work'[f] = 0 \/ work'[f] = clock + 1
    BY <1>t, EditsMake
  <2>3. \A f \in Files : work'[f] # work[f] => work'[f] = 0 \/ work'[f] > hashes[f]
    BY <1>t, <2>2
  <2>4. QED
    BY <1>t, <1>a, <2>1, <2>3 DEF Following!Next, Following!Edit
<1>2. CASE UNCHANGED vars
  BY <1>a, <1>2 DEF vars
<1>3. ASSUME NEW w \in Workers, PackUnchanged(w)
      PROVE  UNCHANGED <<work, node, syms, hashes>>
  BY <1>3 DEF PackUnchanged, tree, db, graph
<1>4. ASSUME NEW w \in Workers, Runs(w) PROVE [Following!Next]_<<work, Answered, hashes>>
  <2>1. UNCHANGED work
    BY <1>4, LeaveTree DEF Runs, ByHand, PackChanged, tree
  <2>2. CASE \/ (\E f \in Files : Detach(w, f))
             \/ UpsertFiles(w) \/ PruneSymbols(w) \/ UpsertSymbols(w)
    <3>1. UNCHANGED hashes
      BY <2>2 DEF Detach, UpsertFiles, PruneSymbols, UpsertSymbols, StageLeaves, db
    <3>2. \A f \in Files : Answered'[f] # Answered[f] =>
             ~Following!Settled(f) /\ (Answered'[f] = 0 \/ Answered'[f] >= hashes[f])
      BY <2>2, AnsweredStep
    <3>3. Answered' \in [Files -> Nat]
      BY <1>t DEF Answered
    <3>4. QED
      BY <2>1, <3>1, <3>2, <3>3 DEF Following!Next, Following!Index
  <2>3. CASE Record(w)
    <3>1. /\ UNCHANGED <<node, syms>> /\ pc[w] = "record"
          /\ \A f \in Files : hashes'[f] = IF walked[w][f] # 0 THEN walked[w][f] ELSE hashes[f]
      BY <2>3 DEF Record, Over, graph
    <3>2. ASSUME NEW f \in Files, hashes'[f] # hashes[f]
          PROVE  hashes'[f] = Answered[f] /\ Answered[f] > hashes[f]
      <4>1. hashes'[f] = walked[w][f] /\ walked[w][f] # 0
        BY <3>1, <3>2
      <4>2. node[f] = walked[w][f] /\ syms[f] = walked[w][f]
        BY <3>1, <4>1 DEF SerialAll, SerialInv, SerialPart, HasWalked, HasFiles, HasSymbols
      <4>3. hashes[f] <= walked[w][f]
        BY <3>1, <4>1 DEF OrderInv, HasWalked, HasFiles, HasSymbols
      <4>4. walked[w][f] \in Nat /\ hashes[f] \in Nat
        BY <1>t DEF TypeOK, RunsOK
      <4>5. QED
        BY <3>2, <4>1, <4>2, <4>3, <4>4 DEF Answered
    <3>3. QED
      BY <1>t, <1>a, <2>1, <3>1, <3>2 DEF Following!Next, Following!Record
  <2>4. CASE UNCHANGED <<node, syms>> /\ ~Record(w)
    <3>1. UNCHANGED hashes
      BY <1>t, <1>4, <2>4, OrderSteps DEF WalkSubset, WalkRepo, db
    <3>2. QED
      BY <1>a, <2>1, <2>4, <3>1
  <2>5. QED
    BY <1>4, <2>2, <2>3, <2>4, NodeSteps
<1>5. QED
  BY <1>1, <1>2, <1>3, <1>4, <1>a, Actors

\* The ingests implement Follow, whatever is edited and deleted and wherever
\* they are aborted: ingests do not overlap, no file gets a content it had
\* before, and none comes back after it was deleted.
THEOREM FollowsHolds ==
    ASSUME ~Revert, ~Restore
    PROVE  SpecSerial => Follows
<1> DEFINE All == SerialAll /\ OrderInv
<1>1. Init => All /\ Following!Init
  <2> SUFFICES ASSUME Init PROVE OrderInv /\ Following!Init
    BY SerialInit
  <2>1. /\ work \in [Files -> {0, 1}] /\ hashes = Nothing
        /\ node = Nothing /\ syms = Nothing
    BY Zenon DEF Init
  <2>0. \A w \in Workers : pc[w] = "idle"
    BY DEF Init
  <2>2. work \in [Files -> Nat] /\ Answered = [f \in Files |-> 0]
    BY <2>1 DEF Answered, Nothing
  <2>3. OrderInv
    <3>1. ASSUME NEW f \in Files PROVE hashes[f] <= work[f]
      <4>1. work[f] \in {0, 1} /\ hashes[f] = 0
        BY <2>1 DEF Nothing
      <4>2. QED
        BY <4>1
    <3>2. \A w \in Workers : pc[w] \notin HasWalked
      BY <2>0 DEF HasWalked, HasFiles, HasSymbols
    <3>3. QED
      BY <3>1, <3>2 DEF OrderInv
  <2>4. QED
    BY <2>1, <2>2, <2>3, Zenon DEF Following!Init, Nothing
<1>2. All /\ [Next /\ OneAtATime']_vars => All' /\ [Following!Next]_<<work, Answered, hashes>>
  <2> SUFFICES ASSUME All, [Next /\ OneAtATime']_vars
               PROVE  All' /\ [Following!Next]_<<work, Answered, hashes>>
    OBVIOUS
  <2>1. SerialAll'
    BY SerialStep
  <2>2. OneAtATime' /\ [Next]_vars
    BY <2>1 DEF SerialAll
  <2>3. QED
    BY <2>1, <2>2, OrderStep, FollowStep
<1>3. QED
  BY <1>1, <1>2, PTL DEF SpecSerial, Follows, Following!Spec, Following!vars

\* And that is all it takes: wherever an index follows a tree as Follow says,
\* a file whose present content is recorded is indexed.
THEOREM FollowingSuffices == Follows => []RecordedIsIndexed
<1> DEFINE Promised == \A f \in Files : work[f] # 0 /\ hashes[f] = work[f] => Answered[f] = work[f]
<1>1. Following!Init => Promised
  BY DEF Following!Init
<1>2. Promised /\ [Following!Next]_<<work, Answered, hashes>> => Promised'
  <2> SUFFICES ASSUME Promised, [Following!Next]_<<work, Answered, hashes>>,
                      NEW f \in Files, work'[f] # 0, hashes'[f] = work'[f]
               PROVE  Answered'[f] = work'[f]
    OBVIOUS
  <2>1. CASE Following!Edit
    BY <2>1 DEF Following!Edit
  <2>2. CASE Following!Index
    BY <2>2 DEF Following!Index, Following!Settled
  <2>3. CASE Following!Record
    BY <2>3 DEF Following!Record
  <2>4. CASE UNCHANGED <<work, Answered, hashes>>
    BY <2>4
  <2>5. QED
    BY <2>1, <2>2, <2>3, <2>4 DEF Following!Next
<1>3. Promised => RecordedIsIndexed
  BY DEF RecordedIsIndexed, Indexed, Answered
<1>4. QED
  BY <1>1, <1>2, <1>3, PTL DEF Follows, Following!Spec, Following!vars

-----------------------------------------------------------------------------
(* The lockfile.                                                           *)

\* A step moves one ingest at most.
LEMMA PcSteps ==
    ASSUME [Next]_vars
    PROVE  pc' = pc \/ \E w \in Workers : \E p : pc' = [pc EXCEPT ![w] = p]
<1>1. CASE UNCHANGED vars \/ \E f \in Files : Write(f) \/ Remove(f)
  BY <1>1 DEF vars, Write, Remove
<1>2. CASE \E S \in SUBSET Files : Commit(S)
  BY <1>2 DEF Commit
<1>3. ASSUME NEW w \in Workers, StartDelta(w) \/ ByHand(w) \/ Abort(w)
      PROVE  pc' = pc \/ \E p : pc' = [pc EXCEPT ![w] = p]
  BY <1>3 DEF StartDelta, ByHand, PackUnchanged, PackChanged, Abort, Return, Goto
<1>4. ASSUME NEW w \in Workers, Step(w)
      PROVE  pc' = pc \/ \E p : pc' = [pc EXCEPT ![w] = p]
  <2>1. CASE GoCold(w) \/ NoChanges(w) \/ Changed(w)
    BY <2>1 DEF GoCold, NoChanges, Changed, Return, Goto
  <2>2. CASE \/ \E f \in Files : Detach(w, f)
             \/ WalkSubset(w) \/ WalkRepo(w)
             \/ PackUnchanged(w) \/ PackChanged(w)
    BY <2>2 DEF Detach, WalkSubset, WalkRepo, Walk, PackUnchanged, PackChanged,
                Return, Goto
  <2>3. CASE \/ UpsertFiles(w) \/ PruneSymbols(w) \/ UpsertSymbols(w)
             \/ Summarize(w) \/ WriteSummaries(w)
    BY <2>3 DEF UpsertFiles, PruneSymbols, UpsertSymbols, Summarize,
                WriteSummaries, Goto
  <2>4. CASE \/ SplitChunks(w) \/ WriteChunks(w) \/ Record(w)
             \/ SetPack(w) \/ SetHead(w)
    BY <2>4 DEF SplitChunks, WriteChunks, Record, SetPack, SetHead, Return, Goto
  <2>5. QED
    BY <1>4, <2>1, <2>2, <2>3, <2>4 DEF Step
<1>5. QED
  BY <1>1, <1>2, <1>3, <1>4 DEF Next

\* Who is ingesting, and who is afterwards.
Busy == {w \in Workers : pc[w] # "idle"}

\* A step begins at most one ingest, and then ends none.
LEMMA BusySteps ==
    ASSUME TypeOK, [Next]_vars
    PROVE  Busy' \subseteq Busy \/ \E w \in Workers : Busy' = Busy \cup {w}
<1>1. pc \in [Workers -> Positions]
  BY DEF TypeOK, RunsOK
<1>2. CASE pc' = pc
  BY <1>2 DEF Busy
<1>3. ASSUME NEW w \in Workers, NEW p, pc' = [pc EXCEPT ![w] = p]
      PROVE  Busy' = Busy \cup {w} \/ Busy' = Busy \ {w}
  <2>1. CASE p = "idle"
    BY <1>1, <1>3, <2>1 DEF Busy
  <2>2. CASE p # "idle"
    BY <1>1, <1>3, <2>2 DEF Busy
  <2>3. QED
    BY <2>1, <2>2
<1>4. QED
  BY <1>2, <1>3, PcSteps

\* The place of the abstract specification holds those who are ingesting.
LEMMA PlaceHolds ==
    /\ IngestRuns = [place \in {"repo"} |-> Busy]
    /\ IngestRuns' = [place \in {"repo"} |-> Busy']
  BY DEF IngestRuns, Busy

\* One ingest at a time is what keeps a step within OneIngest.
LEMMA LockedStep ==
    ASSUME TypeOK, OneAtATime, [Next]_vars
    PROVE  OneAtATime' <=> [Locking!Next]_IngestRuns
<1>1. ASSUME OneAtATime' PROVE [Locking!Next]_IngestRuns
  <2>1. CASE Busy' \subseteq Busy
    <3>1. IngestRuns' = [place \in {"repo"} |-> IngestRuns[place] \ (Workers \ Busy')]
      <4>1. Busy' = Busy \ (Workers \ Busy')
        BY <2>1 DEF Busy
      <4>2. QED
        BY <4>1, PlaceHolds
    <3>2. QED
      BY <3>1 DEF Locking!Next, Locking!End
  <2>2. ASSUME NEW w \in Workers, Busy' = Busy \cup {w}, w \notin Busy
        PROVE  Locking!Begin("repo")
    <3>1. Busy = {}
      BY <1>1, <2>2 DEF OneAtATime, Busy
    <3>2. IngestRuns["repo"] = {} /\ IngestRuns' = [IngestRuns EXCEPT !["repo"] = {w}]
      BY <2>2, <3>1, PlaceHolds
    <3>3. QED
      BY <3>2 DEF Locking!Begin
  <2>3. QED
    BY <2>1, <2>2, BusySteps DEF Locking!Next
<1>2. ASSUME [Locking!Next]_IngestRuns PROVE OneAtATime'
  <2>1. Busy' \subseteq Busy \/ \E w \in Workers : Busy' = {w}
    <3>1. CASE UNCHANGED IngestRuns
      BY <3>1, PlaceHolds
    <3>2. CASE Locking!End
      BY <3>2, PlaceHolds DEF Locking!End
    <3>3. ASSUME Locking!Begin("repo") PROVE \E w \in Workers : Busy' = {w}
      BY <3>3, PlaceHolds DEF Locking!Begin
    <3>4. QED
      BY <1>2, <3>1, <3>2, <3>3 DEF Locking!Next
  <2>2. QED
    BY <2>1 DEF OneAtATime, Busy
<1>3. QED
  BY <1>1, <1>2

\* What module Ingest assumes of its environment is what the lockfile promises
\* (OneIngest) and what Scheduler is shown to keep (OneIngestAtATime), neither
\* more nor less: ingests that the lockfile keeps apart are those of
\* SpecSerial.
THEOREM SerialIsLocked == SpecSerial <=> Spec /\ Locked
<1>1. Init => OneAtATime /\ Locking!Init
  <2> SUFFICES ASSUME Init PROVE Busy = {}
    BY PlaceHolds DEF OneAtATime, Busy, Locking!Init
  <2>1. \A w \in Workers : pc[w] = "idle"
    BY Zenon DEF Init
  <2>2. QED
    BY <2>1 DEF Busy
<1>2. OneAtATime /\ [Next /\ OneAtATime']_vars => OneAtATime' /\ [Next]_vars
  BY DEF vars, OneAtATime
<1>3. TypeOK /\ OneAtATime /\ [Next]_vars
        => (OneAtATime' <=> [Locking!Next]_IngestRuns)
  BY LockedStep
<1>4. SpecSerial => Spec /\ []OneAtATime
  BY <1>1, <1>2, PTL DEF SpecSerial, Spec
<1>5. SpecSerial => Locked
  BY <1>1, <1>2, <1>3, <1>4, TypeCorrect, PTL DEF SpecSerial, Spec, Locked, Locking!Spec
<1>6. Spec /\ Locked => SpecSerial
  <2>1. Spec /\ Locked => []OneAtATime
    BY <1>1, <1>3, TypeCorrect, PTL DEF Spec, Locked, Locking!Spec
  <2>2. [Next]_vars /\ OneAtATime' => [Next /\ OneAtATime']_vars
    OBVIOUS
  <2>3. QED
    BY <2>1, <2>2, PTL DEF Spec, SpecSerial
<1>7. QED
  BY <1>4, <1>5, <1>6

=============================================================================
