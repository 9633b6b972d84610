-------------------------------- MODULE Ingest --------------------------------
(***************************************************************************)
(* How the code index follows one repository's working tree.               *)
(*                                                                         *)
(* features/delta/extract.py (ingest_delta) finds what changed, by git     *)
(* diff between the recorded and the present HEAD or else by comparing     *)
(* file hashes, and re-indexes that; features/flow/runner.py (ingest_repo) *)
(* re-indexes everything unless the packed repository is the one recorded. *)
(* Both write two stores one statement at a time, with nothing that spans  *)
(* them: the Neo4j graph (File_v2, Symbol_v2, Chunk_v2) and the sqlite     *)
(* state database (merkle_files, git_state, merkle_repo).  Meanwhile       *)
(* somebody edits, commits and deletes files, and an ingest may end        *)
(* anywhere: an exception, a lost connection, a killed process.            *)
(*                                                                         *)
(* The content of a file is a version, 0 when there is no file; a hash is  *)
(* the version hashed.  In the graph a version tells from which content a  *)
(* node's data was taken, 0 meaning no data or not all of one content.     *)
(***************************************************************************)
EXTENDS Naturals, Sequences

CONSTANTS
    Files,        \* source files, by path
    Ignored,      \* those git ignores
    Deletable,    \* those that may be deleted
    Restore,      \* TRUE: a deleted file may come back
    Revert,       \* TRUE: a file may get a content it had before
    Chunkless,    \* contents without chunks: empty, too large, unparsable
    Git,          \* TRUE: the working tree is a git checkout
    GitMayFail,   \* TRUE: a git command may fail or time out
    LlmMayFail,   \* TRUE: the model may fail to summarise a file
    Skips,        \* the skip settings an ingest may run with
    Workers,      \* the ingests that may run at once
    NoPack,       \* "no pack recorded"
    MaxVersion,   \* bound on the contents that appear
    MaxEdits,     \* bound on the edits of the working tree
    MaxCommits,   \* bound on the commits
    MaxFull,      \* bound on the full ingests asked for by hand
    MaxAborts     \* bound on the ingests that end half way

Stages == {"symbols", "summaries", "chunks"}

ASSUME IngestAssumption ==
    /\ Ignored \subseteq Files /\ Deletable \subseteq Files
    /\ Skips \subseteq SUBSET Stages /\ Skips # {}
    /\ {Restore, Revert, Git, GitMayFail, LlmMayFail} \subseteq BOOLEAN
    /\ NoPack \notin [Files -> Nat]
    /\ {MaxVersion, MaxEdits, MaxCommits, MaxFull, MaxAborts} \subseteq Nat

VARIABLES
    \* The working tree and its history.
    work,       \* work[f]: the content of f
    removed,    \* the files deleted at least once
    commits,    \* the committed trees, oldest first; HEAD is the last
    clock,      \* the newest content so far
    edits,      \* edits so far
    \* The state database.
    hashes,     \* merkle_files: hashes[f], 0 for no row
    gitHead,    \* git_state: the commit last seen, 0 for no row
    packSha,    \* merkle_repo
    \* The graph.
    node,       \* node[f]: File_v2.hash, 0 for no node
    syms,       \* syms[f]: the content its Symbol_v2 nodes are from
    summ,       \* summ[f]: the content its summary is from
    chunks,     \* chunks[f]: the content its Chunk_v2 nodes are from
    \* The ingests.
    pc,         \* where each stands
    full,       \* full[w]: ingest_repo, not ingest_delta
    skip,       \* skip[w]: the stages w leaves out
    head,       \* head[w]: HEAD as w has read it, 0 for none
    target,     \* target[w]: ChangedSet.to_index
    left,       \* left[w][f]: statements of _detach_files still to run for f
    pack,       \* pack[w]: what w has packed
    walked,     \* walked[w][f]: the content of f w has walked, 0 for not walked
    draft,      \* draft[w][f]: the content w has made summary or chunks from
    last,       \* last[w]: the status of the ingest before
    fulls,      \* full ingests by hand so far
    aborts      \* ingests that ended half way so far

tree == <<work, removed, commits, clock, edits>>
db == <<hashes, gitHead, packSha>>
graph == <<node, syms, summ, chunks>>
local == <<full, skip, head, target, left, pack, walked, draft, last, fulls>>
vars == <<work, removed, commits, clock, edits, hashes, gitHead, packSha,
          node, syms, summ, chunks, pc, full, skip, head, target, left, pack,
          walked, draft, last, fulls, aborts>>

Nothing == [f \in Files |-> 0]

\* What repomix sees: it leaves ignored files out, as git does.
Packed == [f \in Files |-> IF f \in Ignored THEN 0 ELSE work[f]]

\* t, overwritten where u has a content.
Over(u, t) == [f \in Files |-> IF u[f] # 0 THEN u[f] ELSE t[f]]

HEAD == Len(commits)

Positions == {"idle", "detect", "detach", "cold", "services", "files", "prune",
              "symbols", "summarize", "summaries", "chunk", "chunks",
              "record", "pack", "head"}

Statuses == {"", "delta_applied", "no_changes", "indexed",
             "skipped_unchanged", "error"}

TreeOK ==
    /\ work \in [Files -> Nat] /\ removed \subseteq Files
    /\ commits \in Seq([Files -> Nat])
    /\ Git => HEAD > 0
    /\ clock \in Nat /\ edits \in Nat

DbOK ==
    /\ hashes \in [Files -> Nat]
    /\ packSha \in [Files -> Nat] \cup {NoPack}
    /\ gitHead \in 0..HEAD

GraphOK ==
    /\ node \in [Files -> Nat] /\ syms \in [Files -> Nat]
    /\ summ \in [Files -> Nat] /\ chunks \in [Files -> Nat]

RunsOK ==
    /\ pc \in [Workers -> Positions]
    /\ full \in [Workers -> BOOLEAN]
    /\ skip \in [Workers -> SUBSET Stages]
    /\ head \in [Workers -> 0..HEAD]
    /\ target \in [Workers -> SUBSET Files]
    /\ left \in [Workers -> [Files -> 0..3]]
    /\ pack \in [Workers -> [Files -> Nat]]
    /\ walked \in [Workers -> [Files -> Nat]]
    /\ draft \in [Workers -> [Files -> Nat]]
    /\ last \in [Workers -> Statuses]
    /\ fulls \in Nat /\ aborts \in Nat

TypeOK == TreeOK /\ DbOK /\ GraphOK /\ RunsOK

Init ==
    /\ work \in [Files -> {0, 1}]
    /\ removed = {}
    /\ commits = IF Git THEN <<Packed>> ELSE <<>>
    /\ clock = 1 /\ edits = 0
    /\ hashes = Nothing /\ gitHead = 0 /\ packSha = NoPack
    /\ node = Nothing /\ syms = Nothing
    /\ summ = Nothing /\ chunks = Nothing
    /\ pc = [w \in Workers |-> "idle"]
    /\ full = [w \in Workers |-> FALSE]
    /\ skip = [w \in Workers |-> {}]
    /\ head = [w \in Workers |-> 0]
    /\ target = [w \in Workers |-> {}]
    /\ left = [w \in Workers |-> Nothing]
    /\ pack = [w \in Workers |-> Nothing]
    /\ walked = [w \in Workers |-> Nothing]
    /\ draft = [w \in Workers |-> Nothing]
    /\ last = [w \in Workers |-> ""]
    /\ fulls = 0 /\ aborts = 0

-----------------------------------------------------------------------------
(* The working tree.                                                       *)

\* f is written: content nobody has seen, or under Revert any content so far.
Write(f) ==
    /\ edits < MaxEdits
    /\ edits' = edits + 1
    /\ work[f] = 0 /\ f \in removed => Restore
    /\ \/ /\ clock < MaxVersion
          /\ clock' = clock + 1
          /\ work' = [work EXCEPT ![f] = clock + 1]
       \/ /\ Revert
          /\ \E v \in (1..clock) \ {work[f]} : work' = [work EXCEPT ![f] = v]
          /\ UNCHANGED clock
    /\ UNCHANGED <<removed, commits, db, graph, pc, local, aborts>>

Remove(f) ==
    /\ edits < MaxEdits
    /\ edits' = edits + 1
    /\ f \in Deletable
    /\ work[f] # 0
    /\ work' = [work EXCEPT ![f] = 0]
    /\ removed' = removed \cup {f}
    /\ UNCHANGED <<commits, clock, db, graph, pc, local, aborts>>

\* The changes made to some files are committed, here or upstream: a pull is
\* writes and a commit nobody looks between.
Commit(S) ==
    /\ Git
    /\ HEAD <= MaxCommits
    /\ \E f \in S : work[f] # commits[HEAD][f]
    /\ commits' = Append(commits, [f \in Files |-> IF f \in S THEN work[f]
                                                   ELSE commits[HEAD][f]])
    /\ UNCHANGED <<work, removed, clock, edits, db, graph, pc, local, aborts>>

-----------------------------------------------------------------------------
(* The ingests: detection (changed_files).                                 *)

Goto(w, p) == pc' = [pc EXCEPT ![w] = p]

\* An ingest ends and its local variables go with it.
Return(w, status) ==
    /\ Goto(w, "idle")
    /\ last' = [last EXCEPT ![w] = status]
    /\ full' = [full EXCEPT ![w] = FALSE]
    /\ skip' = [skip EXCEPT ![w] = {}]
    /\ head' = [head EXCEPT ![w] = 0]
    /\ target' = [target EXCEPT ![w] = {}]
    /\ left' = [left EXCEPT ![w] = Nothing]
    /\ pack' = [pack EXCEPT ![w] = Nothing]
    /\ walked' = [walked EXCEPT ![w] = Nothing]
    /\ draft' = [draft EXCEPT ![w] = Nothing]
    /\ UNCHANGED fulls

\* What reading HEAD may answer.
HeadRead == IF GitMayFail THEN {HEAD, 0} ELSE {HEAD}

\* ingest_delta begins: _git_head.
StartDelta(w) ==
    /\ pc[w] = "idle"
    /\ \E s \in Skips : skip' = [skip EXCEPT ![w] = s]
    /\ \E h \in HeadRead : head' = [head EXCEPT ![w] = h]
    /\ Goto(w, "detect")
    /\ UNCHANGED <<tree, db, graph, full, target, left, pack, walked, draft,
                   last, fulls, aborts>>

HeadMoved(w) == head[w] # 0 /\ gitHead # 0 /\ head[w] # gitHead

NoDiff == [toIndex |-> {}, deleted |-> {}]

\* _git_diff between two commits; no change at all when git fails.
GitDiffs(base, h) ==
    {[toIndex |-> {f \in Files : commits[h][f] \notin {0, commits[base][f]}},
      deleted |-> {f \in Files : commits[base][f] # 0 /\ commits[h][f] = 0}]}
    \cup (IF GitMayFail THEN {NoDiff} ELSE {})

\* _hash_repo, which asks nobody what is ignored, against merkle_files.
HashDiff ==
    [toIndex |-> {f \in Files : work[f] \notin {0, hashes[f]}},
     deleted |-> {f \in Files : hashes[f] # 0 /\ work[f] = 0}]

Changes(w) == IF HeadMoved(w) THEN GitDiffs(gitHead, head[w]) ELSE {HashDiff}

\* No hash is recorded: cold_start_required, and the callers go on to a full
\* ingest.
ColdStart(w) == ~HeadMoved(w) /\ hashes = Nothing

GoCold(w) ==
    /\ pc[w] = "detect"
    /\ ColdStart(w)
    /\ head' = [head EXCEPT ![w] = 0]
    /\ Goto(w, "cold")
    /\ UNCHANGED <<tree, db, graph, full, skip, target, left, pack, walked,
                   draft, last, fulls, aborts>>

\* Nothing to do: no_changes, and the head is still recorded.
NoChanges(w) ==
    /\ pc[w] = "detect"
    /\ ~ColdStart(w)
    /\ NoDiff \in Changes(w)
    /\ gitHead' = IF head[w] # 0 THEN head[w] ELSE gitHead
    /\ Return(w, "no_changes")
    /\ UNCHANGED <<tree, hashes, packSha, graph, aborts>>

Changed(w) ==
    /\ pc[w] = "detect"
    /\ ~ColdStart(w)
    /\ \E c \in Changes(w) \ {NoDiff} :
          /\ target' = [target EXCEPT ![w] = c.toIndex]
          /\ left' = [left EXCEPT ![w] =
                        [f \in Files |-> IF f \in c.deleted THEN 3 ELSE 0]]
    /\ Goto(w, "detach")
    /\ UNCHANGED <<tree, db, graph, full, skip, head, pack, walked, draft,
                   last, fulls, aborts>>

-----------------------------------------------------------------------------
(* Slips the properties are checked against: what the same code would do   *)
(* with one line of it wrong.  None of these is part of Next.              *)

\* _detach_files without its last statement.
DetachKeepsNode(w, f) ==
    /\ pc[w] = "detach"
    /\ left[w][f] # 0
    /\ left' = [left EXCEPT ![w][f] = @ - 1]
    /\ syms' = IF left[w][f] = 3 THEN [syms EXCEPT ![f] = 0] ELSE syms
    /\ chunks' = IF left[w][f] = 2 THEN [chunks EXCEPT ![f] = 0] ELSE chunks
    /\ UNCHANGED <<tree, db, node, summ, pc, full, skip, head, target, pack,
                   walked, draft, last, fulls, aborts>>

\* The pack is recorded when it is made, before what it stands for is written.
PackRecordedFirst(w) ==
    /\ \E s \in Skips, force \in BOOLEAN :
          /\ \/ pc[w] = "cold" /\ s = skip[w] /\ ~force /\ UNCHANGED fulls
             \/ pc[w] = "idle" /\ fulls < MaxFull /\ fulls' = fulls + 1
          /\ force \/ packSha # Packed
          /\ skip' = [skip EXCEPT ![w] = s]
    /\ packSha' = Packed
    /\ full' = [full EXCEPT ![w] = TRUE]
    /\ pack' = [pack EXCEPT ![w] = Packed]
    /\ Goto(w, "services")
    /\ UNCHANGED <<tree, hashes, gitHead, graph, head, target, left, walked,
                   draft, last, aborts>>

\* A file is summarised once and for all.
NeedsFirstSummary(w, f) == walked[w][f] # 0 /\ summ[f] = 0

\* A summary that failed is written like one that did not.
SummariesClobbered(w) ==
    /\ pc[w] = "summaries"
    /\ summ' = [f \in Files |-> IF walked[w][f] # 0 THEN draft[w][f]
                                ELSE summ[f]]
    /\ Goto(w, IF "chunks" \in skip[w] THEN "record" ELSE "chunk")
    /\ UNCHANGED <<tree, db, full, skip, head, target, left, pack, walked, last,
                   fulls, aborts, node, syms, chunks, draft>>

\* The files are hashed anew when the hashes are recorded.
RecordRehashed(w) ==
    /\ pc[w] = "record"
    /\ hashes' = [f \in Files |-> IF walked[w][f] # 0 THEN work[f]
                                  ELSE hashes[f]]
    /\ Goto(w, IF full[w] THEN "pack" ELSE "head")
    /\ UNCHANGED <<tree, gitHead, packSha, graph, local, aborts>>

\* INSERT OR IGNORE: a row there is stays as it is.
RecordNewOnly(w) ==
    /\ pc[w] = "record"
    /\ hashes' = Over(hashes, walked[w])
    /\ Goto(w, IF full[w] THEN "pack" ELSE "head")
    /\ UNCHANGED <<tree, gitHead, packSha, graph, local, aborts>>

\* The hashes are recorded however the ingest ends.
AbortRecords(w) ==
    /\ pc[w] # "idle"
    /\ aborts < MaxAborts
    /\ aborts' = aborts + 1
    /\ hashes' = Over(walked[w], hashes)
    /\ Return(w, "error")
    /\ UNCHANGED <<tree, gitHead, packSha, graph>>

\* A delta that has applied its changes does not record the new HEAD.
HeadForgotten(w) ==
    /\ pc[w] = "head"
    /\ \E h \in IF full[w] THEN HeadRead ELSE {0} :
          gitHead' = IF h # 0 THEN h ELSE gitHead
    /\ Return(w, IF full[w] THEN "indexed" ELSE "delta_applied")
    /\ UNCHANGED <<tree, hashes, packSha, graph, aborts>>

-----------------------------------------------------------------------------
(* Removal and walk.                                                       *)

\* One statement of _detach_files: the symbols, the chunks, the file.
Detach(w, f) ==
    /\ pc[w] = "detach"
    /\ left[w][f] # 0
    /\ \A g \in Files \ {f} : left[w][g] \in {0, 3}
    /\ left' = [left EXCEPT ![w][f] = @ - 1]
    /\ syms' = IF left[w][f] = 3 THEN [syms EXCEPT ![f] = 0] ELSE syms
    /\ chunks' = IF left[w][f] = 2 THEN [chunks EXCEPT ![f] = 0] ELSE chunks
    /\ node' = IF left[w][f] = 1 THEN [node EXCEPT ![f] = 0] ELSE node
    /\ summ' = IF left[w][f] = 1 THEN [summ EXCEPT ![f] = 0] ELSE summ
    /\ UNCHANGED <<tree, db, pc, full, skip, head, target, pack, walked,
                   draft, last, fulls, aborts>>

\* What walk_repo may leave out: git is asked which files are ignored.
LeftOut ==
    IF ~Git THEN {{}} ELSE IF GitMayFail THEN {Ignored, {}} ELSE {Ignored}

\* walk_repo reads files of S that exist now.
Walk(w, S) ==
    /\ \E I \in LeftOut :
          walked' = [walked EXCEPT ![w] =
                       [f \in Files |-> IF f \in S \ I THEN work[f] ELSE 0]]
    /\ Goto(w, IF walked'[w] = Nothing THEN "record" ELSE "files")

\* _walk_subset.
WalkSubset(w) ==
    /\ pc[w] = "detach"
    /\ left[w] = Nothing
    /\ Walk(w, target[w])
    /\ UNCHANGED <<tree, db, graph, full, skip, head, target, left, pack,
                   draft, last, fulls, aborts>>

-----------------------------------------------------------------------------
(* The full ingest up to the walk.                                         *)

\* ingest_repo begins: after a cold start, or by hand, forced or not.
Begins(w, s, force) ==
    \/ pc[w] = "cold" /\ s = skip[w] /\ ~force /\ UNCHANGED fulls
    \/ pc[w] = "idle" /\ fulls < MaxFull /\ fulls' = fulls + 1

\* The pack is the one recorded: skipped_unchanged.
PackUnchanged(w) ==
    /\ Begins(w, skip[w], FALSE)
    /\ packSha = Packed
    /\ Goto(w, "idle")
    /\ last' = [last EXCEPT ![w] = "skipped_unchanged"]
    /\ skip' = [skip EXCEPT ![w] = {}]
    /\ UNCHANGED <<tree, db, graph, full, head, target, left, pack, walked,
                   draft, aborts>>

\* Otherwise the Repo node and the services are written.
PackChanged(w) ==
    /\ \E s \in Skips, force \in BOOLEAN :
          /\ Begins(w, s, force)
          /\ force \/ packSha # Packed
          /\ skip' = [skip EXCEPT ![w] = s]
    /\ full' = [full EXCEPT ![w] = TRUE]
    /\ pack' = [pack EXCEPT ![w] = Packed]
    /\ Goto(w, "services")
    /\ UNCHANGED <<tree, db, graph, head, target, left, walked, draft, last,
                   aborts>>

WalkRepo(w) ==
    /\ pc[w] = "services"
    /\ Walk(w, IF "symbols" \in skip[w] THEN {} ELSE Files)
    /\ UNCHANGED <<tree, db, graph, full, skip, head, target, left, pack,
                   draft, last, fulls, aborts>>

-----------------------------------------------------------------------------
(* The stages, one statement each.                                         *)

\* The stage after p, without those w leaves out.
After(w, p) ==
    IF p = "symbols" /\ "summaries" \notin skip[w] THEN "summarize"
    ELSE IF "chunks" \notin skip[w] THEN "chunk" ELSE "record"

\* The part of the graph a stage leaves alone, and all that only ingests read.
StageLeaves == <<tree, db, full, skip, head, target, left, pack, walked, last,
                 fulls, aborts>>

UpsertFiles(w) ==
    /\ pc[w] = "files"
    /\ node' = Over(walked[w], node)
    /\ Goto(w, "prune")
    /\ UNCHANGED <<StageLeaves, syms, summ, chunks, draft>>

\* Symbols the new content no longer has go first.
PruneSymbols(w) ==
    /\ pc[w] = "prune"
    /\ syms' = [f \in Files |-> IF walked[w][f] \in {0, syms[f]} THEN syms[f]
                                ELSE 0]
    /\ Goto(w, "symbols")
    /\ UNCHANGED <<StageLeaves, node, summ, chunks, draft>>

UpsertSymbols(w) ==
    /\ pc[w] = "symbols"
    /\ syms' = Over(walked[w], syms)
    /\ Goto(w, After(w, "symbols"))
    /\ UNCHANGED <<StageLeaves, node, summ, chunks, draft>>

\* _files_needing_summary, in a full ingest; a delta summarises all it walked.
NeedsSummary(w, f) ==
    /\ walked[w][f] # 0
    /\ full[w] /\ hashes # Nothing => hashes[f] # walked[w][f] \/ summ[f] = 0

\* All that was walked, when the hashes or the summaries cannot be looked up.
ToSummarize(w) ==
    {{f \in Files : NeedsSummary(w, f)}, {f \in Files : walked[w][f] # 0}}

\* Each file is read again and given to the model.
Summarize(w) ==
    /\ pc[w] = "summarize"
    /\ \E todo \in ToSummarize(w) :
       \E done \in IF LlmMayFail THEN SUBSET todo ELSE {todo} :
          draft' = [draft EXCEPT ![w] =
                      [f \in Files |-> IF f \in done THEN work[f] ELSE 0]]
    /\ Goto(w, "summaries")
    /\ UNCHANGED <<StageLeaves, graph>>

\* An empty summary overwrites nothing, and only files with a node get one.
WriteSummaries(w) ==
    /\ pc[w] = "summaries"
    /\ summ' = [f \in Files |-> IF node[f] = 0 THEN summ[f]
                                ELSE Over(draft[w], summ)[f]]
    /\ Goto(w, After(w, "summaries"))
    /\ UNCHANGED <<StageLeaves, node, syms, chunks, draft>>

\* Each file is read again and split; of the files that gave chunks, those no
\* longer current are pruned.
SplitChunks(w) ==
    /\ pc[w] = "chunk"
    /\ draft' = [draft EXCEPT ![w] =
                   [f \in Files |-> IF walked[w][f] = 0 \/ work[f] \in Chunkless
                                    THEN 0 ELSE work[f]]]
    /\ chunks' = [f \in Files |-> IF draft'[w][f] \in {0, chunks[f]}
                                  THEN chunks[f] ELSE 0]
    /\ Goto(w, "chunks")
    /\ UNCHANGED <<StageLeaves, node, syms, summ>>

WriteChunks(w) ==
    /\ pc[w] = "chunks"
    /\ chunks' = Over(draft[w], chunks)
    /\ Goto(w, "record")
    /\ UNCHANGED <<StageLeaves, node, syms, summ, draft>>

-----------------------------------------------------------------------------
(* The state database.                                                     *)

\* upsert_file_hashes, of what was walked.
Record(w) ==
    /\ pc[w] = "record"
    /\ hashes' = Over(walked[w], hashes)
    /\ Goto(w, IF full[w] THEN "pack" ELSE "head")
    /\ UNCHANGED <<tree, gitHead, packSha, graph, local, aborts>>

\* set_repo_pack_sha.  The guard before it asks for failed embeddings, and
\* chunk_and_embed reports none.
SetPack(w) ==
    /\ pc[w] = "pack"
    /\ packSha' = pack[w]
    /\ Goto(w, "head")
    /\ UNCHANGED <<tree, hashes, gitHead, graph, local, aborts>>

\* set_repo_git_head: a delta records the HEAD it began with, a full ingest
\* the HEAD it ends with.
SetHead(w) ==
    /\ pc[w] = "head"
    /\ \E h \in IF full[w] THEN HeadRead ELSE {head[w]} :
          gitHead' = IF h # 0 THEN h ELSE gitHead
    /\ Return(w, IF full[w] THEN "indexed" ELSE "delta_applied")
    /\ UNCHANGED <<tree, hashes, packSha, graph, aborts>>

\* An exception, a lost connection, the end of the process.  What has been
\* written stays.
Abort(w) ==
    /\ pc[w] # "idle"
    /\ aborts < MaxAborts
    /\ aborts' = aborts + 1
    /\ Return(w, "error")
    /\ UNCHANGED <<tree, db, graph>>

-----------------------------------------------------------------------------
Step(w) ==
    \/ GoCold(w) \/ NoChanges(w) \/ Changed(w)
    \/ (\E f \in Files : Detach(w, f)) \/ WalkSubset(w) \/ WalkRepo(w)
    \/ (pc[w] = "cold" /\ (PackUnchanged(w) \/ PackChanged(w)))
    \/ UpsertFiles(w) \/ PruneSymbols(w) \/ UpsertSymbols(w)
    \/ Summarize(w) \/ WriteSummaries(w) \/ SplitChunks(w) \/ WriteChunks(w)
    \/ Record(w) \/ SetPack(w) \/ SetHead(w)

ByHand(w) == pc[w] = "idle" /\ (PackUnchanged(w) \/ PackChanged(w))

Next ==
    \/ \E f \in Files : Write(f) \/ Remove(f)
    \/ \E S \in SUBSET Files : Commit(S)
    \/ \E w \in Workers : StartDelta(w) \/ ByHand(w) \/ Step(w) \/ Abort(w)

Spec == Init /\ [][Next]_vars

(* What the lockfile is for (Scheduler, MutualExclusion): one ingest of the *)
(* repository at a time.                                                    *)
OneAtATime ==
    \A v, w \in Workers : pc[v] # "idle" /\ pc[w] # "idle" => v = w

SpecSerial == Init /\ [][Next /\ OneAtATime']_vars

\* The same, as the lockfile promises it (OneIngest): the one repository and
\* the runs that are ingesting it.
IngestRuns == [place \in {"repo"} |-> {w \in Workers : pc[w] # "idle"}]

Locking == INSTANCE OneIngest WITH Places <- {"repo"}, Runs <- Workers,
                                   running <- IngestRuns

Locked == Locking!Spec

-----------------------------------------------------------------------------
(* Properties.                                                             *)

\* The content of f that the graph gives answers from.
Indexed(f) == node[f] = work[f] /\ syms[f] = work[f]

\* The recorded hash of a file is what keeps it from being indexed again, so
\* when it is the hash of the file's present content, the node and symbols of
\* the file must be those of that content: at every moment, whatever was
\* aborted where.
RecordedIsIndexed ==
    \A f \in Files : work[f] # 0 /\ hashes[f] = work[f] => Indexed(f)

\* The same of summaries and chunks, for ingests that leave none out.
RecordedHasText ==
    \A f \in Files : work[f] # 0 /\ hashes[f] = work[f] =>
        /\ summ[f] = work[f]
        /\ chunks[f] = IF work[f] \in Chunkless THEN 0 ELSE work[f]

\* A model that fails keeps the summary there is ("keep previous summary"):
\* the summary of a file changes only for that of a newer content, or goes
\* with the file.
SummaryNeverLost ==
    [][\A f \in Files :
          summ[f] # 0 => summ'[f] >= summ[f] \/ node'[f] = 0]_vars

\* A full ingest is skipped when the recorded pack is the present one: then
\* every file in the pack must have been indexed.
PackedIsIndexed ==
    packSha = Packed =>
        \A f \in Files \ Ignored : work[f] # 0 => hashes[f] = work[f]

\* The graph holds what the working tree does, of the files git tracks.
Mirrors ==
    \A f \in Files \ Ignored : Indexed(f)

\* no_changes, on the strength of the hashes, is only ever answered when the
\* graph mirrors the working tree.
NoChangesIsTrue ==
    [][\A w \in Workers :
          NoChanges(w) /\ ~HeadMoved(w) => Mirrors]_vars

\* The content a file is answered from; none while its node and symbols are of
\* two.
Answered == [f \in Files |-> IF node[f] = syms[f] THEN node[f] ELSE 0]

\* What Follow sees of it.
Following == INSTANCE Follow WITH disk <- work, recorded <- hashes, indexed <- Answered

\* The index follows the tree as Follow promises: whatever an ingest does and
\* wherever it is aborted, what a hash is recorded for is not touched, what is
\* not indexed in full is not recorded, and nothing recorded goes back.
Follows == Following!Spec

-----------------------------------------------------------------------------
(* The inductive invariant behind RecordedIsIndexed, where every content is *)
(* new and what is deleted stays deleted.                                   *)

\* Nothing anywhere is from a content later than clock.
FreshInv ==
    \A f \in Files :
        /\ work[f] <= clock /\ hashes[f] <= clock
        /\ \A w \in Workers : walked[w][f] <= clock

\* f is there, or has been deleted for good.
Known(f) == work[f] # 0 \/ f \in removed

\* A file gone from the working tree or from the history was deleted.
GoneInv ==
    \A f \in Files :
        /\ f \in removed => work[f] = 0
        /\ hashes[f] # 0 => Known(f)
        /\ \A w \in Workers : walked[w][f] # 0 => Known(f)
        /\ \A i \in 1..HEAD : commits[i][f] # 0 => Known(f)
        /\ \A i, j \in 1..HEAD :
              i < j /\ commits[i][f] # 0 /\ commits[j][f] = 0 => f \in removed

\* The positions after the walk, after the files, after the symbols.
HasSymbols == {"summarize", "summaries", "chunk", "chunks", "record", "pack",
               "head"}
HasFiles == {"prune", "symbols"} \cup HasSymbols
HasWalked == {"files"} \cup HasFiles

\* What one ingest at a time guarantees: it knows the newest recorded HEAD,
\* only detaches files that are gone, and what it has walked is either still
\* the content of the file or the file must be indexed once more.
SerialPart(w) ==
    /\ pc[w] = "detect" /\ head[w] # 0 => gitHead <= head[w]
    /\ \A f \in Files : left[w][f] # 0 => f \in removed
    /\ \A f \in Files : pc[w] \in HasWalked /\ walked[w][f] # 0 =>
          /\ work[f] \in {0, walked[w][f]} \/ work[f] # hashes[f]
          /\ pc[w] \in HasFiles => node[f] = walked[w][f]
          /\ pc[w] \in HasSymbols => syms[f] = walked[w][f]

SerialInv == \A w \in Workers : SerialPart(w)

(* On top of it, one invariant for each of the other safety properties.     *)

\* The positions between the walk and the record of the hashes.
Unrecorded == HasWalked \ {"pack", "head"}

\* Nor is a summary, a draft or a pack from a content later than clock.
TextFresh ==
    \A f \in Files :
        /\ summ[f] <= clock
        /\ packSha # NoPack => packSha[f] <= clock
        /\ \A w \in Workers : draft[w][f] <= clock /\ pack[w][f] <= clock

\* No ingest runs with other settings than those there are.
SkipInv == \A w \in Workers : skip[w] \in Skips \cup {{}}

\* A file that is as it was packed is as it was walked, and recorded by the
\* time the pack is.
PackPart(w) ==
    /\ pc[w] = "pack" => full[w]
    /\ pc[w] \in {"idle", "detect", "cold", "detach"} => ~full[w]
    /\ \A f \in Files \ Ignored : full[w] /\ work[f] # 0 /\ pack[w][f] = work[f] =>
          /\ pc[w] \in Unrecorded => walked[w][f] = work[f]
          /\ pc[w] = "pack" => hashes[f] = work[f]

PackInv ==
    /\ \A f \in Files \ Ignored :
          packSha # NoPack /\ work[f] # 0 /\ packSha[f] = work[f] => hashes[f] = work[f]
    /\ \A w \in Workers : PackPart(w)

\* A file that is as it was walked gets a summary and chunks of this content.
TextPart(w) ==
    \A f \in Files :
        /\ pc[w] \in {"summaries", "chunks"} /\ draft[w][f] # 0 => walked[w][f] # 0
        /\ walked[w][f] # 0 /\ work[f] = walked[w][f] =>
              /\ pc[w] = "summaries" =>
                    draft[w][f] = work[f] \/ (draft[w][f] = 0 /\ summ[f] = work[f])
              /\ pc[w] \in {"chunk", "chunks", "record"} => summ[f] = work[f]
              /\ pc[w] = "chunks" => draft[w][f] = work[f]
              /\ pc[w] = "record" => chunks[f] = work[f]

TextInv == \A w \in Workers : TextPart(w)

\* Summaries, written or about to be, are in the order of the contents.
SummaryPart(w) ==
    \A f \in Files : pc[w] = "summaries" /\ draft[w][f] # 0 =>
        /\ summ[f] <= draft[w][f]
        /\ work[f] # 0 => draft[w][f] <= work[f]

SummaryInv ==
    /\ \A f \in Files : work[f] # 0 => summ[f] <= work[f]
    /\ \A w \in Workers : SummaryPart(w)

\* Contents are walked, and recorded, in their order.
OrderInv ==
    \A f \in Files :
        /\ work[f] # 0 => hashes[f] <= work[f]
        /\ \A w \in Workers : pc[w] \in HasWalked /\ walked[w][f] # 0 =>
              /\ hashes[f] <= walked[w][f]
              /\ work[f] # 0 => walked[w][f] <= work[f]

\* What is in the graph is recorded, or walked by an ingest that will record it.
NodeInv ==
    \A f \in Files : node[f] # 0 \/ syms[f] # 0 =>
        \/ hashes[f] # 0
        \/ \E w \in Workers : pc[w] \in Unrecorded /\ walked[w][f] # 0

-----------------------------------------------------------------------------
(* Liveness.                                                               *)

\* Deltas run again and again, and one that has begun ends.
FairSpec ==
    /\ Spec
    /\ \A w \in Workers : WF_vars(StartDelta(w)) /\ WF_vars(Step(w))

\* Once nobody edits and nothing aborts any more, the graph comes to mirror
\* the working tree and stays so.
Converges == <>[]Mirrors

\* "Re-runs that find unchanged hashes are no-ops" (README, ingest pipeline):
\* in the end no ingest finds anything to do.
Settles ==
    <>[](\A w \in Workers : last[w] \in {"no_changes", "skipped_unchanged"})

=============================================================================
