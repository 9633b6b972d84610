# TLA+ models of AiForgeMemory

AiForgeMemory keeps a graph of a code base (files, symbols, summaries, chunks,
services) and of what developers and agents remember about it in Neo4j, and
serves context from it. A scheduler daemon, the command line and git hooks keep
the graph in step with the working trees. This directory models the parts where
the order of steps, failures and concurrent actors decide whether the result is
right. All paths below are relative to `src/aiforge_memory/`.

## 1. Inventory

| component | state | operations | talks to |
|---|---|---|---|
| scheduler daemon, `features/scheduler/runner.py` | `~/.aiforge/lock.<repo>.pid`, `_LIVE_WORKERS`, `next_run`, stop flag, status journal | `run_loop`, `tick_repo`, `_acquire_lock`, `_release_lock`, signal handlers | starts one ingest thread per tick; delta, then flow |
| scheduler configuration and pidfile, same file | `scheduler.yaml`, `scheduler.pid` | `add_repo`, `remove_repo`, `daemonize`, `stop_daemon` | scheduler daemon |
| delta ingest, `features/delta/extract.py` | local variables of a run | `changed_files`, `ingest_delta`, `_detach_files`, hook installer | git, state database, every stage |
| full ingest, `features/flow/runner.py` | local variables of a run | `ingest_repo`, `_files_needing_summary` | pack, services, every stage, state database |
| state database, `core/state.py` | sqlite: `merkle_files`, `merkle_repo`, `git_state` | `upsert_file_hashes`, `set_repo_pack_sha`, `set_repo_git_head`, getters | shared by all ingests of a process through one connection |
| stages: walk and symbols (`features/symbol`), summaries (`features/file`), chunks (`features/chunk`) | nodes `File_v2`, `Symbol_v2`, `Chunk_v2` | `walk_repo`, `upsert_files_and_symbols`, `summarize_files`, `write_summaries`, `chunk_and_embed`, `upsert_chunks` | Neo4j, LLM, embedder |
| calls, imports, LSP (`features/symbol/extract_calls.py`, `features/lsp`) | edges between symbols | resolution by name or by a language server | Neo4j, language servers |
| symbol summaries, `features/symbol/summarise.py`, `api/commands/summarise_symbols.py` | `Symbol_v2.summary`; the window of the breaker, the counts of a run | resume, thread pool with a circuit breaker, writes | LLM, Neo4j |
| repo summary, services, git metadata, packing | `Repo`, `Service` nodes; properties | upserts | LLM, git, repomix |
| memory, `features/memory` | `Observation_v2`, `Decision`, `Doc`, `Note`, edges `SUPERSEDES`, `MENTIONS` | `remember`, `forget`, `restore`, decay, digest | Neo4j, embedder, LLM |
| links, external ingest and connectors | cross-repository edges, documents | upserts | Neo4j, remote services |
| read API, `query` and `api` | the bundle of a request | fastpath, translate, the stages of query, trim; HTTP, CLI | Neo4j, embedder, reranker, LLM |
| operations, UI, configuration, evaluation | backups, logs | backup, rotation, doctor, settings | files |

What is hard in this system:

* **Concurrency without a common lock.** A tick runs in a thread that may
  outlive its timeout; several scheduler processes may run; the command line
  and the hooks ingest without looking at the lockfile; a lockfile is checked
  and written in two steps and judged by whether a pid answers.
* **Two stores and no transaction.** An ingest writes the graph in a dozen
  statements and then three tables of the state database. It may end after any
  of them, and the next run decides what to do from those tables alone.
* **A moving source.** Files change while they are walked, summarised and
  chunked, each of which reads them again; commits move HEAD during a run.
* **A child process that may not answer.** A language server is late, silent or
  dead, asks questions of its own, and blocks when nobody reads what it writes to
  its output or its error output.
* **One request, many sessions.** A bundle is put together from a score of
  queries, each of which may fail by itself, while an ingest deletes what the
  earlier ones have found.
* **Failures read as answers.** A git command that fails is "no change", "not
  ignored" or "no head"; a model that fails is an empty summary.

What would make each component correct:

* scheduler: one ingest per repository; the lock is held exactly while the
  worker runs; no lock is leaked; no repository starves;
* ingest and state database: what is recorded as indexed is indexed, a skip is
  justified, an interrupted run is made good, the graph converges to the tree
  and the runs become no-ops;
* stages: a failure never destroys good data;
* memory: nothing recalled has been superseded, nothing remembered is lost;
* LSP: a request gets its own answer or an error, in time, and nothing but a write
  to a server that does not read may wait for ever; no server is left behind;
* call edges: what the index says of a known file is what the file says, at the
  surest tier, and nothing of what is gone;
* symbol summaries: a dead server is noticed, no summary is lost, the report is
  true;
* configuration, pidfile: no update lost, no second daemon, none orphaned;
* read API: nothing is invented, what does not fail is there, what fails is
  told, and the cut to the budget keeps what cannot be read again and what the
  rest hangs on.

`PROJECT.json` lists every component with its status and every hazard with its
line.

## 2. Modules

| module | contents |
|---|---|
| `Scheduler` | scheduler processes, their main threads and workers, lockfiles |
| `OneIngest` | what the lockfile promises, without one: the abstract specification `Scheduler` implements |
| `Ingest` | working tree and history, state database, graph, delta and full ingests |
| `Follow` | what an index that goes by recorded hashes promises: the abstract specification `Ingest` implements |
| `CallGraph` | how calls and imports are resolved, and what a sequence of ingests leaves of them |
| `Summarise` | `summarise-symbols`: main thread, pool, circuit breaker, resume |
| `Memory` | observations of one repository: remember, replace, forget, restore, decay, by concurrent clients |
| `Corrections` | what a memory in which facts are corrected promises: the abstract specification `Memory` implements |
| `LspClient` | one language server session: client thread, reader thread, pipes, server |
| `Query` | one request to the read API: search, fusion, model, hydration, cut |
| `Control` | `scheduler.yaml` and the pidfile, and the commands and daemons that use them |
| `MC*` | the TLC instances of each (`MCScheduler` also the symmetry) |
| `*_proof` | the theorems of each |

How they meet:

* `Scheduler` instantiates `OneIngest` as `Promise`; that it implements `Promise!Spec`
  is the property `OneIngestAtATime`. `Ingest` is checked under
  `SpecSerial`, in which ingests of one repository do not overlap; theorem
  `SerialIsLocked` says that this is `Spec` with `OneIngest` of its own ingests
  (`Locked`), so the guarantee of the one is the assumption of the other. An ingest
  of `Ingest` lies within the life of a thread of `Scheduler`, so what keeps the
  threads apart keeps the ingests apart. `Scheduler` shows when it holds and when it
  does not.
* `CallGraph` is the part of an ingest that `Ingest` leaves out, the edges, with
  the tree, the hashes and the abort it needs; it leaves out what `Ingest` has
  (HEAD, the pack, summaries, chunks, contents that come back). Both take their
  steps from the same code, in the same order.
* `Summarise` runs beside ingests: of those it has what they do to a symbol
  (`Prune`, `Recreate`).
* `Query` runs beside ingests too: of those it has `Detach`.
* `Control` starts the processes of `Scheduler` and stops them.
* `Memory` shares only the database with the rest: the decay a scheduler runs is
  its `DecayBatch`.
* `LspClient` is a part of one stage of a full ingest; what a server tells is the
  `Lsp` of `CallGraph`, and an ingest that hangs in it is one of `HungRepos`.

### Scheduler

The state of a scheduler process `d` is its place in `run_loop` and `tick_repo`
(`pc`), the repositories the sweep has left (`todo`), those due (`due`), the
tick in progress (`cur`, `mine`), `_LIVE_WORKERS` (`live`) and the flag (`stop`).
`lock` is the directory of lockfiles; `alive` is what `os.kill(pid, 0)` would
answer; `threads` are the ingests running anywhere.

| action | code in `features/scheduler/runner.py` |
|---|---|
| `Launch`, `Exit`, `Signal`, `Wake`, `BeginTick`, `EndSweep`, `Elapse` | `run_loop`, `_StopFlag` |
| `StillRunning`, `PriorGone` | the look at `_LIVE_WORKERS` at the start of `tick_repo` |
| `Locked`, `SeesFree`, `WriteLock` | `_acquire_lock`: the probe and the write are two steps |
| `StartWorker`, `Join`, `KeepZombie`, `ReleaseAfterRun` | the worker, `join` with its timeout, the `finally` block, which asks `is_alive()` once more |
| `WorkerEnds` | `_work` |
| `CliIngest` | `api/commands/ingest.py` and the hooks |
| `Crash` | external: SIGKILL, power |

Abstractions: durations (a `join` may return at any time, a repository may be
due at any time); truncating and writing a lockfile is one step (a truncated
file reads as free, the same window); the status journal, backoff after
`neo4j_down`, driver refresh and the decay call are left out.

`OneIngest` has one variable, the runs that ingest each place. The refinement
mapping `RunsOf` takes the living threads of all processes that ingest a
repository. A worker that starts is `Begin`; one that ends, a zombie that ends
and a process that dies with all its threads are `End`; every other step, all of
the lockfile's among them, is a stutter.

### Ingest

A file's content is a version number and its hash is that number; a version in
the graph says from which content the data was taken. `hashes`, `gitHead` and
`packSha` are the tables; `node`, `syms`, `summ`, `chunks` the graph; the rest
are the local variables of the runs.

| action | code |
|---|---|
| `StartDelta`, `GoCold`, `NoChanges`, `Changed` | `features/delta/extract.py`: `ingest_delta` and `changed_files`, by `git diff` or by hashes |
| `Detach`, `WalkSubset` | `_detach_files` (three statements per file), `_walk_subset` |
| `PackUnchanged`, `PackChanged`, `WalkRepo` | `features/flow/runner.py`: `ingest_repo` up to the walk |
| `UpsertFiles`, `PruneSymbols`, `UpsertSymbols` | `features/symbol/store.py` |
| `Summarize`, with `ToSummarize` and `NeedsSummary`; `WriteSummaries` | `_files_needing_summary` in `features/flow/runner.py`, which takes all files if its look at the graph fails; `features/file/extract.py`, `features/file/store.py` |
| `SplitChunks`, `WriteChunks` | `features/chunk/embed.py`, `features/chunk/store.py` |
| `Record`, `SetPack`, `SetHead` | the writes of `core/state.py` |
| `Abort` | an exception, a lost connection, a killed process, at every position |
| `Write`, `Remove`, `Commit` | external: people and git |

Abstractions: a stage that sends its rows in batches or file by file, as
`WriteSummaries` does, is one step (an abort is before it or after it), and each
stage reads its files in one snapshot; a file whose symbols are partly pruned counts
as having none; files without chunks are those with a content in `Chunkless`, and a
file too large to summarise is a failure of the model; IMPORTS and CALLS edges,
`Repo` and `Service` nodes and the LSP are left out; git copies and
`git rm --cached` are not modelled.

`Follow` has no graph, no statements and no ingests: for each file the content on
disk, the one the index answers from and the one recorded. The refinement mapping
(`Following`) takes `work` and `hashes` for the first and the last; a file answers
from a content when its node and its symbols are both of it, and from nothing in
between (`Answered`). `Write`, `Remove` are `Edit`; the statements on `node` and
`syms` are `Index`, which may touch only what is not settled and never puts an older
content under a newer record; `Record` is `Record`; the rest, `Abort` included, are
stutters. That it implements `Following!Spec` is the property `Follows`.

### Memory

Nodes are numbered in the order of creation, `text` and `status` are their
properties, `edges` the `SUPERSEDES` relation. `orphaned` is a history variable:
the nodes whose superseding node was hard-deleted.

| action | code in `features/memory/store.py`, `decay.py` |
|---|---|
| `Call` | `upsert_observation` called with a list of observations recalled at some earlier time |
| `FindNone`, `FindDup`, `Touch` | the dedupe branch, which looks neither at the status of the duplicate nor at `supersedes` |
| `Upsert`, `Supersede`, `Answer` | the other branch: create, then one `_SUPERSEDE_OBSERVATION` after the other |
| `Abort` | the call dies between any two statements |
| `Forget`, `SoftForget`, `Restore` | `forget`, `soft_forget`, `restore` |
| `Age`, `DecayBatch` | time; one transaction of `run_decay` |

Abstractions: one repository; all blank texts are one (`Blank`), which the dedupe
does not look for; MENTIONS, tags, counters above 1 and ranking are left out, and so
is an id given by the caller (`store.py:192`), since nothing in the repository gives
one (with it a call could name its own node, which line 275 skips), as is the vector
search, so `Call` may name any recallable observation; the loop of `run_decay` is
repetition of `DecayBatch`, since a new run may start at any time. Decisions follow
the branch without dedupe (`Dedupe = FALSE`); notes and docs have no life cycle.

`Corrections` has no statuses, duplicates or callers: facts that are there, those of
them that are shown, and which stands over which. The refinement mapping
(`Correcting`) takes the nodes that exist (`There`), `Recallable` and `edges`. An
`Upsert` is `Tell`, one `Supersede` is one `Correct`, `Restore` is `Show`, `SoftForget`
and `DecayBatch` are `Hide`, `Forget` is `Forget`; the rest are stutters. That it
implements `Correcting!Spec` is the property `Corrects`.

### LspClient

The client thread runs `resolve_calls` for one language: `pc` is its place, `phase`
whether it is in `start`, in the queries or in `stop`, `next` is `_next_id`. `box`
is `_pending`: for each id no queue, or a queue that is empty or holds its answer
("own") or something else ("foreign"). `stdin` and `pipe` are the pipes to and from
the server, `errs` its error output, `inbox` and `out` what the server has read and
what it is writing. `adverse` is a history of what the code does not guard against.

| action | code in `features/lsp` |
|---|---|
| `Start`, `Reap` | `LspClient.start`, the end of `stop` |
| `Begin`, `Refused`, `Send`, `SendFails`, `Get`, `Pop`, `Expire`, `PopLate` | `request` and `_send`; the look into the queue, the deadline and the pop are steps of their own |
| `Notify`, `NotifyFails` | `notify`: initialized, didOpen, exit |
| `Open`, `EndQueries` | `_resolve_one_lang` |
| `Read`, `ReadShort`, `Eof`, `Put`, `PutWaited` | `_read_loop` and `_read_one`; the look into `_pending` and the put are two steps |
| `Take`, `Answer`, `Chatter`, `Complain`, `Flush`, `Die` | external: the server |

Abstractions: a message is its id and whether it is a response; a pipe holds a
number of messages, not of bytes, and a write is complete or has not begun; a
deadline may pass whenever the queue is empty; the server has one thread that does
not read while it writes; what the answers become is left out. The error output is a
pipe as well, and nobody reads it (`client.py:69-74`): `errs` counts what the server
has written to it, and one that writes more than it holds is `Blocked` for good and
reads nothing any more.

### CallGraph

A file goes through the contents of `History[f]`: the symbols it defines in
order, the calls by name, the imports. `nodes`, `calls`, `imports`, `fnodes` are
the graph, `recorded` is `merkle_files`, and `walked` what the running ingest has
read. `FirstOf` is the loop that returns at the first match.

| action or operator | code in `features/symbol` |
|---|---|
| `Meaning`, with `InFile`, `ByImport`, `Anywhere` | `extract_calls.py`: the tiers of `resolve_calls_with_source`, `_from_imports`, `by_name` |
| `Imported`, `ImportsOf` | `_resolve_imports_to_files`, and `store.py`'s own `_resolve_import_to_file`, which does not look at siblings |
| `Merged` | `_merge_calls` with what a language server told |
| `BeginFull`, `BeginDelta`, `Detach`, `Detached`, `Walk` | the ingests, as in `Ingest` |
| `UpsertFiles`, `PruneSymbols`, `UpsertSymbols`, `PruneImports`, `UpsertImports` | `upsert_files_and_symbols`, a step for each kind of statement |
| `Resolve` | the files are read again, so lines and symbols may not fit; one of `Unsteady` may not be readable, and gives no calls |
| `PruneCalls`, `UpsertCalls`, `Record` | `upsert_call_edges` in batches; the hashes |
| `Abort`, `Change` | the ingest dies; an edit |

Abstractions: what a parser makes of source text is the `History`; the candidates
of an import are a sequence of paths near the importer and one from the root; the
batches of one kind of statement are one step, but for the edges.

### Summarise

A candidate is one definition; overloads of a method have one fqname
(`extract.py:264-270`, `298-301`), so several candidates may have one node (`Node`).
A summary is the candidate whose body the model was shown and the run that showed
it. `future` is the state of each candidate's call, `arrived` the completed ones in
the order in which the main thread is given them, `blank` the candidates at whose
lines nothing was found, `recent` the window of the breaker, `counts` the report.
`burnt` and `lost` are histories: calls made to a dead server, results whose write
failed.

| action | code |
|---|---|
| `Begin`, `Resume` | `api/commands/summarise_symbols.py`: walk, then leave out what has a summary |
| `Read` | the candidates by size, cut at the limit, their lines read again; files that are gone, unreadable or too large are dropped, and an edited one may have nothing at those lines |
| `Listen` | the futures are submitted while the pool works; what is done by the time `as_completed` is called comes in any order |
| `Start`, `Finish` | `_process_one` in the pool or, with concurrency 1, in the main thread |
| `Take`, `Write` | `as_completed`, `_record`, `on_each` with `write_symbol_summaries`; `Tripped` is the breaker |
| `Cancel`, `Cancelled`, `Abort`, `Done` | pending futures are cancelled one by one while threads take them up; the pool waits for the rest |
| `Kill`, `GoDown`, `ComeUp`, `Prune`, `Recreate` | external |

### Query

A row is a model value; `hit` is the fastpath's finding, `found` and `fulltext` the
two ranked lists, `cand` and `candSyms` the candidates, `g` the grounding, `bundle`
the bundle, `whole` the bundle before the cut, `failed` a history of the stages that
failed. `Silent` are the stages whose helper catches its own exception.

| action | code in `query` |
|---|---|
| `Ask` | `fastpath.detect`; a blank question skips `translate` |
| `FindChunks`, `FindSymbolsIn`, `FindFulltext` | the searches of `translator.py` |
| `Fuse`, with `Vote`, `Score`, `Fused` | `_rrf_fuse` and `_path_prior`, whose bonuses add up to one of `Priors`, in integers |
| `Rerank`, `OneHop` | `_rerank`, `_expand_one_hop` and the cap |
| `ReadCatalog`, `ReadSummaries`, `Ground` | the prompt; any answer of the model, whole, broken off between its lists, or none; the filters and the fallback |
| `HydrateServices` ... `Code` | the stages of `bundle.py`'s `query`, each `Sets` or `Misses` |
| `Remembered`, `VectorRecall`, `CrossRepo` | the memory layer and the links |
| `Trim`: `Cut`, with `Dropped` and `Trimmed`, or `Uncounted` | `_trim_to_budget`; or `_count_tokens` raises, and the request is over |
| `Detach` | external: an ingest |

Abstractions: which rows a search finds, and in which order a database or a reranker
returns them, is left open. So is, with one exception, which rows a query with a
LIMIT returns when there are more (`Rows`): the chunks of the first files are
returned by their lines (`Earliest`, `ByLine`), and are model values of their own,
several to a file. Tokens are a weight per row that `render` shows, which is only
the first so many of a part (`Shown`); only the last name of a symbol counts for the
fastpath. `VectorRecall` can only fail: `bundle.py:320` calls
`translator._embed_query`, which does not exist, and the `except` around it adds a
line to `bundle.errors` each time.

### Control

`file` is what `scheduler.yaml` is loaded as, `proc` the state of each process,
`pc`, `cfg`, `other` the commands under way. `meant`, `spoilt` and `raced` are
histories: what the file would hold if commands were atomic, and whether they
overlapped.

| action | code |
|---|---|
| `Begin`, `Load`, `Truncate`, `Save` | `add_repo`, `remove_repo` (runner.py) and the dashboard's uses of them; `write_text` empties the file first |
| `BeginDaemon`, `Check`, `Fork`, `Await` | `daemonize`, the parent |
| `OpenPidfile`, `WritePidfile`, `Configure`, `Unlink`, `Exit` | the grandchild |
| `BeginStop`, `ReadPidfile`, `Term`, `Poll`, `Kill`, `Stopped` | `stop_daemon` |
| `Perish`, `Interrupt` | a daemon or a command dies |

Abstractions: the settings of a repository are one value; a file that cannot be
parsed is loaded as an empty one, as `load` does; the two forks are one step; a
process that is sent SIGKILL (`Kill`) is taken for ended, where `stop_daemon` sleeps
half a second and returns True without a look; what the loop does is left to
`Scheduler`.

## 3. Runs

Every pid, file or symbol is a model value; every counter is cut by the bound of
its name. All instances are explored completely.

| run | instance | shows |
|---|---|---|
| `crowd` | 2 schedulers, 1 repository, the command line, reused pids, a crash | `NoDoubleIngest` in the widest environment: races, reuse, bypassing ingests |
| `lock` | 2 schedulers, 2 repositories, 2 thread identities, a crash, `SpecNoRace` | `Scheduler` implements `OneIngest`; no lockfile is orphaned or given up early |
| `fair` | a looping scheduler, a one-shot one, 2 repositories of which one hangs, a crash, `FairSpec` | no repository starves |
| `converge` | 2 files, failing git, an abort, a full ingest by hand | `Ingest` implements `Follow`; what is recorded is in the graph; convergence after an interrupted run; runs become no-ops |
| `removals` | deletions, an ignored file, failing git, failing model, no aborts | convergence; `no_changes` is true; summaries are never lost |
| `memory` | 2 clients, a text and a blank one, 3 nodes of which 2 may grow old, batches of 1 | `Memory` implements `Corrections`; the safety of the memory |
| `lsp` | initialize, 2 queries, shutdown, a file to open, pipes of 1 message, an error output of none, 2 messages that answer nothing, `FairSpec` | the reader serves, no server is left behind, the session ends or hangs in a write behind a server that is blocked or not listened to |
| `callgraph` | 3 files with 7 contents, one of them absence, 6 symbols of 3 names, a language server's call, a file that may not be readable twice, an abort, a full ingest besides the deltas, `FairSpec` | what the edges say of known files is so, and what is gone goes |
| `summarise` | 3 candidates, 2 of them overloads, 2 threads, a window of 2, 2 runs, 2 faults, `FairSpec` | the breaker, the abort, the report, the resume; a run ends |
| `query` | 2 files, 2 symbols of one name, 3 chunks, 3 facts, path priors of one bonus and of two, LIMITs of 1 and 2, a failing stage or count, a detached file, 2 budgets | what a bundle may and must hold, before and after the cut |
| `control` | 2 clients, 3 commands, 3 processes, a death | no change lost and no second daemon, unless commands overlap |
| `reload` | 1 client, 1 daemon, 2 repositories, `FairSpec` | refuted: a change reaches the daemon, see section 6 |

Why the bounds are enough. Two schedulers are what a race takes, and no invariant of
`Scheduler` relates more than two processes, two threads and two repositories; two
thread identities per repository let a zombie and its successor coexist where they
wrongly do. In `Ingest` files interact only through "all hashes are zero", the pack
and HEAD, so two files show each interaction; three contents give every file a
before, a during and an after; one abort at every position followed by a whole run
covers "interrupted, then resumed", and the theorem of section 5 covers any number
of them. In `Memory` two clients race for a text and for a node, a third node makes
a chain of replacements, and the theorems cover any number of each. In `LspClient`
two queries let the answer to the first arrive during the second, two idle messages
keep a server writing while another waits in the pipe, and a pipe of one message is
full as soon as it is not empty; the theorems cover any of these. In `CallGraph`
three files are a caller, a callee and one that is as good a candidate by another
tier; the contents bring each tier into play, change the tier of a call, take away a
callee, and delete a file and bring it back. In `Summarise` three candidates and two
threads let results of before and after the server's death be under way together,
and leave one pending to be cancelled. In `Query` two of everything make an order
and a choice, and each LIMIT but that of the neighbours (`HopLimit`) is smaller than
what one of the queries finds; a second failing stage would only leave out more, as
the theorems confirm. In `Control` two commands overlap, a third follows them, and
three processes are a daemon, its successor and one more.

`CHECK_DEADLOCK FALSE` is set in all `Scheduler` and `Control` configurations,
because all processes may have ended, and in those of `LspClient`, `Query`,
`Summarise` and `CallGraph`, because a session, a request, the runs and the edits
come to an end. In `Ingest` a delta can always begin and in `Memory` a call can
always end, so deadlock is checked.

**Fairness.** In `Scheduler`: the main thread keeps running (it never waits for
anything but a timed `join` or a timed sleep), intervals elapse, and an ingest ends
unless its repository is in `HungRepos`. Nothing is assumed of crashes, launches,
signals and command line users; the property is stated of schedulers that stay up.
In `Ingest`: deltas begin again and again (the scheduler's `EveryRepoIngested`) and
one that has begun takes its next step; nothing is assumed of edits, commits,
aborts, full ingests or the outcomes of git. In `CallGraph`: the same. In
`LspClient`: the two threads keep running and deadlines pass, and a server that is
up and not blocked in its error output reads its input and writes its output when it
can. It need not answer. One that stops reading for reasons of its own does to the
client what a blocked one does. In `Summarise`: the main thread and the threads of
the pool keep running, and a call ends, since its requests have a timeout and there
are finitely many retries; nothing is assumed of the server. In `Control`: processes
run.

**Environments.** Each assumption below is a constant or a specification; the last
column says what fails without it:

| assumption | where | without it |
|---|---|---|
| `SpecNoRace`: no two schedulers between check and write | `lock` | `MutualExclusion` and `OneIngestAtATime` fail under `Spec` |
| `Clis = {}`: nobody ingests past the lockfile | `lock` | the same two fail: set `Clis` |
| `PidReuse = FALSE` | `lock` | `NoLeakedLock` and `EveryRepoIngested` fail: set `PidReuse` |
| `SpecSerial`: ingests do not overlap | Ingest | `RecordedIsIndexed` fails under `Spec` with two workers |
| `Restore = FALSE` | Ingest | `RecordedIsIndexed`, `Follows` and `Converges` fail: set it |
| `Revert = FALSE` | Ingest | `RecordedIsIndexed`, `RecordedHasText` and `Follows` fail: set it in `converge` |
| `adverse = {}` | `ReaderServes` | the reader dies or is stuck; `SessionEnds` allows the hang that follows, see section 6 |
| `adverse = {}` and `~Blocked` | `SessionEnds`, `SessionMoves` | the session hangs in `_send` for ever; with either, the two say that it hangs nowhere else |
| `RestoreReplaced = FALSE` | `memory` | `NoCoSurfacing`, `AppliedInFull` and `Corrects` fail: set it |
| the text is not blank | `CopiesBounded` | blank texts are not looked for, so there is no bound |
| no body is blank (`counts["skipped"] = {}`) | `BreakerTrips` | a blank body is taken for a sign of life of the server |
| `here = Files`: no file detached meanwhile | `Complete` | what hangs on a detached file is gone, and nothing tells |
| `~spoilt`, `~raced` | `RegistryKept`, `OneDaemon` | a change is lost; a second daemon starts |

## 4. Properties

Each property is stated and explained where it is defined. For each of them
`PROJECT.json` names a slip in the code (the definitions under "Slips" in the
modules, none of which is part of `Next`) that breaks it in the same run. The type
invariants of `Ingest`, `Memory`, `LspClient`, `CallGraph`, `Summarise` and `Query`
are in no run, since they are proved for every value of the constants, and so are
`Locked`, `OwnUnlessAsked`, `SessionMoves`, `RunDescends` and `NeverStuck`.

## 5. Proofs

The `_proof` modules hold for every value of the constants: any number of
processes, repositories, threads, files, contents, edits, commits, aborts, clients,
texts, nodes, requests, symbols, runs, failing stages and detached files, pipes and
windows of any size, and any weights and budgets. `PROJECT.json` lists the theorems.

*Scheduler.* `TypeCorrect` is inductive by itself. `NoDoubleIngest` is not: a
worker could be doubled by a tick that has forgotten an earlier one. The
strengthening `LocalInv` says that every worker of a scheduler is either in
`_LIVE_WORKERS` or the one just started, and that a tick past its first look
has none registered; it needs nothing from the lockfile, so the theorem holds
with races, reuse and bypassing ingests. `PidInv` (lockfiles name pids that
have existed) gives `NoLeakedLock` when pids are not reused. `LockInv` (who
holds is named, a registered worker is named, a scheduler about to write sees
nobody alive named) gives `LockNamesWorker`, `MutualExclusion` and the action
property `ReleasedOnlyWhenIdle` under `SpecNoRace`. The refinement
`OneIngestAtATime` follows from `LockInv`: the one step that adds a thread,
`StartWorker`, is taken by the holder of the lock, and then no other thread
ingests the repository, so it is a `Begin`; every other step takes threads away,
an `End`, or leaves them.

*Ingest.* `RecordedIsIndexed` is not inductive: between the graph writes and
`Record` a hash may come to match. `SerialInv` follows a run: what it has
walked is in the graph from the files stage (symbols from the symbols stage) on,
and either is still the content or the file will be found changed; it only
detaches files deleted for good. For that, `FreshInv` (nothing is newer than
`clock`) and `GoneInv` (what is missing from the tree or from a later commit
was deleted) are needed. The theorem assumes `~Revert` and `~Restore`, without
which it is false (section 3, Environments).

The other safety properties rest on this one, `SerialAll` in the proof module, each
with an invariant of its own. `PackInv` says that what is still as packed was walked
as packed and is recorded by the time the pack is; `PackedIsIndexed` follows where
no ingest leaves the symbols out (`SkipInv`), and there only: section 6 shows what
`--skip-symbols` does. `TextInv` follows summaries and chunks through a run from the
content walked; `RecordedHasText` follows where no stage is left out, the model does
not fail and every content has chunks. `SummaryInv` keeps summaries, written or
drafted, in the order of the contents (`TextFresh`: none is newer than `clock`),
which gives `SummaryNeverLost` though the model may fail. `NodeInv` says that what
is in the graph is recorded or will be; it needs `MaxAborts = 0` and gives
`NoChangesIsTrue`.

The refinement `Follows` needs all that `RecordedIsIndexed` does and the order of
the contents besides: `OrderInv` says that no record is newer than what is on disk
or than what a run has walked of the file, so what a stage writes, and what `Record`
then records, moves the file forward. `FollowStep` looks at each action by what it
does to the three variables of `Follow`. `SerialIsLocked` shows that the assumption
made throughout, `SpecSerial`, is the promise of the lockfile, neither more nor
less: a step of `Ingest` moves one ingest at most (`PcSteps`), so from a state with
at most one it leads to one such exactly when it is a step of `OneIngest`
(`LockedStep`). `FollowingSuffices` shows that `Follow` is worth implementing:
`RecordedIsIndexed` follows from it alone, without any of the invariants.

*Memory.* `NoCoSurfacing` is not inductive: a link might be drawn from a node to
a younger one, or to one a later step brings back. `MadeInv` and `CallInv` say
that a call supersedes only nodes older than its own, `EdgeInv` that links lead
from a node that is there to an older one that is out of recall, and
`AppliedInv` that what a call has worked off is linked to its node while both
are there. `EdgeInv` gives `NoCoSurfacing` and, with `AppliedInv`, the action
property `AppliedInFull`; both assume `~RestoreReplaced`. `SupersededIsReplaced`
needs only the first two. `CopiesBounded` counts, besides the copies of a text,
the clients that have found none and are about to make one; the sum never
exceeds the number of clients. The refinement `Corrects` rests on `MadeInv` and
`CallInv`: they make each `Supersede` a `Correct` of an older fact, and a duplicate
touched or a call that dies a stutter. `CorrectingSuffices` derives `NoCoSurfacing`
from `Corrections` alone. The only assumption on the constants is that the
clients are finitely many.

*LspClient.* `TypeCorrect` needs `CountInv`: ids stay within the bound because
one is left for shutdown. `ServerStopped` follows from where a session can end.
`ReaderServes` is not inductive: why should the queue of a message the reader
has found be there, and empty? `QuietInv` answers it: the request under way is
the only one in `_pending` (`BoxInv`), and a request is in one place, unsent, on
its way, with the server, being answered, on its way back or arrived, and there
once (`OnceInv`), so the answer in the reader's hand is the first (`FoundInv`).
Every step either moves no message or moves one from a place to the next (the
lemmas `Unmoved` and `Moved`). It assumes that nothing has gone wrong so far;
`QuietBefore` says that what has gone wrong stays so.

`OwnUnlessAsked` separates the one cause of a wrong answer from the others: it holds
also when the reader has died, a read was short or an answer came late, since what
is in a box, in a hand or on a pipe and carries the id of a request is the answer to
it until the server asks something (`OwnInv`). `SessionMoves` says where a deadlock
can be, with the guards of the three sides written out (`ClientCan`, `ReaderCan`,
`ServerCan`): only with the client in a write (`Hung`), behind a server that is
blocked in its error output or once something adverse has happened. `WaitInv` says
that a request under way has its queue, so a client in `wait` lets its deadline pass
or finds an answer, and that there is a server to write to; the rest is
`ReaderServes` and the pipes: a client that is stuck in `_send` faces a server that
does not read, because it is blocked or because it writes, and the latter a full
pipe, which the reader reads. It assumes that the pipes hold at least one message.

*CallGraph.* `CallsAreMade` is not inductive: a running ingest holds edges it has
yet to write. `WalkInv` says that a file is recorded, walked and changed in this
order, so one that is known and walked was walked as it is now, and `_detach_files`
is never about a file that is known. `NodesInv` says how far the ingest has come
with the symbols of the files it walks, `EdgesInv` that the edges it holds, and
after `PruneCalls` all those of the files walked, are borne out by the contents
walked if these are still there; that rests on what a call can mean (`MeaningIs`,
`ResolvedIs`). `Record` makes known only what the three speak of. `OthersOnlyLose`
follows from `EdgesInv`. `Replaced` speaks of a whole ingest, and of edges in both
directions: those of the files walked are borne out (`EdgesInv`), and each one that
should be there is, unless its file could not be read again, in the graph or still
in hand, with the tier it deserves (`ReplaceInv`); at the end there is nothing in
hand. It assumes that the callers found in a file are among the symbols found in it
(`_enclosing_symbol`).

*Summarise.* `PoolInv` says where a result can be: arrived once, in hand, or taken.
`NoCallAfterAbort` follows from it (nothing is pending when the pool drains).
`BreakerTrips` says that of the calls burnt on a dead server fewer than `Window` are
taken while the loop runs. That needs an order: the results of burnt calls come
after all those of the living server and nothing but errors after them (`OrderInv`),
so the ones taken are the last in `recent` (`BreakerInv`), and a window full of
errors has tripped. `ReportInv` keeps the counts disjoint and equal to what was
taken; `KeepInv` says that without `--redo-existing` the node of a candidate still
to be dealt with has no summary but one of this run (`Fresh`), written for an
overload.

That a run ends is half proved. `Left` counts what is still to be done, four for a
call that is pending, three while it runs, two for its result, and the steps of the
main thread before the next; `RunDescends` says that every step of the run makes it
smaller and none of the environment makes it larger. `NeverStuck` says that there is
always such a step: a thread of the pool is free or a call is running, and of the
pending ones some have the longest body (`BiggerAssumption`); `ArrivedInv` says
that no call that is done has lost its result, so a main thread with nothing to take
has calls that are pending or running. What is left to TLC is that
fairness turns this into `RunEnds`.

*Query.* `GroundInv` follows what was chosen through the stages, `ErrorsInv` the
errors: in an answer they are those of the stages that failed but for the silent
ones, so a source of which they say nothing did not fail, which is what turns
`CompleteInv` into `Complete`. The properties of the finished bundle need, for each
stage, that the parts it is to fill are still empty (`EmptyInv`), what it makes of
its part (`OwnPart`, `OwnDone` in the proof module) and what the stages before it
have left (`CompleteInv`). `TrimmedIs` says that the cut is the first in the list of
cuts that fits, or the last; `Anchored` and `CutInOrder` follow by looking at each.
`FusionIsFair` needs `OnceInv` (no list names a file twice) and two facts about
numbers: a quotient does not grow with its divisor (`Quotients`), and so a vote not
with the position (`VoteOrder`); a tie is broken by the position in both lists,
where the file ahead comes first.

*Control.* `RegistryInv` (one client changes the file at a time, and what it is to
save is what is there, changed) gives `RegistryKept`. `PidfileInv` gives
`OneDaemon`: a daemon without its pid in the file is awaited by a command, one with
it is the only one, and whoever is about to fork has seen none. `StopInv` says what
a `stop` that is about to unlink the pidfile may rely on: the process it has found
has ended. That a process sent SIGKILL has ended half a second later, without a
look, is an assumption of `Kill`, not a result.

*Only model-checked:* the liveness properties (`EveryRepoIngested`, `Converges`,
`Settles`, `SessionEnds`, `RunEnds`, `NoGhosts`), since the prover has no fairness
reasoning beyond propositional temporal logic and none about ENABLED. Of `RunEnds`
the two halves are proved, `RunDescends` and `NeverStuck`; of `SessionEnds` that
client, reader and server wait for one another in the one place only,
`SessionMoves`. That the guards named there (`CanStart`, `ClientCan`, `ReaderCan`,
`ServerCan`) are those of the actions is to be read off the definitions.

## 6. Where the code and its words disagree

Shown by a run:

* `reload`: the comment of the dashboard (`ui/server.py:592-593`) says that the
  scheduler reloads its configuration each tick and needs no restart; `run_loop`
  loads it once, before the loop (`runner.py:508`). A repository that is added is
  not swept and one that is removed goes on being swept until the daemon is
  restarted.

Shown by the modules, with the constants or the formula given:

*Scheduler and ingest*

* two schedulers can both acquire a lockfile (`runner.py:233-242`;
  `MutualExclusion` under `Spec`);
* a timed-out worker keeps running and the loop goes on to the next repository,
  so two threads use the one state connection and its transaction that
  `core/state.py:27-30` declares safe without a lock (states of `lock` with two
  threads of a process);
* the command line and the hooks ignore the lockfile (`Clis = {c1}`);
* a reused pid locks a repository out until the other process dies
  (`PidReuse = TRUE`; `runner.py:239` reclaims "stale" locks by pid alone);
* on SIGTERM the loop returns while a timed-out worker is running and the
  process ends with it, in the middle of its statements, although
  `runner.py:28` promises that the in-flight delta finishes;
* two overlapping ingests of a repository record the hash of one and keep the
  graph data of the other (`Workers = {w1, w2}` under `Spec`);
* rows of `merkle_files` are never deleted, so a deleted file that comes back with
  its old content is not indexed again by a delta (`Restore = TRUE`), and one
  deleted outside a commit is found deleted by every later delta: deltas never
  become no-ops, although `README.md:57` says they do (`Settles` with `Deletable`);
* an ingest that ends between the graph and the hashes leaves the new data in
  the graph; if the edit is undone, the old hash says all is well (`Revert = TRUE`);
* the hash comparison sees files git ignores and the walk leaves them out, so
  they are found changed for ever (`Ignored = {f2}`, `Settles`);
* an ingest aborted before `Record`, followed by the deletion of a new file,
  leaves a node nothing will detach (`MaxAborts = 1` with `Deletable`,
  `Converges`), and its symbols and calls with it (`NoGhosts` without `Tracked`);
* with `--skip-symbols` a full ingest records its pack and no hash: from then on
  every delta is a cold start and every full ingest is skipped
  (`Skips = {{}, {"symbols"}}`, `Converges`);
* a file whose new content gives no chunk keeps its old chunks
  (`Chunkless = {2}`, `RecordedHasText`).

*Call edges*

* `extract_calls.py:9` resolves a call to "any Symbol_v2 in the repo", but a delta
  hands the resolver only the files it walks (`delta/extract.py:246`): calls into
  files that did not change are lost when the caller changes, and calls from files
  that did not change are lost with the symbol they call and not found again when
  it comes back (`CallersFound`, an invariant of no run, fails in `callgraph`'s
  instance);
* the fuzzy tier gives up when the first symbol of that name is the caller, also if
  there is another;
* a file that cannot be read again for its calls is passed over
  (`extract_calls.py:264-271`), its old calls are pruned like the others' and its
  hash is recorded: it has no calls until it changes (`unread` in `Replaced`);
* an import of a sibling makes calls possible but no IMPORTS edge, which is
  resolved by paths from the root only (`Imported` and `ImportsOf`).

*Symbol summaries*

* the breaker looks at a full window, so a run with fewer candidates than
  `Window` never trips;
* a body that is blank is "skipped" and counts as a sign of life;
* a symbol found trivial gets no mark, so each run asks again, although
  `store_summary.py:3-6` speaks of resuming where the last run stopped;
* a summary stays when the body changes: resume looks only at its presence;
* overloads of a method are as many candidates and one node: each call is paid for,
  each counts as written, and the last one to be taken overwrites the others, also
  without `--redo-existing`; `SummariesKept` therefore speaks of the summaries that
  were there when the run began;
* when a run is given up, results of calls under way are dropped; a write that
  raises is neither written nor counted (`lost`).

*Memory*

* `upsert_observation` returns from its dedupe branch before it looks at
  `supersedes`: a fact stated again as the correction of its correction, or a call
  made again after it died half way, replaces nothing, and the answer does not say
  so (`LastWriteWins`); if the duplicate is superseded or archived, the fact
  remembered is not even recalled (`store.py:234`);
* `restore` makes active whatever it is given: an observation that was superseded,
  then soft-forgotten and restored, is recalled beside its correction
  (`RestoreReplaced = TRUE`, `NoCoSurfacing`); one that was archived is archived
  again by the next decay, because neither its age nor its count has changed
  (`decay.py:36`);
* two clients may create the same text twice (`CopiesBounded` with the bound 1), and
  a blank one as often as they like (`store.py:228`).

*Language servers*

* the reader hands any message with the id of a pending request to it, also a
  request of the server, which numbers its own as it likes
  (`features/lsp/client.py:219`); the comment below says such requests are ignored.
  The references of that symbol are lost, or the session is taken for initialized,
  and the true answer goes to a queue that is still full or gone (`OwnAnswer`);
* the error output of the server is a pipe nobody reads (`client.py:69-74`): once a
  server that logs there has filled it, it reads and answers nothing, and the
  client, whose next `didOpen` or request does not fit into the pipe to it, waits in
  `_send` for ever, since only the wait for an answer has a deadline (`SessionEnds`
  without `Blocked`);
* an answer that arrives as its request expires ends the reader with a KeyError
  (`features/lsp/client.py:219-220`). Then nobody empties the server's output, the
  server stops reading its input, and the client waits in `_send`, which has no
  deadline: the session, and with it the ingest, hangs for ever (`SessionEnds`
  without `adverse # {}`). It takes a client that writes more than the pipe holds,
  as `didOpen` with whole files does;
* `stdout` is unbuffered (`client.py:73`), so `stream.read(n)` may return less
  than a message: that parses as nothing, and the reader takes it for the end of
  the stream (`"short"` in `adverse`). Every request from then on times out;
* when `initialize` fails in `__enter__`, `__exit__` is not called and the server
  is left running (`ServerStopped` without `phase # "init"`).

*Read API*

* "recorded in bundle.errors" is not so for the stages in `Silent`: their helpers
  catch the exception and return nothing, so the `except` that would record it
  never runs;
* "any sub-stage failure leaves Grounding partially populated and adds an entry to
  .errors" (`translator.py:65-66`) and "degrades that source to empty"
  (`bundle.py:219`) are not so for two: `_services_for` is called outside any `try`
  (`translator.py:154`), and so is `_trim_to_budget` (`bundle.py:359`), whose
  `_count_tokens` catches nothing but an ImportError, while `tiktoken` raises a
  ValueError for a special token in a chunk and another error if it cannot load its
  encoding. Either ends the whole request (`raised`), the second with all that was
  found;
* the vector recall of the memory never runs, and each bundle about a file or a
  symbol says so in its errors (`bundle.py:320`, see section 2);
* names the model invents are dropped without a word, although `translator.py:12-13`
  says that they surface in `bundle.errors`;
* the path prior, of bonuses of 0.02 to 0.04 that add up, is larger than any vote of
  a list (at most 1/61), so the name of a folder outweighs both searches; what is
  left of the order is `FusionIsFair`;
* after the last cut the size is not looked at again, so the bundle may still be
  over the budget (the last disjunct of `CutInOrder`);
* a decision all of whose files have been detached counts as one about the whole
  repository and is shown for every question (`Hangs`);
* observations are read without a look at their status (`_observations_for`).

*Configuration and daemon*

* two changes of `scheduler.yaml` that overlap lose one, and one killed in its write
  leaves an empty file, which the next change makes good for (`spoilt`);
* a daemon that loads the file while it is empty finds no repositories and exits;
* two `schedule daemon` at once, or one and a `stop`, may leave two daemons or one
  without a pidfile, because every daemon and every `stop` unlinks the file whoever
  it names (`raced`);
* the parent of `daemonize` may return the pid of an older daemon, or none, for a
  daemon that is well;
* `stop` kills after 30 s a daemon whose tick may take an hour.

Read in the code and not modelled: the dashboard's reindex job calls
`state_db.connect()`, which does not exist (`ui/server.py:522`), so the job stays
"running" and its driver open; its deletion of a repository purges the graph and
leaves the state database, so a repository added again is taken for indexed.

## 7. Not modelled

| part | why |
|---|---|
| memory digest | dead code: `select_cold` needs `created_at_epoch`, which `list_memory` does not return |
| repo summary, services, links, external ingest, connectors | sequences of independent upserts by key; a failed one is repeated as a whole |
| HTTP and command line wrappers, dashboard views | they call what is modelled and keep nothing |
| configuration, schema DDL, operations, evaluation | pure I/O, run by hand |
| what a parser, a search, a model or a reranker computes | left open: any result is allowed |
| status journal, `neo4j_down` backoff, driver refresh | the journal informs only; the backoff delays ticks, which may come at any time in `Scheduler`; a driver closed under a zombie is one of its aborts in `Ingest` |

What a team might add: an instance of `Query` with a reranker that fails by timeout,
and the composition of `Ingest` and `CallGraph` in one module, which TLC could only
explore for a single file. The step from the threads of `Scheduler` to the ingests
within them, that is from `OneIngestAtATime` to `Locked`, is stated here in words
only; ranking arguments like that of `Summarise` could be given for `Ingest` and the
session of `LspClient`.
