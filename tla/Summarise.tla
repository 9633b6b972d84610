--------------------------------- MODULE Summarise ---------------------------------
(***************************************************************************)
(* `summarise-symbols` of one repository, run after run:                   *)
(* api/commands/summarise_symbols.py (run), features/symbol/summarise.py   *)
(* (summarise_symbols, its thread pool and its circuit breaker) and        *)
(* features/symbol/store_summary.py (write_symbol_summaries).              *)
(*                                                                         *)
(* A run walks the tree, leaves out what has a summary already, reads the  *)
(* bodies, and asks the model about each in a pool of threads.  The main   *)
(* thread takes the answers as they come, writes each to the graph, and    *)
(* gives up when too many of the last ones were errors.  Meanwhile the     *)
(* model's server goes down and up, an ingest re-creates or prunes         *)
(* symbols, people edit files, and the run may be killed.                  *)
(*                                                                         *)
(* A candidate is one definition in a file; overloads of a method share    *)
(* their fqname, and so their node and its summary.  A summary is the      *)
(* candidate whose body the model was shown and the run that showed it.    *)
(***************************************************************************)
EXTENDS Integers, FiniteSets, Sequences, Functions

CONSTANTS
    Symbols,       \* the methods and functions long enough to qualify
    Nodes,         \* their fqnames
    Node,          \* Node[s]: the fqname of s
    Bigger,        \* Bigger[s]: the symbols with a longer body than s
    Limits,        \* the values of --limit
    Concurrency,   \* AIFORGE_SYMSUM_CONCURRENCY
    AbortAfter,    \* AIFORGE_SYMSUM_ABORT_AFTER
    WindowFloor,   \* the least window of the breaker: 8
    NoSummary,     \* Symbol_v2.summary unset
    MaxRuns,       \* bound on the runs
    MaxFaults      \* bound on what goes wrong: files edited or unreadable,
                   \* symbols pruned, the server going down, writes that fail,
                   \* runs killed

ASSUME SummariseAssumption ==
    /\ IsFiniteSet(Symbols)
    /\ Node \in [Symbols -> Nodes]
    /\ Bigger \in [Symbols -> SUBSET Symbols]
    /\ Limits \subseteq Nat /\ Limits # {}
    /\ {Concurrency, AbortAfter, WindowFloor} \subseteq Nat \ {0}
    /\ NoSummary \notin Symbols \X Nat
    /\ {MaxRuns, MaxFaults} \subseteq Nat

\* Of any symbols, some have the longest body.
ASSUME BiggerAssumption ==
    \A S \in (SUBSET Symbols) \ {{}} : \E s \in S : Bigger[s] \cap S = {}

VARIABLES
    nodes,     \* the Symbol_v2 nodes
    summary,   \* Symbol_v2.summary: of which candidate, by which run
    up,        \* the model's server answers
    pc,        \* the main thread: idle, resume, read, submit, loop, write,
               \* cancel, drain
    redo,      \* --redo-existing
    blank,     \* the candidates at whose lines nothing was found
    future,    \* future[s]: none, pending, running, done, taken or cancelled
    arrived,   \* the results the main thread has not taken, in the order in
               \* which as_completed hands them out
    cur,       \* the result the main thread has in hand
    recent,    \* cb_state: the last results, TRUE for an error
    counts,    \* what the run reports: the symbols under each count
    lost,      \* the symbols of results that were not written
    burnt,     \* the calls that ended with an error of a dead server since it
               \* went down and since the main thread waits for them
    last,      \* how the last run ended
    runs, faults   \* so far

world == <<nodes, summary, up>>
tally == <<runs, faults>>
local == <<redo, blank, future, arrived, cur, recent, counts, lost, burnt>>
vars == <<world, pc, local, last, tally>>

Results == {"summary", "trivial", "error", "short"}
Futures == {"none", "pending", "running", "done", "taken", "cancelled"}
Counts == {"written", "trivial", "skipped", "missing", "llm_error"}
NoCounts == [k \in Counts |-> {}]

\* The serial path counts consecutive errors: it trips when all of the last
\* AbortAfter were errors.  The concurrent one looks at a wider window.
Window ==
    IF Concurrency = 1 THEN AbortAfter
    ELSE IF 2 * AbortAfter > WindowFloor THEN 2 * AbortAfter ELSE WindowFloor

Are(state) == {s \in Symbols : future[s] = state}
Many(state) == Cardinality(Are(state))
Errors(q) == Cardinality({i \in DOMAIN q : q[i]})

TypeOK ==
    /\ nodes \subseteq Nodes
    /\ summary \in [Nodes -> (Symbols \X Nat) \cup {NoSummary}]
    /\ {up, redo} \subseteq BOOLEAN
    /\ pc \in {"idle", "resume", "read", "submit", "loop", "write", "cancel",
               "drain"}
    /\ future \in [Symbols -> Futures]
    /\ arrived \in Seq([sym : Symbols, result : Results])
    /\ cur \in IF pc = "write" THEN [sym : Symbols, result : Results] ELSE {<<>>}
    /\ recent \in Seq(BOOLEAN) /\ Len(recent) <= Window
    /\ counts \in [Counts -> SUBSET Symbols]
    /\ {blank, lost, burnt} \subseteq SUBSET Symbols
    /\ last \in {"none", "done", "aborted", "killed"}
    /\ {runs, faults} \subseteq Nat

Init ==
    /\ nodes = Nodes
    /\ summary = [n \in Nodes |-> NoSummary]
    /\ up = TRUE
    /\ pc = "idle" /\ redo = FALSE
    /\ future = [s \in Symbols |-> "none"]
    /\ arrived = <<>> /\ cur = <<>> /\ recent = <<>>
    /\ counts = NoCounts
    /\ blank = {} /\ lost = {} /\ burnt = {}
    /\ last = "none"
    /\ runs = 0 /\ faults = 0

-----------------------------------------------------------------------------
(* The main thread: before the calls.                                      *)

Goto(p) == pc' = p

\* One more thing goes wrong.
Fault == faults < MaxFaults /\ faults' = faults + 1

\* run: walk_repo notes where the symbols are in the files.
Begin ==
    /\ pc = "idle" /\ runs < MaxRuns
    /\ runs' = runs + 1
    /\ redo' \in BOOLEAN
    /\ last' = "none"
    /\ Goto("resume")
    /\ UNCHANGED <<world, blank, future, arrived, cur, recent, counts, lost, burnt,
                   faults>>

\* What has a summary is left out, unless --redo-existing.
Resume ==
    /\ pc = "resume"
    /\ future' = [s \in Symbols |->
                    IF redo \/ summary[Node[s]] = NoSummary THEN "pending" ELSE "none"]
    /\ Goto("read")
    /\ UNCHANGED <<world, redo, blank, arrived, cur, recent, counts, lost, burnt,
                   last, tally>>

\* The bodies are read and the largest ones up to the limit kept.  Those in a
\* file that is gone, unreadable or too large are left out; where the file has
\* been edited since the walk there may be nothing at their lines.
Read ==
    /\ pc = "read"
    /\ \E limit \in Limits, unread \in SUBSET Are("pending") :
          LET found == Are("pending") \ unread
          IN /\ future' = [s \in Symbols |->
                             IF s \in found /\ Cardinality(Bigger[s] \cap found) < limit
                             THEN "pending" ELSE "none"]
             /\ blank' \in SUBSET found
             /\ IF unread \cup blank' = {} THEN UNCHANGED faults ELSE Fault
    /\ Goto("submit")
    /\ UNCHANGED <<world, redo, arrived, cur, recent, counts, lost, burnt, last, runs>>

\* pool.submit of each, while the first of them may be over already.  What is
\* over when as_completed is called it hands out in no particular order; from
\* then on, in the order of completion.
Listen ==
    /\ pc = "submit"
    /\ \E order \in Bijection(DOMAIN arrived, DOMAIN arrived) :
          arrived' = [i \in DOMAIN arrived |-> arrived[order[i]]]
    /\ Goto("loop")
    /\ UNCHANGED <<world, redo, blank, future, cur, recent, counts, lost, burnt, last,
                   tally>>

-----------------------------------------------------------------------------
(* The pool: _process_one.                                                 *)

\* A thread takes up the largest one left.  Without a pool the main thread
\* does, when it has dealt with the one before.
CanStart(s) ==
    /\ pc \notin {"idle", "resume", "read"}
    /\ future[s] = "pending" /\ Bigger[s] \cap Are("pending") = {}
    /\ Cardinality(Are("running")) < Concurrency
    /\ Concurrency = 1 => pc = "loop" /\ arrived = <<>>

Start(s) ==
    /\ CanStart(s)
    /\ future' = [future EXCEPT ![s] = "running"]
    /\ UNCHANGED <<world, pc, redo, blank, arrived, cur, recent, counts, lost, burnt,
                   last, tally>>

\* Nothing is asked about blank lines.  Else _call_llm with its retries, and
\* _parse: a server that is down gives errors.
Finish(s) ==
    /\ future[s] = "running"
    /\ future' = [future EXCEPT ![s] = "done"]
    /\ \E r \in Results :
          /\ r = "short" <=> s \in blank
          /\ ~up => r \in {"error", "short"}
          /\ arrived' = Append(arrived, [sym |-> s, result |-> r])
          /\ burnt' = IF ~up /\ r = "error" /\ pc # "submit"
                       THEN burnt \cup {s} ELSE burnt
    /\ UNCHANGED <<world, pc, redo, blank, cur, recent, counts, lost, last, tally>>

-----------------------------------------------------------------------------
(* The main thread: the results.                                           *)

Tripped == Len(recent) = Window /\ Errors(recent) >= AbortAfter

\* Slip: the window is never full.
PushedEarly(q, b) == Append(IF Len(q) = Window - 1 THEN Tail(q) ELSE q, b)

\* The last Window of them.
Pushed(q, b) == Append(IF Len(q) = Window THEN Tail(q) ELSE q, b)

\* as_completed, _record.
Take ==
    /\ pc = "loop" /\ arrived # <<>>
    /\ cur' = Head(arrived) /\ arrived' = Tail(arrived)
    /\ future' = [future EXCEPT ![cur'.sym] = "taken"]
    /\ recent' = Pushed(recent, cur'.result = "error")
    /\ Goto("write")
    /\ UNCHANGED <<world, redo, blank, counts, lost, burnt, last, tally>>

Count(k) == counts' = [counts EXCEPT ![k] = @ \cup {cur.sym}]

\* What the model has said of the candidate in hand.
Said == [summary EXCEPT ![Node[cur.sym]] = <<cur.sym, runs>>]

\* Slip: what comes back is written, whatever it is.
WriteAnything ==
    /\ pc = "write"
    /\ summary' = Said /\ Count("written")
    /\ cur' = <<>> /\ Goto(IF Tripped THEN "cancel" ELSE "loop")
    /\ UNCHANGED <<nodes, up, redo, blank, future, arrived, recent, lost, burnt,
                   last, tally>>

\* on_each: a summary is written to its node, if that is still there, over what
\* another candidate of the same fqname has left there; the rest is only
\* counted.  What the callback raises is swallowed.  Then keep_going,
\* or else leave the loop to cancel what is pending.
Write ==
    /\ pc = "write"
    /\ \/ /\ cur.result = "summary" /\ Node[cur.sym] \in nodes
          /\ summary' = Said
          /\ Count("written") /\ UNCHANGED <<lost, faults>>
       \/ /\ cur.result = "summary" /\ Node[cur.sym] \notin nodes
          /\ Count("missing") /\ UNCHANGED <<summary, lost, faults>>
       \/ /\ cur.result = "summary" /\ Fault
          /\ lost' = lost \cup {cur.sym} /\ UNCHANGED <<summary, counts>>
       \/ /\ cur.result # "summary"
          /\ Count(CASE cur.result = "trivial" -> "trivial"
                     [] cur.result = "error" -> "llm_error"
                     [] cur.result = "short" -> "skipped")
          /\ UNCHANGED <<summary, lost, faults>>
    /\ cur' = <<>> /\ Goto(IF Tripped THEN "cancel" ELSE "loop")
    /\ UNCHANGED <<nodes, up, redo, blank, future, arrived, recent, burnt, last,
                   runs>>

Cancel(s) ==
    /\ pc = "cancel"
    /\ future[s] = "pending"
    /\ future' = [future EXCEPT ![s] = "cancelled"]
    /\ UNCHANGED <<world, pc, redo, blank, arrived, cur, recent, counts, lost, burnt,
                   last, tally>>

\* Slip: the loop is left without a look at what is pending.
CancelledNone ==
    /\ pc = "cancel"
    /\ Goto("drain")
    /\ UNCHANGED <<world, local, last, tally>>

\* Slip: the loop goes on over what is not cancelled.
CancelledOn ==
    /\ pc = "cancel" /\ Are("pending") = {}
    /\ Goto("loop") /\ recent' = <<>>
    /\ UNCHANGED <<world, redo, blank, future, arrived, cur, counts, lost, burnt, last,
                   tally>>

Cancelled ==
    /\ pc = "cancel" /\ Are("pending") = {}
    /\ Goto("drain")
    /\ UNCHANGED <<world, local, last, tally>>

\* The run is over and its local variables go with it.
Ends(how) ==
    /\ last' = how
    /\ Goto("idle")
    /\ redo' = FALSE
    /\ future' = [s \in Symbols |-> "none"]
    /\ arrived' = <<>> /\ cur' = <<>> /\ recent' = <<>>
    /\ counts' = NoCounts /\ blank' = {} /\ lost' = {} /\ burnt' = {}
    /\ UNCHANGED world

\* The pool waits for the calls under way, whose results are dropped.
Abort ==
    /\ pc = "drain" /\ Are("running") = {}
    /\ Ends("aborted") /\ UNCHANGED tally

\* Slip: nothing is left to begin.
DoneBegun ==
    /\ pc = "loop" /\ Are("pending") = {}
    /\ Ends("done") /\ UNCHANGED tally

\* All results are in.
Done ==
    /\ pc = "loop" /\ \A s \in Symbols : future[s] \in {"none", "taken"}
    /\ Ends("done") /\ UNCHANGED tally

-----------------------------------------------------------------------------
(* The world.                                                              *)

Kill ==
    /\ pc # "idle" /\ Fault
    /\ Ends("killed") /\ UNCHANGED runs

GoDown ==
    /\ up /\ Fault
    /\ up' = FALSE /\ burnt' = {}
    /\ UNCHANGED <<nodes, summary, pc, redo, blank, future, arrived, cur, recent,
                   counts, lost, last, runs>>

ComeUp ==
    /\ ~up /\ up' = TRUE
    /\ burnt' = {}
    /\ UNCHANGED <<nodes, summary, pc, redo, blank, future, arrived, cur, recent,
                   counts, lost, last, tally>>

\* An ingest finds the symbol gone: DETACH DELETE, and its summary with it.
Prune(n) ==
    /\ n \in nodes /\ Fault
    /\ nodes' = nodes \ {n}
    /\ summary' = [summary EXCEPT ![n] = NoSummary]
    /\ UNCHANGED <<up, pc, local, last, runs>>

\* An ingest finds it again.  (For a symbol that is there MERGE leaves the
\* summary alone, whatever has become of the body.)
Recreate(n) ==
    /\ n \notin nodes
    /\ nodes' = nodes \cup {n}
    /\ UNCHANGED <<summary, up, pc, local, last, tally>>

-----------------------------------------------------------------------------
MainStep ==
    \/ Resume \/ Read \/ Listen \/ Take \/ Write
    \/ (\E s \in Symbols : Cancel(s)) \/ Cancelled \/ Abort \/ Done

PoolStep(s) == Start(s) \/ Finish(s)

Next ==
    \/ Begin \/ MainStep
    \/ \E s \in Symbols : PoolStep(s)
    \/ Kill \/ GoDown \/ ComeUp
    \/ \E n \in Nodes : Prune(n) \/ Recreate(n)

Spec == Init /\ [][Next]_vars

\* The main thread and the pool keep running, and a call ends: httpx gives it
\* 120 s, and there are RETRY_MAX + 1 attempts.
FairSpec == Spec /\ WF_vars(MainStep) /\ \A s \in Symbols : WF_vars(PoolStep(s))

-----------------------------------------------------------------------------
(* Properties.                                                             *)

\* "rather than burning 2000+ requests against a dead server": the loop goes
\* on only while it has seen fewer than Window calls fail since the server
\* went down, however its earlier results and the calls under way came in.
\* (Stated of runs in which no body was blank: such a result is taken for a
\* sign of life.  And of calls that ended while the main thread waited for
\* them: those that ended before it could come to it mixed with successes.)
BreakerTrips ==
    pc = "loop" /\ counts["skipped"] = {} =>
        Cardinality(burnt \cap Are("taken")) < Window

\* Once the pending calls are cancelled no thread begins another.
NoCallAfterAbort ==
    [][pc = "drain" => Are("running")' \subseteq Are("running")]_vars

\* What candidates of fqname n this run has written, or nothing.
Fresh(n) ==
    {<<t, runs>> : t \in {u \in counts["written"] : Node[u] = n}} \cup {NoSummary}

Reported == lost \cup UNION {counts[k] : k \in Counts}

\* The report is true: when a run ends by itself every candidate is under
\* exactly one count, or its write failed; when it is given up, every result
\* that was taken.  Where a summary counted as written belongs there is one
\* that was written in this run, its own or that of another candidate of the
\* same fqname, unless the node has been pruned since.
ReportIsTrue ==
    [][pc # "idle" /\ pc' = "idle" /\ last' # "killed" =>
          /\ Reported = Are("taken")
          /\ last' = "done" => Reported = Symbols \ Are("none")
          /\ \A j, k \in Counts : j # k => counts[j] \cap counts[k] = {}
          /\ \A s \in counts["written"] : summary[Node[s]] \in Fresh(Node[s])]_vars

\* "already-written summaries are kept", "keep prior summary": no error, no
\* empty answer, no abort and no kill changes a summary, and a run without
\* --redo-existing changes none that was there when it began: only one it has
\* written itself, for another candidate of the same fqname.
SummariesKept ==
    [][\A n \in Nodes :
          summary'[n] # summary[n] /\ summary[n] # NoSummary =>
              \/ n \notin nodes'
              \/ /\ cur # <<>> /\ Node[cur.sym] = n /\ cur.result = "summary"
                 /\ redo \/ summary[n] \in Fresh(n)]_vars

\* How much a run has left to do at most: calls to start, to finish and to take
\* the results of, and the steps of the main thread between them.
Ahead ==
    CASE pc = "idle" -> 0
      [] pc = "resume" -> 4 * Cardinality(Symbols) + 5
      [] pc = "read" -> 4
      [] pc \in {"submit", "write"} -> 3
      [] pc \in {"loop", "cancel"} -> 2
      [] pc = "drain" -> 1

Left ==
    4 * Many("pending") + 3 * Many("running") + 2 * Many("done") + Ahead

\* A run gets nearer to its end with each step of its threads, and nothing
\* around it (the server, ingests) sets it back.
RunDescends ==
    [][pc # "idle" =>
          /\ Left' <= Left
          /\ MainStep \/ (\E s \in Symbols : PoolStep(s)) => Left' < Left]_vars

\* And one of its threads always has a step to take: the main thread never
\* waits for a result that is under way nowhere, nor a call for a thread that
\* is not there.
NeverStuck ==
    \/ pc \in {"idle", "resume", "submit", "write", "cancel"}
    \/ pc = "read" /\ Limits # {}
    \/ pc = "loop" /\ (arrived # <<>> \/ \A s \in Symbols : future[s] \in {"none", "taken"})
    \/ pc = "drain" /\ Are("running") = {}
    \/ \E s \in Symbols : future[s] = "running" \/ CanStart(s)

\* A run ends, whatever the server does.
RunEnds == pc # "idle" ~> pc = "idle"

-----------------------------------------------------------------------------
(* The inductive invariants behind them.                                   *)

\* Before its calls a run has no results; a result waits for the main thread,
\* is in its hand, or was taken; what is cancelled has not begun.
PoolInv ==
    /\ pc \in {"idle", "resume"} => \A s \in Symbols : future[s] = "none"
    /\ pc \in {"idle", "resume", "read"} =>
          /\ \A s \in Symbols : future[s] \in {"none", "pending"}
          /\ arrived = <<>> /\ recent = <<>> /\ counts = NoCounts
          /\ lost = {} /\ burnt = {}
    /\ \A i \in DOMAIN arrived : future[arrived[i].sym] = "done"
    /\ \A i, j \in DOMAIN arrived : arrived[i].sym = arrived[j].sym => i = j
    /\ \A s \in burnt : future[s] \in {"done", "taken"}
    /\ pc = "submit" => burnt = {} /\ recent = <<>> /\ counts = NoCounts
    /\ pc = "write" => future[cur.sym] = "taken"
    /\ pc = "drain" => Are("pending") = {}

\* No result is mislaid, and nothing is cancelled before the run is given up.
ArrivedInv ==
    /\ \A s \in Symbols : future[s] = "done" => \E i \in DOMAIN arrived : arrived[i].sym = s
    /\ pc \notin {"cancel", "drain"} => Are("cancelled") = {}

\* The result i is no sign of life of the server.
Dead(i) == arrived[i].result = "short" \/ arrived[i].sym \in burnt

\* Results come in order: after one of a dead server there is none of a live one.
OrderInv ==
    /\ burnt # {} => ~up
    /\ \A i \in DOMAIN arrived : arrived[i].sym \in burnt => arrived[i].result = "error"
    /\ \A i, j \in DOMAIN arrived : i < j /\ arrived[i].sym \in burnt => Dead(j)
    /\ burnt \cap Are("taken") # {} => \A i \in DOMAIN arrived : Dead(i)

\* The calls burnt and taken are the last ones the breaker has seen.
Burnt == burnt \cap Are("taken")
NoShort == counts["skipped"] = {} /\ (pc = "write" => cur.result # "short")

BreakerInv ==
    /\ pc = "loop" => ~Tripped
    /\ pc \in {"loop", "write"} /\ NoShort =>
          /\ Cardinality(Burnt) <= Len(recent)
          /\ \A i \in 1..Len(recent) : i > Len(recent) - Cardinality(Burnt) => recent[i] = TRUE

\* What is under the counts; and without --redo-existing no candidate that has
\* not been dealt with has a summary but one of this run.
ReportInv ==
    /\ Reported = Are("taken") \ (IF pc = "write" THEN {cur.sym} ELSE {})
    /\ \A j, k \in Counts : j # k => counts[j] \cap counts[k] = {}
    /\ \A s \in counts["written"] : summary[Node[s]] \in Fresh(Node[s])

KeepInv ==
    ~redo =>
       /\ \A s \in Symbols : future[s] \in {"pending", "running", "done"} =>
             summary[Node[s]] \in Fresh(Node[s])
       /\ pc = "write" => summary[Node[cur.sym]] \in Fresh(Node[cur.sym])

=============================================================================
