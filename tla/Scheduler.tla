------------------------------ MODULE Scheduler ------------------------------
(***************************************************************************)
(* The scheduler daemon of features/scheduler/runner.py: run_loop sweeps   *)
(* over the configured repositories and tick_repo ingests one of them in a *)
(* worker thread, under a per-repository lockfile holding the pid of its   *)
(* owner.  A worker that outlives its timeout is kept in _LIVE_WORKERS     *)
(* with the lock held until a later tick finds it dead.                    *)
(*                                                                         *)
(* Several scheduler processes may run at once (`schedule run`,            *)
(* `schedule run --once`, the daemon), each may be killed at any moment,   *)
(* and `aiforge-memory ingest` (also the git hooks) ingests without        *)
(* looking at the lockfile.  What an ingest does to the graph and the      *)
(* state database is the subject of module Ingest; here it is a thread     *)
(* that runs and ends.                                                     *)
(***************************************************************************)
EXTENDS Naturals, FiniteSets

CONSTANTS
    Repos,        \* names in scheduler.yaml
    Daemons,      \* pids that scheduler processes may get
    OneShot,      \* the scheduler processes started with --once
    Clis,         \* `aiforge-memory ingest` processes
    ThreadIds,    \* identities of worker threads (a bound on their number)
    NoPid,        \* "no lockfile, or one without a readable pid"
    NoRepo,       \* "no tick in progress"
    HungRepos,    \* repositories whose ingest may never return
    PidReuse,     \* TRUE: the OS may give a new process the pid of a dead one
    MaxCrashes    \* bound on the number of abrupt process deaths

ASSUME SchedulerAssumption ==
    /\ NoPid \notin Daemons
    /\ NoRepo \notin Repos
    /\ OneShot \subseteq Daemons
    /\ HungRepos \subseteq Repos
    /\ Daemons \cap Clis = {}
    /\ ThreadIds \subseteq Nat \ {0}
    /\ PidReuse \in BOOLEAN
    /\ MaxCrashes \in Nat

VARIABLES
    lock,     \* lock[r]: the pid in ~/.aiforge/lock.<r>.pid
    alive,    \* the scheduler processes the OS would answer for
    used,     \* pids that have belonged to a scheduler process
    pc,       \* pc[d]: where the main thread of d stands
    todo,     \* todo[d]: repositories the current sweep has still to visit
    due,      \* due[d]: repositories whose next_run has been reached
    cur,      \* cur[d]: the repository of the tick in progress
    mine,     \* mine[d]: the thread the tick in progress has started
    live,     \* live[d][r]: the thread _LIVE_WORKERS holds for r, 0 for none
    stop,     \* stop[d]: flag.stop
    threads,  \* the ingests running anywhere
    crashes   \* abrupt deaths so far

vars == <<lock, alive, used, pc, todo, due, cur, mine, live, stop, threads,
          crashes>>

Thread == [proc : Daemons \cup Clis, repo : Repos, id : ThreadIds]

\* The ingest threads of process p on repository r.
Running(p, r) == {t \in threads : t.proc = p /\ t.repo = r}

\* worker.is_alive() for the thread i that d started on r.
IsAlive(d, r, i) == [proc |-> d, repo |-> r, id |-> i] \in threads

Positions == {"off", "sweep", "prior", "acquire", "write", "start", "join",
              "finally", "sleep", "shutdown"}

\* Between _acquire_lock returning True and the end of the finally block.
Holding == {"start", "join", "finally"}

\* Inside tick_repo.
Ticking == {"prior", "acquire", "write"} \cup Holding

TypeOK ==
    /\ lock \in [Repos -> Daemons \cup {NoPid}]
    /\ alive \subseteq Daemons
    /\ used \subseteq Daemons
    /\ pc \in [Daemons -> Positions]
    /\ todo \in [Daemons -> SUBSET Repos]
    /\ due \in [Daemons -> SUBSET Repos]
    /\ cur \in [Daemons -> Repos \cup {NoRepo}]
    /\ mine \in [Daemons -> ThreadIds \cup {0}]
    /\ live \in [Daemons -> [Repos -> ThreadIds \cup {0}]]
    /\ stop \in [Daemons -> BOOLEAN]
    /\ threads \subseteq Thread
    /\ crashes \in Nat
    /\ \A d \in Daemons : pc[d] \in Ticking => cur[d] \in Repos

Init ==
    /\ lock = [r \in Repos |-> NoPid]
    /\ alive = {}
    /\ used = {}
    /\ pc = [d \in Daemons |-> "off"]
    /\ todo = [d \in Daemons |-> {}]
    /\ due = [d \in Daemons |-> {}]
    /\ cur = [d \in Daemons |-> NoRepo]
    /\ mine = [d \in Daemons |-> 0]
    /\ live = [d \in Daemons |-> [r \in Repos |-> 0]]
    /\ stop = [d \in Daemons |-> FALSE]
    /\ threads = {}
    /\ crashes = 0

-----------------------------------------------------------------------------
(* Processes.                                                              *)

\* run_loop starts: the signal handlers are set and every repository is due.
Launch(d) ==
    /\ d \notin alive
    /\ PidReuse \/ d \notin used
    /\ alive' = alive \cup {d}
    /\ used' = used \cup {d}
    /\ pc' = [pc EXCEPT ![d] = "sweep"]
    /\ todo' = [todo EXCEPT ![d] = Repos]
    /\ due' = [due EXCEPT ![d] = Repos]
    /\ stop' = [stop EXCEPT ![d] = FALSE]
    /\ UNCHANGED <<lock, cur, mine, live, threads, crashes>>

\* What the end of process d takes with it: its threads (they are daemon
\* threads) and _LIVE_WORKERS.  Lockfiles stay on disk.
ProcessGone(d) ==
    /\ alive' = alive \ {d}
    /\ pc' = [pc EXCEPT ![d] = "off"]
    /\ todo' = [todo EXCEPT ![d] = {}]
    /\ due' = [due EXCEPT ![d] = {}]
    /\ cur' = [cur EXCEPT ![d] = NoRepo]
    /\ mine' = [mine EXCEPT ![d] = 0]
    /\ live' = [live EXCEPT ![d] = [r \in Repos |-> 0]]
    /\ threads' = {t \in threads : t.proc # d}
    /\ UNCHANGED <<lock, used, stop>>

\* SIGKILL, the out-of-memory killer, a power cut.
Crash(d) ==
    /\ d \in alive
    /\ crashes < MaxCrashes
    /\ crashes' = crashes + 1
    /\ ProcessGone(d)

\* SIGINT or SIGTERM trips the flag.
Signal(d) ==
    /\ d \in alive
    /\ ~stop[d]
    /\ stop' = [stop EXCEPT ![d] = TRUE]
    /\ UNCHANGED <<lock, alive, used, pc, todo, due, cur, mine, live, threads,
                   crashes>>

\* Past the loop: log, close the driver, return; the interpreter exits.
Exit(d) ==
    /\ pc[d] = "shutdown"
    /\ ProcessGone(d)
    /\ UNCHANGED crashes

\* The interval of r elapses for d.
Elapse(d, r) ==
    /\ d \in alive
    /\ r \notin due[d]
    /\ due' = [due EXCEPT ![d] = @ \cup {r}]
    /\ UNCHANGED <<lock, alive, used, pc, todo, cur, mine, live, stop, threads,
                   crashes>>

-----------------------------------------------------------------------------
(* run_loop.                                                               *)

\* The cooperative sleep ends, by time or by the flag; `now` is read once and
\* decides which repositories this sweep visits.
Wake(d) ==
    /\ pc[d] = "sleep"
    /\ pc' = [pc EXCEPT ![d] = IF stop[d] THEN "shutdown" ELSE "sweep"]
    /\ todo' = [todo EXCEPT ![d] = IF stop[d] THEN {} ELSE due[d]]
    /\ UNCHANGED <<lock, alive, used, due, cur, mine, live, stop, threads,
                   crashes>>

\* The flag is looked at before every repository.
BeginTick(d, r) ==
    /\ pc[d] = "sweep"
    /\ ~stop[d]
    /\ r \in todo[d]
    /\ cur' = [cur EXCEPT ![d] = r]
    /\ pc' = [pc EXCEPT ![d] = "prior"]
    /\ UNCHANGED <<lock, alive, used, todo, due, mine, live, stop, threads,
                   crashes>>

\* The sweep is over, or broken off by the flag.
EndSweep(d) ==
    /\ pc[d] = "sweep"
    /\ stop[d] \/ todo[d] = {}
    /\ pc' = [pc EXCEPT ![d] = IF stop[d] \/ d \in OneShot THEN "shutdown"
                               ELSE "sleep"]
    /\ todo' = [todo EXCEPT ![d] = {}]
    /\ UNCHANGED <<lock, alive, used, due, cur, mine, live, stop, threads,
                   crashes>>

-----------------------------------------------------------------------------
(* tick_repo.                                                              *)

\* tick_repo returns and run_loop stores the next due time.
Return(d) ==
    /\ pc' = [pc EXCEPT ![d] = "sweep"]
    /\ todo' = [todo EXCEPT ![d] = @ \ {cur[d]}]
    /\ due' = [due EXCEPT ![d] = @ \ {cur[d]}]
    /\ cur' = [cur EXCEPT ![d] = NoRepo]
    /\ mine' = [mine EXCEPT ![d] = 0]

\* _release_lock: unlink, whoever wrote the file.
Release(r) == lock' = [lock EXCEPT ![r] = NoPid]

(* Slips the properties are checked against: what the same code would do   *)
(* with one line of it wrong.  None of these is part of Next.              *)

\* The repository's name is written where the pid belongs.
WriteLockOfName(d) ==
    /\ pc[d] = "write"
    /\ lock' = [lock EXCEPT ![cur[d]] = cur[d]]
    /\ pc' = [pc EXCEPT ![d] = "start"]
    /\ UNCHANGED <<alive, used, todo, due, cur, mine, live, stop, threads,
                   crashes>>

\* The registered worker is dropped without asking whether it is alive.
PriorDropped(d) ==
    /\ pc[d] = "prior"
    /\ live' = [live EXCEPT ![d][cur[d]] = 0]
    /\ Release(cur[d])
    /\ pc' = [pc EXCEPT ![d] = "acquire"]
    /\ UNCHANGED <<alive, used, todo, due, cur, mine, stop, threads, crashes>>

\* A lockfile is reclaimed without probing its pid.
SeesFreeUnprobed(d) ==
    /\ pc[d] = "acquire"
    /\ pc' = [pc EXCEPT ![d] = "write"]
    /\ UNCHANGED <<lock, alive, used, todo, due, cur, mine, live, stop,
                   threads, crashes>>

\* join without a timeout.
JoinForever(d) ==
    /\ pc[d] = "join"
    /\ ~IsAlive(d, cur[d], mine[d])
    /\ pc' = [pc EXCEPT ![d] = "finally"]
    /\ UNCHANGED <<lock, alive, used, todo, due, cur, mine, live, stop,
                   threads, crashes>>

\* The timeout branch frees the lock and keeps no record of the worker.
ZombieForgotten(d) ==
    /\ pc[d] = "finally"
    /\ IsAlive(d, cur[d], mine[d])
    /\ Release(cur[d])
    /\ Return(d)
    /\ UNCHANGED <<alive, used, live, stop, threads, crashes>>

\* The timeout branch keeps the record but frees the lock.
ZombieUnlocked(d) ==
    /\ pc[d] = "finally"
    /\ IsAlive(d, cur[d], mine[d])
    /\ live' = [live EXCEPT ![d][cur[d]] = mine[d]]
    /\ Release(cur[d])
    /\ Return(d)
    /\ UNCHANGED <<alive, used, stop, threads, crashes>>

\* The finally block forgets the lock of a worker that is done.
LockLeft(d) ==
    /\ pc[d] = "finally"
    /\ ~IsAlive(d, cur[d], mine[d])
    /\ live' = [live EXCEPT ![d][cur[d]] = 0]
    /\ Return(d)
    /\ UNCHANGED <<lock, alive, used, stop, threads, crashes>>

-----------------------------------------------------------------------------
(* tick_repo, the steps.                                                   *)

\* A worker of an earlier tick is still running: status still_running.
StillRunning(d) ==
    /\ pc[d] = "prior"
    /\ live[d][cur[d]] # 0
    /\ IsAlive(d, cur[d], live[d][cur[d]])
    /\ Return(d)
    /\ UNCHANGED <<lock, alive, used, live, stop, threads, crashes>>

\* It has ended since: forget it and release its lock; or there was none.
PriorGone(d) ==
    /\ pc[d] = "prior"
    /\ \/ /\ live[d][cur[d]] = 0
          /\ UNCHANGED <<live, lock>>
       \/ /\ live[d][cur[d]] # 0
          /\ ~IsAlive(d, cur[d], live[d][cur[d]])
          /\ live' = [live EXCEPT ![d][cur[d]] = 0]
          /\ Release(cur[d])
    /\ pc' = [pc EXCEPT ![d] = "acquire"]
    /\ UNCHANGED <<alive, used, todo, due, cur, mine, stop, threads, crashes>>

\* _acquire_lock, first half: the file names a process that answers signal 0.
Locked(d) ==
    /\ pc[d] = "acquire"
    /\ lock[cur[d]] \in alive
    /\ Return(d)
    /\ UNCHANGED <<lock, alive, used, live, stop, threads, crashes>>

\* ... there is no file, or its pid is dead: it may be (re)claimed.
SeesFree(d) ==
    /\ pc[d] = "acquire"
    /\ lock[cur[d]] \notin alive
    /\ pc' = [pc EXCEPT ![d] = "write"]
    /\ UNCHANGED <<lock, alive, used, todo, due, cur, mine, live, stop,
                   threads, crashes>>

\* _acquire_lock, second half: write the own pid, without a second look.
WriteLock(d) ==
    /\ pc[d] = "write"
    /\ lock' = [lock EXCEPT ![cur[d]] = d]
    /\ pc' = [pc EXCEPT ![d] = "start"]
    /\ UNCHANGED <<alive, used, todo, due, cur, mine, live, stop, threads,
                   crashes>>

\* The worker thread is created and started.
StartWorker(d) ==
    /\ pc[d] = "start"
    /\ \E i \in ThreadIds :
          /\ ~IsAlive(d, cur[d], i)
          /\ threads' = threads \cup {[proc |-> d, repo |-> cur[d], id |-> i]}
          /\ mine' = [mine EXCEPT ![d] = i]
    /\ pc' = [pc EXCEPT ![d] = "join"]
    /\ UNCHANGED <<lock, alive, used, todo, due, cur, live, stop, crashes>>

\* join returns: the worker is done, or the timeout has passed.
Join(d) ==
    /\ pc[d] = "join"
    /\ pc' = [pc EXCEPT ![d] = "finally"]
    /\ UNCHANGED <<lock, alive, used, todo, due, cur, mine, live, stop,
                   threads, crashes>>

\* The finally block: is_alive() is asked once more.
KeepZombie(d) ==
    /\ pc[d] = "finally"
    /\ IsAlive(d, cur[d], mine[d])
    /\ live' = [live EXCEPT ![d][cur[d]] = mine[d]]
    /\ Return(d)
    /\ UNCHANGED <<lock, alive, used, stop, threads, crashes>>

ReleaseAfterRun(d) ==
    /\ pc[d] = "finally"
    /\ ~IsAlive(d, cur[d], mine[d])
    /\ live' = [live EXCEPT ![d][cur[d]] = 0]
    /\ Release(cur[d])
    /\ Return(d)
    /\ UNCHANGED <<alive, used, stop, threads, crashes>>

-----------------------------------------------------------------------------
(* The ingests themselves.                                                 *)

\* _work returns, normally or with an exception it stores.
WorkerEnds(t) ==
    /\ t \in threads
    /\ threads' = threads \ {t}
    /\ UNCHANGED <<lock, alive, used, pc, todo, due, cur, mine, live, stop,
                   crashes>>

\* `aiforge-memory ingest <r>`, from a shell or a git hook.
CliIngest(c, r) ==
    /\ \A t \in threads : t.proc # c
    /\ \E i \in ThreadIds :
          threads' = threads \cup {[proc |-> c, repo |-> r, id |-> i]}
    /\ UNCHANGED <<lock, alive, used, pc, todo, due, cur, mine, live, stop,
                   crashes>>

-----------------------------------------------------------------------------
MainStep(d) ==
    \/ Wake(d) \/ EndSweep(d) \/ (\E r \in Repos : BeginTick(d, r))
    \/ StillRunning(d) \/ PriorGone(d)
    \/ Locked(d) \/ SeesFree(d) \/ WriteLock(d) \/ StartWorker(d)
    \/ Join(d) \/ KeepZombie(d) \/ ReleaseAfterRun(d)
    \/ Exit(d)

Next ==
    \/ \E d \in Daemons : Launch(d) \/ Crash(d) \/ Signal(d) \/ MainStep(d)
    \/ \E d \in Daemons, r \in Repos : Elapse(d, r)
    \/ \E t \in threads : WorkerEnds(t)
    \/ \E c \in Clis, r \in Repos : CliIngest(c, r)

Spec == Init /\ [][Next]_vars

(* The environment in which the lockfile does its work: no two scheduler   *)
(* processes are at once between the check and the write of the same file. *)
OneInWindow ==
    \A d, e \in Daemons :
        pc[d] = "write" /\ pc[e] = "write" /\ cur[d] = cur[e] => d = e

SpecNoRace == Init /\ [][Next /\ OneInWindow']_vars

-----------------------------------------------------------------------------
(* Safety.                                                                 *)

\* "a zombie ingest can't overlap the next tick's ingest" (tick_repo): one
\* scheduler process never runs two ingests of the same repository, whatever
\* the timeouts, and whatever the other processes and the lockfile do.
NoDoubleIngest ==
    \A d \in Daemons, r \in Repos : Cardinality(Running(d, r)) <= 1

\* "Per-repo lockfile prevents overlapping runs" (the module's docstring): no
\* repository is ingested by two threads at once, of one process or of two.
MutualExclusion ==
    \A t, u \in threads : t.repo = u.repo => t = u

\* The lockfile of a repository names the process that is ingesting it for as
\* long as the ingest runs, the time after a timeout included.
LockNamesWorker ==
    \A t \in threads : t.proc \in Daemons => lock[t.repo] = t.proc

\* A lockfile naming a live scheduler is always one that scheduler still
\* accounts for: a tick in progress, or a registered worker a later tick will
\* collect.  Otherwise the repository would be `locked` until a restart.
NoLeakedLock ==
    \A d \in alive, r \in Repos :
        lock[r] = d => \/ cur[d] = r /\ pc[d] \in Holding
                       \/ live[d][r] # 0

\* A lockfile stops naming a live scheduler only when no ingest of that
\* repository runs in it: no release and no takeover under a running worker.
ReleasedOnlyWhenIdle ==
    [][\A d \in alive, r \in Repos :
          lock[r] = d /\ lock'[r] # d => Running(d, r) = {}]_vars

\* The ingests running on each repository, as OneIngest sees them.
RunsOf == [r \in Repos |-> {t \in threads : t.repo = r}]

\* All of the above, from outside: with nobody in the window, no ingest from
\* the command line, and whatever times out or crashes, the schedulers are an
\* implementation of OneIngest.
Promise == INSTANCE OneIngest WITH Places <- Repos, Runs <- Thread,
                                   running <- RunsOf

OneIngestAtATime == Promise!Spec

-----------------------------------------------------------------------------
(* The inductive invariants behind the first three.                        *)

\* A worker thread is known to its process: registered, or just started.
Accounted(t) ==
    \/ live[t.proc][t.repo] = t.id
    \/ /\ pc[t.proc] \in {"join", "finally"}
       /\ cur[t.proc] = t.repo
       /\ mine[t.proc] = t.id

\* What a scheduler process guarantees by itself.
LocalInv ==
    /\ \A d \in Daemons : d \in alive <=> pc[d] # "off"
    /\ \A d \in Daemons, r \in Repos : d \notin alive => live[d][r] = 0
    /\ \A d \in Daemons : pc[d] \in Ticking \ {"prior"} => live[d][cur[d]] = 0
    /\ \A t \in threads : t.proc \in Daemons => Accounted(t)

\* Lockfiles name processes that have existed.
PidInv ==
    /\ alive \subseteq used
    /\ \A r \in Repos : lock[r] \in used \cup {NoPid}

\* What the lockfile adds while nobody races through the window.
LockInv ==
    /\ PidInv
    /\ \A d \in Daemons : pc[d] \in Holding => lock[cur[d]] = d
    /\ \A d \in Daemons, r \in Repos : live[d][r] # 0 => lock[r] = d
    /\ \A d \in Daemons : pc[d] = "write" => lock[cur[d]] \notin alive

-----------------------------------------------------------------------------
(* Liveness.  The main thread keeps going, time passes, and an ingest ends *)
(* unless its repository is one of HungRepos.  Nothing is assumed of       *)
(* signals, crashes, launches or command line users.                       *)

Fairness ==
    /\ \A d \in Daemons : WF_vars(MainStep(d))
    /\ \A d \in Daemons, r \in Repos : WF_vars(Elapse(d, r))
    /\ \A t \in Thread : t.repo \notin HungRepos => WF_vars(WorkerEnds(t))

FairSpec == Spec /\ Fairness

\* "Long-running stages can't block the loop forever" (tick_repo), and a lock
\* whose owner died is reclaimed: as long as some looping scheduler stays up,
\* every repository whose own ingest does not hang is ingested again and
\* again, whichever others hang and wherever earlier processes were killed.
EveryRepoIngested ==
    \A r \in Repos \ HungRepos, d \in Daemons \ OneShot :
        <>[](d \in alive /\ ~stop[d])
            => []<>(\E t \in threads : t.repo = r)

=============================================================================
