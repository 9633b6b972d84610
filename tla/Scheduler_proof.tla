--------------------------- MODULE Scheduler_proof ---------------------------
(***************************************************************************)
(* Proofs about Scheduler, for any number of repositories, processes,      *)
(* threads and crashes.                                                    *)
(***************************************************************************)
EXTENDS Scheduler, FiniteSetTheorems, TLAPS

\* What an assignment to one entry of _LIVE_WORKERS does to the others.
LEMMA Registry ==
    ASSUME NEW S, NEW f \in [Daemons -> [Repos -> S]],
           NEW d \in Daemons, NEW r \in Repos, NEW i \in S
    PROVE  LET g == [f EXCEPT ![d][r] = i] IN
           /\ g \in [Daemons -> [Repos -> S]]
           /\ g[d][r] = i
           /\ \A e \in Daemons, q \in Repos :
                 e # d \/ q # r => g[e][q] = f[e][q]
  OBVIOUS

\* Every variable of the daemon keeps its type.
THEOREM TypeCorrect == Spec => []TypeOK
<1> USE SchedulerAssumption
<1>1. Init => TypeOK
  BY DEF Init, TypeOK, Positions, Ticking, Holding
<1>2. TypeOK /\ [Next]_vars => TypeOK'
  <2> SUFFICES ASSUME TypeOK, [Next]_vars
               PROVE  TypeOK'
    OBVIOUS
  <2> USE DEF TypeOK, Positions, Ticking, Holding
  <2>1. ASSUME NEW d \in Daemons, Launch(d) PROVE TypeOK'
    BY <2>1 DEF Launch
  <2>2. ASSUME NEW d \in Daemons, Crash(d) PROVE TypeOK'
    BY <2>2 DEF Crash, ProcessGone
  <2>3. ASSUME NEW d \in Daemons, Signal(d) PROVE TypeOK'
    BY <2>3 DEF Signal
  <2>4. ASSUME NEW d \in Daemons, Exit(d) PROVE TypeOK'
    BY <2>4 DEF Exit, ProcessGone
  <2>5. ASSUME NEW d \in Daemons, NEW r \in Repos, Elapse(d, r) PROVE TypeOK'
    BY <2>5 DEF Elapse
  <2>6. ASSUME NEW d \in Daemons, Wake(d) PROVE TypeOK'
    BY <2>6 DEF Wake
  <2>7. ASSUME NEW d \in Daemons, NEW r \in Repos, BeginTick(d, r)
        PROVE  TypeOK'
    BY <2>7 DEF BeginTick
  <2>8. ASSUME NEW d \in Daemons, EndSweep(d) PROVE TypeOK'
    BY <2>8 DEF EndSweep
  <2>9. ASSUME NEW d \in Daemons, StillRunning(d) PROVE TypeOK'
    BY <2>9 DEF StillRunning, Return
  <2>10. ASSUME NEW d \in Daemons, PriorGone(d) PROVE TypeOK'
    <3>1. /\ cur[d] \in Repos
          /\ lock' \in [Repos -> Daemons \cup {NoPid}]
          /\ pc' \in [Daemons -> Positions]
      BY <2>10 DEF PriorGone, Release
    <3>2. live' \in [Daemons -> [Repos -> ThreadIds \cup {0}]]
      <4>1. CASE live' = live
        BY <4>1
      <4>2. CASE live' = [live EXCEPT ![d][cur[d]] = 0]
        BY <4>2, <3>1, Registry
      <4>3. QED
        BY <4>1, <4>2, <2>10 DEF PriorGone
    <3>3. \A e \in Daemons : pc'[e] \in Ticking => cur'[e] \in Repos
      BY <2>10, <3>1 DEF PriorGone
    <3>4. QED
      BY <2>10, <3>1, <3>2, <3>3 DEF PriorGone
  <2>11. ASSUME NEW d \in Daemons, Locked(d) PROVE TypeOK'
    BY <2>11 DEF Locked, Return
  <2>12. ASSUME NEW d \in Daemons, SeesFree(d) PROVE TypeOK'
    BY <2>12 DEF SeesFree
  <2>13. ASSUME NEW d \in Daemons, WriteLock(d) PROVE TypeOK'
    BY <2>13 DEF WriteLock
  <2>14. ASSUME NEW d \in Daemons, StartWorker(d) PROVE TypeOK'
    BY <2>14 DEF StartWorker, Thread
  <2>15. ASSUME NEW d \in Daemons, Join(d) PROVE TypeOK'
    BY <2>15 DEF Join
  <2>16. ASSUME NEW d \in Daemons, KeepZombie(d) PROVE TypeOK'
    BY <2>16 DEF KeepZombie, Return
  <2>17. ASSUME NEW d \in Daemons, ReleaseAfterRun(d) PROVE TypeOK'
    BY <2>17 DEF ReleaseAfterRun, Return, Release
  <2>18. ASSUME NEW t \in threads, WorkerEnds(t) PROVE TypeOK'
    BY <2>18 DEF WorkerEnds
  <2>19. ASSUME NEW c \in Clis, NEW r \in Repos, CliIngest(c, r)
         PROVE  TypeOK'
    BY <2>19 DEF CliIngest, Thread
  <2>20. CASE UNCHANGED vars
    BY <2>20 DEF vars
  <2>21. QED
    BY <2>1, <2>2, <2>3, <2>4, <2>5, <2>6, <2>7, <2>8, <2>9, <2>10, <2>11,
       <2>12, <2>13, <2>14, <2>15, <2>16, <2>17, <2>18, <2>19, <2>20
    DEF Next, MainStep
<1>3. QED
  BY <1>1, <1>2, PTL DEF Spec

-----------------------------------------------------------------------------
(* One process: the registry and the join.                                 *)

\* A thread is determined by its process, repository and identity.
LEMMA ThreadRecord ==
    ASSUME TypeOK, NEW t \in threads
    PROVE  /\ t \in Thread
           /\ t.repo \in Repos
           /\ t.id \in ThreadIds
           /\ t.id # 0
           /\ t = [proc |-> t.proc, repo |-> t.repo, id |-> t.id]
  BY SchedulerAssumption DEF TypeOK, Thread

\* Every step keeps what a process guarantees by itself.
LEMMA LocalStep ==
    TypeOK /\ TypeOK' /\ LocalInv /\ [Next]_vars => LocalInv'
<1> SUFFICES ASSUME TypeOK, TypeOK', LocalInv, [Next]_vars
             PROVE  LocalInv'
  OBVIOUS
<1> USE SchedulerAssumption DEF LocalInv, Holding, Ticking
<1>0. \A t \in threads : t \in Thread /\ t.id # 0 /\ t.repo \in Repos
  BY ThreadRecord
<1>1. ASSUME NEW d \in Daemons, Launch(d) PROVE LocalInv'
  BY <1>1, <1>0 DEF Launch, TypeOK, Accounted
<1>2. ASSUME NEW d \in Daemons, ProcessGone(d) PROVE LocalInv'
  BY <1>2, <1>0 DEF ProcessGone, TypeOK, Accounted
<1>3. ASSUME NEW d \in Daemons, Signal(d) PROVE LocalInv'
  BY <1>3, <1>0 DEF Signal, TypeOK, Accounted
<1>5. ASSUME NEW d \in Daemons, NEW r \in Repos, Elapse(d, r) PROVE LocalInv'
  BY <1>5, <1>0 DEF Elapse, TypeOK, Accounted
<1>6. ASSUME NEW d \in Daemons, Wake(d) PROVE LocalInv'
  BY <1>6, <1>0 DEF Wake, TypeOK, Accounted
<1>7. ASSUME NEW d \in Daemons, NEW r \in Repos, BeginTick(d, r)
      PROVE  LocalInv'
  BY <1>7, <1>0 DEF BeginTick, TypeOK, Accounted
<1>8. ASSUME NEW d \in Daemons, EndSweep(d) PROVE LocalInv'
  BY <1>8, <1>0 DEF EndSweep, TypeOK, Accounted
<1>9. ASSUME NEW d \in Daemons, StillRunning(d) PROVE LocalInv'
  BY <1>9, <1>0 DEF StillRunning, Return, TypeOK, Accounted
<1>10. ASSUME NEW d \in Daemons, PriorGone(d) PROVE LocalInv'
  <2>1. cur[d] \in Repos /\ d \in alive
    BY <1>10 DEF PriorGone, TypeOK
  <2>2. CASE live[d][cur[d]] = 0 /\ live' = live
    BY <1>10, <1>0, <2>1, <2>2 DEF PriorGone, TypeOK, Accounted
  <2>3. CASE /\ ~IsAlive(d, cur[d], live[d][cur[d]])
             /\ live' = [live EXCEPT ![d][cur[d]] = 0]
    <3>1. /\ live'[d][cur[d]] = 0
          /\ \A e \in Daemons, q \in Repos :
                e # d \/ q # cur[d] => live'[e][q] = live[e][q]
      BY <2>1, <2>3, Registry DEF TypeOK
    <3>2. \A t \in threads :
             t.proc = d /\ t.repo = cur[d] => t.id # live[d][cur[d]]
      BY <2>3, ThreadRecord DEF IsAlive
    <3>3. \A t \in threads' : t.proc \in Daemons => Accounted(t)'
      BY <1>10, <1>0, <2>1, <3>1, <3>2 DEF PriorGone, Accounted
    <3>4. QED
      BY <1>10, <2>1, <3>1, <3>3 DEF PriorGone, TypeOK
  <2>4. QED
    BY <1>10, <2>2, <2>3 DEF PriorGone
<1>11. ASSUME NEW d \in Daemons, Locked(d) PROVE LocalInv'
  BY <1>11, <1>0 DEF Locked, Return, TypeOK, Accounted
<1>12. ASSUME NEW d \in Daemons, SeesFree(d) PROVE LocalInv'
  BY <1>12, <1>0 DEF SeesFree, TypeOK, Accounted
<1>13. ASSUME NEW d \in Daemons, WriteLock(d) PROVE LocalInv'
  BY <1>13, <1>0 DEF WriteLock, TypeOK, Accounted
<1>14. ASSUME NEW d \in Daemons, StartWorker(d) PROVE LocalInv'
  BY <1>14, <1>0 DEF StartWorker, TypeOK, Accounted
<1>15. ASSUME NEW d \in Daemons, Join(d) PROVE LocalInv'
  BY <1>15, <1>0 DEF Join, TypeOK, Accounted
<1>16. ASSUME NEW d \in Daemons, KeepZombie(d) PROVE LocalInv'
  <2>1. cur[d] \in Repos /\ d \in alive
    BY <1>16 DEF KeepZombie, TypeOK
  <2>2. /\ live'[d][cur[d]] = mine[d]
        /\ \A e \in Daemons, q \in Repos :
              e # d \/ q # cur[d] => live'[e][q] = live[e][q]
    BY <1>16, <2>1, Registry DEF KeepZombie, TypeOK
  <2>3. \A t \in threads' : t.proc \in Daemons => Accounted(t)'
    BY <1>16, <1>0, <2>1, <2>2 DEF KeepZombie, Return, TypeOK, Accounted
  <2>4. QED
    BY <1>16, <2>1, <2>2, <2>3 DEF KeepZombie, Return, TypeOK
<1>17. ASSUME NEW d \in Daemons, ReleaseAfterRun(d) PROVE LocalInv'
  <2>1. cur[d] \in Repos /\ d \in alive
    BY <1>17 DEF ReleaseAfterRun, TypeOK
  <2>2. /\ live'[d][cur[d]] = 0
        /\ \A e \in Daemons, q \in Repos :
              e # d \/ q # cur[d] => live'[e][q] = live[e][q]
    BY <1>17, <2>1, Registry DEF ReleaseAfterRun, TypeOK
  <2>3. \A t \in threads : t.proc = d /\ t.repo = cur[d] => t.id # mine[d]
    BY <1>17, ThreadRecord DEF ReleaseAfterRun, IsAlive
  <2>4. \A t \in threads' : t.proc \in Daemons => Accounted(t)'
    BY <1>17, <1>0, <2>1, <2>2, <2>3
    DEF ReleaseAfterRun, Return, TypeOK, Accounted
  <2>5. QED
    BY <1>17, <2>1, <2>2, <2>4 DEF ReleaseAfterRun, Return, TypeOK
<1>18. ASSUME NEW t \in threads, WorkerEnds(t) PROVE LocalInv'
  BY <1>18, <1>0 DEF WorkerEnds, TypeOK, Accounted
<1>19. ASSUME NEW c \in Clis, NEW r \in Repos, CliIngest(c, r)
       PROVE  LocalInv'
  BY <1>19, <1>0 DEF CliIngest, TypeOK, Accounted
<1>20. CASE UNCHANGED vars
  BY <1>20, <1>0 DEF vars, TypeOK, Accounted
<1>21. QED
  BY <1>1, <1>2, <1>3, <1>5, <1>6, <1>7, <1>8, <1>9, <1>10, <1>11, <1>12,
     <1>13, <1>14, <1>15, <1>16, <1>17, <1>18, <1>19, <1>20
  DEF Next, MainStep, Crash, Exit

\* It holds always, whatever the other processes do.
LEMMA LocalInvariance == Spec => []LocalInv
<1>1. Init => LocalInv
  BY DEF Init, LocalInv, Ticking, Holding
<1>2. QED
  BY <1>1, LocalStep, TypeCorrect, PTL DEF Spec

\* One scheduler process never has two ingests of one repository running,
\* with any number of processes, crashes, command line ingests and races on
\* the lockfile.
THEOREM NoDoubleIngestHolds == Spec => []NoDoubleIngest
<1>1. TypeOK /\ LocalInv => NoDoubleIngest
  <2> SUFFICES ASSUME TypeOK, LocalInv, NEW d \in Daemons, NEW r \in Repos
               PROVE  Cardinality(Running(d, r)) <= 1
    BY DEF NoDoubleIngest
  <2>1. ASSUME NEW t \in Running(d, r), NEW u \in Running(d, r)
        PROVE  t = u
    <3>1. t.id = u.id
      BY ThreadRecord DEF Running, LocalInv, Accounted, Ticking, Holding
    <3>2. QED
      BY <3>1, ThreadRecord DEF Running
  <2>2. CASE Running(d, r) = {}
    BY <2>2, FS_EmptySet
  <2>3. CASE \E t : Running(d, r) = {t}
    BY <2>3, FS_Singleton
  <2>4. QED
    BY <2>1, <2>2, <2>3
<1>2. QED
  BY <1>1, LocalInvariance, TypeCorrect, PTL

-----------------------------------------------------------------------------
(* Several processes: the lockfile, while pids are not reused.             *)

\* What a step of the main thread does to a lockfile: nothing, claim it after
\* the window, or release it in one of the two places that do.
LEMMA LockStep ==
    ASSUME TypeOK, [Next]_vars
    PROVE  \/ lock' = lock
           \/ \E d \in Daemons : WriteLock(d)
           \/ \E d \in Daemons : PriorGone(d) /\ live[d][cur[d]] # 0
           \/ \E d \in Daemons : ReleaseAfterRun(d)
  BY DEF Next, MainStep, vars, Launch, Crash, Signal, ProcessGone, Exit,
         Elapse, Wake, BeginTick, EndSweep, StillRunning, PriorGone, Locked,
         SeesFree, StartWorker, Join, KeepZombie, WorkerEnds, CliIngest

\* Every step keeps lockfiles to pids that have existed.
LEMMA PidStep == TypeOK /\ LocalInv /\ PidInv /\ [Next]_vars => PidInv'
<1> SUFFICES ASSUME TypeOK, LocalInv, PidInv, [Next]_vars
             PROVE  PidInv'
  OBVIOUS
<1> USE SchedulerAssumption
<1>1. alive' \subseteq used' /\ used \subseteq used'
  BY DEF PidInv, Next, MainStep, vars, Launch, Crash, Signal, ProcessGone,
         Exit, Elapse, Wake, BeginTick, EndSweep, StillRunning, PriorGone,
         Locked, SeesFree, WriteLock, StartWorker, Join, KeepZombie,
         ReleaseAfterRun, WorkerEnds, CliIngest
<1>2. \A r \in Repos : lock'[r] \in used \cup {NoPid}
  <2>1. ASSUME NEW d \in Daemons, WriteLock(d)
        PROVE  \A r \in Repos : lock'[r] \in used \cup {NoPid}
    BY <2>1 DEF WriteLock, LocalInv, PidInv, TypeOK
  <2>2. ASSUME NEW d \in Daemons, PriorGone(d) \/ ReleaseAfterRun(d)
        PROVE  \A r \in Repos : lock'[r] \in used \cup {NoPid}
    BY <2>2 DEF PriorGone, ReleaseAfterRun, Release, PidInv, TypeOK
  <2>3. QED
    BY <2>1, <2>2, LockStep DEF PidInv
<1>3. QED
  BY <1>1, <1>2 DEF PidInv

\* They always name such pids.
LEMMA PidInvariance == Spec => []PidInv
<1>1. Init => PidInv
  BY DEF Init, PidInv
<1>2. QED
  BY <1>1, PidStep, TypeCorrect, LocalInvariance, PTL DEF Spec

\* Whoever registers a worker registers a real one.
LEMMA StartedThread ==
    ASSUME TypeOK, NEW d \in Daemons, KeepZombie(d)
    PROVE  cur[d] \in Repos /\ mine[d] # 0
  BY SchedulerAssumption
  DEF KeepZombie, TypeOK, IsAlive, Thread, Ticking, Holding

\* A live scheduler never sits on a lock it has forgotten, whatever the races
\* and crashes around it, as long as no process inherits the pid of another.
THEOREM NoLeakedLockHolds ==
    ASSUME ~PidReuse
    PROVE  Spec => []NoLeakedLock
<1> USE SchedulerAssumption
<1>1. Init => NoLeakedLock
  BY DEF Init, NoLeakedLock
<1>2. TypeOK /\ LocalInv /\ PidInv /\ NoLeakedLock /\ [Next]_vars
        => NoLeakedLock'
  <2> SUFFICES ASSUME TypeOK, LocalInv, PidInv, NoLeakedLock, [Next]_vars
               PROVE  NoLeakedLock'
    OBVIOUS
  <2> USE DEF NoLeakedLock, TypeOK, Holding, Ticking
  <2>1. ASSUME NEW d \in Daemons, Launch(d) PROVE NoLeakedLock'
    BY <2>1 DEF Launch, PidInv
  <2>2. ASSUME NEW d \in Daemons, ProcessGone(d) PROVE NoLeakedLock'
    BY <2>2 DEF ProcessGone
  <2>3. ASSUME NEW d \in Daemons, Signal(d) \/ Wake(d) \/ EndSweep(d)
        PROVE  NoLeakedLock'
    BY <2>3 DEF Signal, Wake, EndSweep
  <2>4. ASSUME NEW d \in Daemons, NEW r \in Repos,
               Elapse(d, r) \/ BeginTick(d, r)
        PROVE  NoLeakedLock'
    BY <2>4 DEF Elapse, BeginTick
  <2>5. ASSUME NEW d \in Daemons, StillRunning(d) \/ Locked(d)
        PROVE  NoLeakedLock'
    BY <2>5 DEF StillRunning, Locked, Return
  <2>6. ASSUME NEW d \in Daemons, PriorGone(d) PROVE NoLeakedLock'
    <3>1. cur[d] \in Repos
      BY <2>6 DEF PriorGone
    <3>2. CASE live' = live /\ lock' = lock
      BY <2>6, <3>2 DEF PriorGone
    <3>3. CASE /\ live' = [live EXCEPT ![d][cur[d]] = 0]
               /\ Release(cur[d])
      BY <2>6, <3>1, <3>3, Registry DEF PriorGone, Release
    <3>4. QED
      BY <2>6, <3>2, <3>3 DEF PriorGone
  <2>7. ASSUME NEW d \in Daemons, SeesFree(d) \/ Join(d) \/ StartWorker(d)
        PROVE  NoLeakedLock'
    <3>1. CASE SeesFree(d)
      BY <3>1 DEF SeesFree
    <3>2. CASE Join(d)
      BY <3>2 DEF Join
    <3>3. CASE StartWorker(d)
      <4>1. /\ pc[d] = "start" /\ pc' = [pc EXCEPT ![d] = "join"]
            /\ UNCHANGED <<lock, alive, cur, live>>
        BY <3>3 DEF StartWorker
      <4>2. QED
        BY <4>1
    <3>4. QED
      BY <2>7, <3>1, <3>2, <3>3
  <2>8. ASSUME NEW d \in Daemons, WriteLock(d) PROVE NoLeakedLock'
    BY <2>8 DEF WriteLock
  <2>9. ASSUME NEW d \in Daemons, KeepZombie(d) PROVE NoLeakedLock'
    <3>0. cur[d] \in Repos /\ mine[d] # 0
      BY <2>9, StartedThread
    <3>1. /\ live'[d][cur[d]] = mine[d]
          /\ \A e \in Daemons, q \in Repos :
                e # d \/ q # cur[d] => live'[e][q] = live[e][q]
      BY <2>9, <3>0, Registry DEF KeepZombie
    <3>2. QED
      BY <2>9, <3>0, <3>1 DEF KeepZombie, Return
  <2>10. ASSUME NEW d \in Daemons, ReleaseAfterRun(d) PROVE NoLeakedLock'
    <3>1. cur[d] \in Repos
      BY <2>10 DEF ReleaseAfterRun
    <3>2. \A e \in Daemons, q \in Repos :
             e # d \/ q # cur[d] => live'[e][q] = live[e][q]
      BY <2>10, <3>1, Registry DEF ReleaseAfterRun
    <3>3. QED
      BY <2>10, <3>1, <3>2 DEF ReleaseAfterRun, Return, Release
  <2>11. ASSUME NEW t \in threads, WorkerEnds(t) PROVE NoLeakedLock'
    BY <2>11 DEF WorkerEnds
  <2>12. ASSUME NEW c \in Clis, NEW r \in Repos, CliIngest(c, r)
         PROVE  NoLeakedLock'
    BY <2>12 DEF CliIngest
  <2>13. CASE UNCHANGED vars
    BY <2>13 DEF vars
  <2>14. QED
    BY <2>1, <2>2, <2>3, <2>4, <2>5, <2>6, <2>7, <2>8, <2>9, <2>10, <2>11,
       <2>12, <2>13
    DEF Next, MainStep, Crash, Exit
<1>3. QED
  BY <1>1, <1>2, TypeCorrect, LocalInvariance, PidInvariance, PTL DEF Spec

\* While nobody races through the window, the owner of a lockfile is the one
\* process that may be ingesting.
LEMMA LockStepInv ==
    ASSUME ~PidReuse
    PROVE  /\ TypeOK /\ LocalInv /\ OneInWindow /\ LockInv
           /\ [Next /\ OneInWindow']_vars
           => LockInv'
<1> SUFFICES ASSUME TypeOK, LocalInv, OneInWindow, LockInv,
                    [Next /\ OneInWindow']_vars, PidInv'
             PROVE  LockInv'
  BY PidStep DEF LockInv
<1> USE SchedulerAssumption DEF LockInv, TypeOK, Holding, Ticking
<1>1. ASSUME NEW d \in Daemons, Launch(d) PROVE LockInv'
  BY <1>1 DEF Launch, PidInv, LocalInv
<1>2. ASSUME NEW d \in Daemons, ProcessGone(d) PROVE LockInv'
  BY <1>2 DEF ProcessGone
<1>3. ASSUME NEW d \in Daemons, Signal(d) \/ Wake(d) \/ EndSweep(d)
      PROVE  LockInv'
  BY <1>3 DEF Signal, Wake, EndSweep
<1>4. ASSUME NEW d \in Daemons, NEW r \in Repos,
             Elapse(d, r) \/ BeginTick(d, r)
      PROVE  LockInv'
  BY <1>4 DEF Elapse, BeginTick
<1>5. ASSUME NEW d \in Daemons, StillRunning(d) \/ Locked(d)
      PROVE  LockInv'
  <2>1. /\ \A e \in Daemons : e # d => pc'[e] = pc[e] /\ cur'[e] = cur[e]
        /\ pc'[d] = "sweep"
        /\ UNCHANGED <<lock, alive, used, live>>
    BY <1>5 DEF StillRunning, Locked, Return
  <2>2. QED
    BY <2>1
<1>6. ASSUME NEW d \in Daemons, PriorGone(d) PROVE LockInv'
  <2>1. cur[d] \in Repos
    BY <1>6 DEF PriorGone
  <2>2. CASE live' = live /\ lock' = lock
    BY <1>6, <2>1, <2>2 DEF PriorGone
  <2>3. CASE /\ live[d][cur[d]] # 0
             /\ live' = [live EXCEPT ![d][cur[d]] = 0]
             /\ Release(cur[d])
    <3>1. lock[cur[d]] = d
      BY <2>1, <2>3
    <3>2. /\ live'[d][cur[d]] = 0
          /\ \A e \in Daemons, q \in Repos :
                e # d \/ q # cur[d] => live'[e][q] = live[e][q]
      BY <2>1, <2>3, Registry
    <3>3. alive' \subseteq Daemons /\ NoPid \notin alive'
      BY <1>6 DEF PriorGone
    <3>4. QED
      BY <1>6, <2>1, <2>3, <3>1, <3>2, <3>3 DEF PriorGone, Release
  <2>4. QED
    BY <1>6, <2>2, <2>3 DEF PriorGone
<1>7. ASSUME NEW d \in Daemons, SeesFree(d) \/ Join(d) \/ StartWorker(d)
      PROVE  LockInv'
  BY <1>7 DEF SeesFree, Join, StartWorker
<1>8. ASSUME NEW d \in Daemons, WriteLock(d) PROVE LockInv'
  <2>1. cur[d] \in Repos /\ lock[cur[d]] \notin alive
    BY <1>8 DEF WriteLock
  <2>2. \A e \in Daemons : pc[e] \in Holding => cur[e] # cur[d]
    BY <2>1 DEF LocalInv
  <2>3. \A e \in Daemons : live[e][cur[d]] = 0
    BY <2>1 DEF LocalInv
  <2>4. \A e \in Daemons : e # d /\ pc[e] = "write" => cur[e] # cur[d]
    BY <1>8 DEF WriteLock, OneInWindow
  <2>5. QED
    BY <1>8, <2>1, <2>2, <2>3, <2>4 DEF WriteLock
<1>9. ASSUME NEW d \in Daemons, KeepZombie(d) PROVE LockInv'
  <2>1. cur[d] \in Repos /\ mine[d] # 0
    BY <1>9, StartedThread
  <2>2. /\ live'[d][cur[d]] = mine[d]
        /\ \A e \in Daemons, q \in Repos :
              e # d \/ q # cur[d] => live'[e][q] = live[e][q]
    BY <1>9, <2>1, Registry DEF KeepZombie
  <2>3. QED
    BY <1>9, <2>1, <2>2 DEF KeepZombie, Return
<1>10. ASSUME NEW d \in Daemons, ReleaseAfterRun(d) PROVE LockInv'
  <2>1. cur[d] \in Repos /\ lock[cur[d]] = d
    BY <1>10 DEF ReleaseAfterRun
  <2>2. /\ live'[d][cur[d]] = 0
        /\ \A e \in Daemons, q \in Repos :
              e # d \/ q # cur[d] => live'[e][q] = live[e][q]
    BY <1>10, <2>1, Registry DEF ReleaseAfterRun
  <2>3. QED
    BY <1>10, <2>1, <2>2 DEF ReleaseAfterRun, Return, Release
<1>11. ASSUME NEW t \in threads, WorkerEnds(t) PROVE LockInv'
  BY <1>11 DEF WorkerEnds
<1>12. ASSUME NEW c \in Clis, NEW r \in Repos, CliIngest(c, r)
       PROVE  LockInv'
  BY <1>12 DEF CliIngest
<1>13. CASE UNCHANGED vars
  BY <1>13 DEF vars
<1>14. QED
  BY <1>1, <1>2, <1>3, <1>4, <1>5, <1>6, <1>7, <1>8, <1>9, <1>10, <1>11,
     <1>12, <1>13
  DEF Next, MainStep, Crash, Exit

\* The environment without races is one of the environments.
LEMMA NoRaceIsSpec == SpecNoRace => Spec
<1>1. [Next /\ OneInWindow']_vars => [Next]_vars
  OBVIOUS
<1>2. QED
  BY <1>1, PTL DEF SpecNoRace, Spec

\* Without races and reused pids, the lockfile tells the truth.
LEMMA LockInvariance ==
    ASSUME ~PidReuse
    PROVE  SpecNoRace => [](LockInv /\ OneInWindow)
<1>1. Init => LockInv /\ OneInWindow
  BY SchedulerAssumption DEF Init, LockInv, PidInv, OneInWindow, Holding
<1>2. OneInWindow /\ [Next /\ OneInWindow']_vars => OneInWindow'
  BY DEF vars, OneInWindow
<1>3. QED
  BY <1>1, <1>2, LockStepInv, NoRaceIsSpec, TypeCorrect, LocalInvariance, PTL
  DEF SpecNoRace

\* While an ingest of a scheduler runs, the lockfile names that scheduler.
THEOREM LockNamesWorkerHolds ==
    ASSUME ~PidReuse
    PROVE  SpecNoRace => []LockNamesWorker
<1>1. TypeOK /\ LocalInv /\ LockInv => LockNamesWorker
  <2> SUFFICES ASSUME TypeOK, LocalInv, LockInv,
                      NEW t \in threads, t.proc \in Daemons
               PROVE  lock[t.repo] = t.proc
    BY DEF LockNamesWorker
  <2>1. t.repo \in Repos /\ t.id # 0
    BY ThreadRecord
  <2>2. Accounted(t)
    BY DEF LocalInv
  <2>3. QED
    BY <2>1, <2>2 DEF Accounted, LockInv, Holding
<1>2. QED
  BY <1>1, NoRaceIsSpec, TypeCorrect, LocalInvariance, LockInvariance, PTL

\* "Per-repo lockfile prevents overlapping runs": true of any number of
\* schedulers, crashes and timeouts, provided that no command line ingest
\* runs, no pid is reused and nobody races through the window.
THEOREM MutualExclusionHolds ==
    ASSUME ~PidReuse, Clis = {}
    PROVE  SpecNoRace => []MutualExclusion
<1>1. TypeOK /\ LocalInv /\ LockInv => MutualExclusion
  <2> SUFFICES ASSUME TypeOK, LocalInv, LockInv,
                      NEW t \in threads, NEW u \in threads, t.repo = u.repo
               PROVE  t = u
    BY DEF MutualExclusion
  <2>1. t.proc \in Daemons /\ u.proc \in Daemons
    BY ThreadRecord DEF Thread
  <2>2. lock[t.repo] = t.proc /\ lock[u.repo] = u.proc
    BY <2>1, ThreadRecord DEF LocalInv, LockInv, Accounted, Holding
  <2>3. t.id = u.id
    BY <2>1, <2>2, ThreadRecord DEF LocalInv, Accounted, Ticking, Holding
  <2>4. QED
    BY <2>2, <2>3, ThreadRecord
<1>2. QED
  BY <1>1, NoRaceIsSpec, TypeCorrect, LocalInvariance, LockInvariance, PTL

\* No step takes the lockfile away from under a running worker.
THEOREM ReleasedOnlyWhenIdleHolds ==
    ASSUME ~PidReuse
    PROVE  SpecNoRace => ReleasedOnlyWhenIdle
<1> DEFINE Idle == \A d \in alive, r \in Repos :
                      lock[r] = d /\ lock'[r] # d => Running(d, r) = {}
<1> USE SchedulerAssumption
<1>1. TypeOK /\ LocalInv /\ LockInv /\ [Next]_vars => [Idle]_vars
  <2> SUFFICES ASSUME TypeOK, LocalInv, LockInv, [Next]_vars,
                      NEW d \in alive, NEW r \in Repos,
                      lock[r] = d, lock'[r] # d, NEW t \in Running(d, r)
               PROVE  FALSE
    OBVIOUS
  <2>0. /\ d \in Daemons /\ t \in threads /\ t.proc = d /\ t.repo = r
        /\ Accounted(t)
    BY DEF Running, LocalInv, TypeOK
  <2>1. ASSUME NEW e \in Daemons, WriteLock(e) PROVE FALSE
    BY <2>1 DEF WriteLock, LockInv, TypeOK
  <2>2. ASSUME NEW e \in Daemons, PriorGone(e), live[e][cur[e]] # 0
        PROVE  FALSE
    <3>1. cur[e] = r /\ e = d
      BY <2>2 DEF PriorGone, Release, LockInv, TypeOK, Ticking, Holding
    <3>2. t.id # live[d][r]
      BY <2>0, <2>2, <3>1, ThreadRecord DEF PriorGone, IsAlive
    <3>3. QED
      BY <2>0, <2>2, <3>1, <3>2 DEF PriorGone, Accounted
  <2>3. ASSUME NEW e \in Daemons, ReleaseAfterRun(e) PROVE FALSE
    <3>1. cur[e] = r /\ e = d
      BY <2>3 DEF ReleaseAfterRun, Release, LockInv, TypeOK, Ticking, Holding
    <3>2. t.id # mine[d] /\ live[d][r] = 0 /\ t.id # 0
      BY <2>0, <2>3, <3>1, ThreadRecord
      DEF ReleaseAfterRun, IsAlive, LocalInv, Ticking, Holding
    <3>3. QED
      BY <2>0, <3>2 DEF Accounted
  <2>4. QED
    BY <2>1, <2>2, <2>3, LockStep
<1>2. QED
  BY <1>1, NoRaceIsSpec, TypeCorrect, LocalInvariance, LockInvariance, PTL
  DEF ReleasedOnlyWhenIdle, Spec

\* What a step may do to the ingests that run: a scheduler that holds the lock
\* starts one, or some end.
LEMMA ThreadStep ==
    ASSUME TypeOK, [Next]_vars, Clis = {}
    PROVE  \/ threads' = threads
           \/ threads' \subseteq threads
           \/ \E t \in Thread : t.repo \in Repos /\ threads' = threads \cup {t}
<1> USE SchedulerAssumption
<1>1. ASSUME NEW d \in Daemons, StartWorker(d)
      PROVE  \E t \in Thread : t.repo \in Repos /\ threads' = threads \cup {t}
  <2>1. cur[d] \in Repos
    BY <1>1 DEF StartWorker, TypeOK, Ticking, Holding
  <2>2. PICK i \in ThreadIds :
           threads' = threads \cup {[proc |-> d, repo |-> cur[d], id |-> i]}
    BY <1>1 DEF StartWorker
  <2>3. [proc |-> d, repo |-> cur[d], id |-> i] \in Thread
    BY <2>1 DEF Thread
  <2>4. QED
    BY <2>1, <2>2, <2>3
<1>2. ASSUME NEW d \in Daemons, ProcessGone(d) PROVE threads' \subseteq threads
  BY <1>2 DEF ProcessGone
<1>3. ASSUME NEW t \in threads, WorkerEnds(t) PROVE threads' \subseteq threads
  BY <1>3 DEF WorkerEnds
<1>4. ASSUME NEW d \in Daemons, NEW r \in Repos,
             \/ Launch(d) \/ Signal(d) \/ Wake(d) \/ EndSweep(d) \/ BeginTick(d, r)
             \/ StillRunning(d) \/ PriorGone(d) \/ Locked(d) \/ SeesFree(d)
             \/ WriteLock(d) \/ Join(d) \/ KeepZombie(d) \/ ReleaseAfterRun(d)
             \/ Elapse(d, r)
      PROVE  threads' = threads
  BY <1>4 DEF Launch, Signal, Wake, EndSweep, BeginTick, StillRunning,
     PriorGone, Locked, SeesFree, WriteLock, Join, KeepZombie,
     ReleaseAfterRun, Elapse
<1>5. ASSUME NEW d \in Daemons,
             \/ Launch(d) \/ Signal(d) \/ Wake(d) \/ EndSweep(d)
             \/ StillRunning(d) \/ PriorGone(d) \/ Locked(d) \/ SeesFree(d)
             \/ WriteLock(d) \/ Join(d) \/ KeepZombie(d) \/ ReleaseAfterRun(d)
      PROVE  threads' = threads
  BY <1>5 DEF Launch, Signal, Wake, EndSweep, StillRunning,
     PriorGone, Locked, SeesFree, WriteLock, Join, KeepZombie,
     ReleaseAfterRun
<1>6. CASE UNCHANGED vars
  BY <1>6 DEF vars
<1>7. QED
  BY <1>1, <1>2, <1>3, <1>4, <1>5, <1>6 DEF Next, MainStep, Crash, Exit

\* The schedulers implement OneIngest, under the conditions of
\* MutualExclusionHolds: an ingest begins only on a repository nobody ingests.
THEOREM OneIngestAtATimeHolds ==
    ASSUME ~PidReuse, Clis = {}
    PROVE  SpecNoRace => OneIngestAtATime
<1>1. Init => Promise!Init
  BY DEF Init, Promise!Init, RunsOf
<1>2. TypeOK /\ MutualExclusion' /\ [Next]_vars => [Promise!Next]_RunsOf
  <2> SUFFICES ASSUME TypeOK, MutualExclusion', [Next]_vars
               PROVE  Promise!Next \/ RunsOf' = RunsOf
    OBVIOUS
  <2>1. CASE threads' = threads
    BY <2>1 DEF RunsOf
  <2>2. CASE threads' \subseteq threads
    <3>1. threads \ threads' \in SUBSET Thread
      BY DEF TypeOK
    <3>2. RunsOf' = [r \in Repos |-> RunsOf[r] \ (threads \ threads')]
      BY <2>2 DEF RunsOf
    <3>3. Promise!End
      BY <3>1, <3>2 DEF Promise!End
    <3>4. QED
      BY <3>3 DEF Promise!Next
  <2>3. CASE \E t \in Thread : t.repo \in Repos /\ threads' = threads \cup {t}
    <3>1. PICK t \in Thread : t.repo \in Repos /\ threads' = threads \cup {t}
      BY <2>3
    <3>2. CASE t \in threads
      BY <3>1, <3>2 DEF RunsOf
    <3>3. CASE t \notin threads
      <4>1. RunsOf[t.repo] = {}
        BY <3>1, <3>3 DEF RunsOf, MutualExclusion
      <4>2. RunsOf' = [RunsOf EXCEPT ![t.repo] = {t}]
        BY <3>1, <4>1 DEF RunsOf
      <4>3. Promise!Begin(t.repo)
        BY <4>1, <4>2 DEF Promise!Begin
      <4>4. QED
        BY <3>1, <4>3 DEF Promise!Next
    <3>4. QED
      BY <3>2, <3>3
  <2>4. QED
    BY <2>1, <2>2, <2>3, ThreadStep
<1>3. QED
  BY <1>1, <1>2, TypeCorrect, NoRaceIsSpec, MutualExclusionHolds, PTL
  DEF SpecNoRace, OneIngestAtATime, Promise!Spec, Spec

=============================================================================
