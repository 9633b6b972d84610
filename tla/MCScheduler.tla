----------------------------- MODULE MCScheduler -----------------------------
(* Instances of Scheduler for TLC.                                         *)
EXTENDS Scheduler, TLC

\* The pids are interchangeable: no definition but OneShot tells them apart.
DaemonSymmetry == Permutations(Daemons \ OneShot)

=============================================================================
