------------------------------ MODULE OneIngest ------------------------------
(***************************************************************************)
(* What the per-repository lockfile promises ("Per-repo lockfile prevents  *)
(* overlapping runs", features/scheduler/runner.py), with no lockfile, no  *)
(* pid and no timeout in it: a repository is ingested by at most one run   *)
(* at a time.  Module Scheduler implements this under SpecNoRace; module   *)
(* Ingest assumes as much of its environment, in SpecSerial.               *)
(***************************************************************************)
CONSTANTS
    Places,     \* what is ingested: the repositories
    Runs        \* the ingest runs there may be

VARIABLE running    \* running[p]: the runs that are ingesting p

Init == running = [p \in Places |-> {}]

\* A run begins on a repository nobody is ingesting.
Begin(p) ==
    /\ running[p] = {}
    /\ \E x \in Runs : running' = [running EXCEPT ![p] = {x}]

\* Runs end: one by itself, or all those of a process that dies.
End ==
    \E ended \in SUBSET Runs :
        running' = [p \in Places |-> running[p] \ ended]

Next == End \/ \E p \in Places : Begin(p)

Spec == Init /\ [][Next]_running

=============================================================================
