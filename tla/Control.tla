--------------------------------- MODULE Control ---------------------------------
(***************************************************************************)
(* The files by which the scheduler is controlled: scheduler.yaml, which   *)
(* add_repo and remove_repo of features/scheduler/runner.py load, change   *)
(* and save for `schedule add` and `remove` (api/commands/schedule.py) and *)
(* for the dashboard (ui/server.py), and the pidfile by which `schedule    *)
(* daemon` (daemonize) and `schedule stop` (stop_daemon) find the daemon.  *)
(* Neither is locked: the commands are processes of their own.             *)
(*                                                                         *)
(* The settings of a repository are one value; a file that is missing,     *)
(* blank or not YAML is loaded as one without repositories.                *)
(***************************************************************************)
EXTENDS Integers, FiniteSets, Sequences

CONSTANTS
    Repos, Settings,
    Unset,         \* the repository is not in the file
    Clients,       \* those who give commands, one after the other
    Pids,          \* the processes there will be; no pid is used twice
    NoPid, Blank,  \* no pidfile; one that is empty
    MaxCommands,   \* bound on the commands given
    MaxDeaths      \* bound on the processes that die otherwise than by a command

ASSUME ControlAssumption ==
    /\ Repos # {} /\ Unset \notin Settings
    /\ NoPid \notin Pids /\ Blank \notin Pids /\ NoPid # Blank
    /\ IsFiniteSet(Pids)
    /\ {MaxCommands, MaxDeaths} \subseteq Nat

VARIABLES
    file,      \* scheduler.yaml, as load makes it out
    pidfile,
    proc,      \* proc[p]: unborn, forked, writing its pid, loading, looping,
               \* stopping, leaving or ended
    seen,      \* seen[p]: the configuration p has loaded
    pc,        \* where each client's command stands
    op,        \* op[c]: what is to be changed in the file
    cfg,       \* cfg[c]: what c has loaded, then what it is to save
    other,     \* other[c]: the process c has forked, or read in the pidfile
    meant,     \* what the file holds if each change is made when it is saved
    spoilt,    \* two changes of the file have overlapped, or one has died
    raced,     \* two of daemon and stop have overlapped, or a daemon was slower
               \* with its pid than its parent or has outlived it
    commands, deaths   \* so far

registry == <<file, meant, spoilt>>
daemon == <<pidfile, proc, seen, raced>>
client == <<pc, op, cfg, other>>
tally == <<commands, deaths>>
vars == <<registry, daemon, client, tally>>

Config == [Repos -> Settings \cup {Unset}]
Empty == [r \in Repos |-> Unset]
Alive == {p \in Pids : proc[p] \notin {"unborn", "ended"}}

Changing == {"load", "truncate", "save"}
Starting == {"check", "fork", "await"}
Stopping == {"read", "term", "poll", "kill", "unlink"}

\* Where a daemon is one: forked, and not yet past the end of its loop.
Daemonic == {"forked", "writing", "loading", "looping", "stopping"}

TypeOK ==
    /\ file \in Config /\ meant \in Config
    /\ pidfile \in Pids \cup {NoPid, Blank}
    /\ pidfile \in Pids => proc[pidfile] # "unborn"
    /\ proc \in [Pids -> {"unborn", "forked", "writing", "loading", "looping",
                          "stopping", "leaving", "ended"}]
    /\ seen \in [Pids -> Config]
    /\ pc \in [Clients -> {"idle"} \cup Changing \cup Starting \cup Stopping]
    /\ op \in [Clients -> Repos \X (Settings \cup {Unset})]
    /\ cfg \in [Clients -> Config]
    /\ other \in [Clients -> Pids \cup {NoPid}]
    /\ \A c \in Clients : pc[c] \in {"await", "term", "poll", "kill", "unlink"} =>
          other[c] \in Pids /\ proc[other[c]] # "unborn"
    /\ {spoilt, raced} \subseteq BOOLEAN
    /\ commands \in 0..MaxCommands /\ deaths \in 0..MaxDeaths

Init ==
    /\ file = Empty /\ meant = Empty /\ spoilt = FALSE
    /\ pidfile = NoPid /\ raced = FALSE
    /\ proc = [p \in Pids |-> "unborn"]
    /\ seen = [p \in Pids |-> Empty]
    /\ pc = [c \in Clients |-> "idle"]
    /\ op = [c \in Clients |-> <<CHOOSE r \in Repos : TRUE, Unset>>]
    /\ cfg = [c \in Clients |-> Empty]
    /\ other = [c \in Clients |-> NoPid]
    /\ commands = 0 /\ deaths = 0

-----------------------------------------------------------------------------

Goto(c, p) == pc' = [pc EXCEPT ![c] = p]

\* c gives a command while nothing, or something of the kind, is under way.
Command(c, p) ==
    /\ pc[c] = "idle" /\ commands < MaxCommands
    /\ commands' = commands + 1
    /\ Goto(c, p)

Busy(c, places) == \E d \in Clients \ {c} : pc[d] \in places

-----------------------------------------------------------------------------
(* scheduler.yaml.                                                         *)

\* `schedule add` or `remove`, the dashboard's add, remove or delete.
Begin(c) ==
    /\ Command(c, "load")
    /\ \E r \in Repos, v \in Settings \cup {Unset} : op' = [op EXCEPT ![c] = <<r, v>>]
    /\ spoilt' = (spoilt \/ Busy(c, Changing))
    /\ UNCHANGED <<file, meant, daemon, cfg, other, deaths>>

\* Slip: an entry that is there is left as it is.
ChangedOnce(f, r, v) == IF v # Unset /\ f[r] # Unset THEN f ELSE [f EXCEPT ![r] = v]

\* The entries of the same name are filtered out, and the new one is appended.
Changed(f, r, v) == [f EXCEPT ![r] = v]

Load(c) ==
    /\ pc[c] = "load"
    /\ cfg' = [cfg EXCEPT ![c] = Changed(file, op[c][1], op[c][2])]
    /\ Goto(c, "truncate")
    /\ UNCHANGED <<registry, daemon, op, other, tally>>

\* save: write_text opens the file, which empties it, and writes.
Truncate(c) ==
    /\ pc[c] = "truncate"
    /\ file' = Empty
    /\ Goto(c, "save")
    /\ UNCHANGED <<meant, spoilt, daemon, op, cfg, other, tally>>

Save(c) ==
    /\ pc[c] = "save"
    /\ file' = cfg[c]
    /\ meant' = [meant EXCEPT ![op[c][1]] = op[c][2]]
    /\ cfg' = [cfg EXCEPT ![c] = Empty]
    /\ Goto(c, "idle")
    /\ UNCHANGED <<spoilt, daemon, op, other, tally>>

-----------------------------------------------------------------------------
(* `schedule daemon`: daemonize.                                           *)

BeginDaemon(c) ==
    /\ Command(c, "check")
    /\ raced' = (raced \/ Busy(c, Starting \cup Stopping))
    /\ UNCHANGED <<registry, pidfile, proc, seen, op, cfg, other, deaths>>

\* Slip: the pidfile is not looked at.
CheckNone(c) ==
    /\ pc[c] = "check"
    /\ Goto(c, "fork")
    /\ UNCHANGED <<registry, daemon, op, cfg, other, tally>>

\* The pidfile names a process that is there: "scheduler already running".
Check(c) ==
    /\ pc[c] = "check"
    /\ Goto(c, IF pidfile \in Alive THEN "idle" ELSE "fork")
    /\ UNCHANGED <<registry, daemon, op, cfg, other, tally>>

Fork(c) ==
    /\ pc[c] = "fork"
    /\ \E p \in Pids :
          /\ proc[p] = "unborn"
          /\ proc' = [proc EXCEPT ![p] = "forked"]
          /\ other' = [other EXCEPT ![c] = p]
    /\ Goto(c, "await")
    /\ UNCHANGED <<registry, pidfile, seen, raced, op, cfg, tally>>

\* The parent returns with a pid it finds in the file, an older one maybe, or
\* after 2.5 s without.
Await(c) ==
    /\ pc[c] = "await"
    /\ raced' = (raced \/ proc[other[c]] \in {"forked", "writing"})
    /\ other' = [other EXCEPT ![c] = NoPid]
    /\ Goto(c, "idle")
    /\ UNCHANGED <<registry, pidfile, proc, seen, op, cfg, tally>>

\* The grandchild: write_text empties the file and writes.
OpenPidfile(p) ==
    /\ proc[p] = "forked"
    /\ pidfile' = Blank
    /\ proc' = [proc EXCEPT ![p] = "writing"]
    /\ UNCHANGED <<registry, seen, raced, client, tally>>

WritePidfile(p) ==
    /\ proc[p] = "writing"
    /\ pidfile' = p
    /\ proc' = [proc EXCEPT ![p] = "loading"]
    /\ UNCHANGED <<registry, seen, raced, client, tally>>

\* run_loop loads the configuration, once, opens Neo4j and the state database,
\* and installs its handlers.  It returns if there is nothing to sweep, and
\* raises if one of them cannot be opened.
Configure(p) ==
    /\ proc[p] = "loading"
    /\ seen' = [seen EXCEPT ![p] = file]
    /\ \E next \in {"looping", "stopping"} :
          /\ file = Empty => next = "stopping"
          /\ proc' = [proc EXCEPT ![p] = next]
    /\ UNCHANGED <<registry, pidfile, raced, client, tally>>

\* run_loop has returned or raised: finally the pidfile goes, whoever it names.
Unlink(p) ==
    /\ proc[p] = "stopping"
    /\ pidfile' = NoPid
    /\ proc' = [proc EXCEPT ![p] = "leaving"]
    /\ UNCHANGED <<registry, seen, raced, client, tally>>

Exit(p) ==
    /\ proc[p] = "leaving"
    /\ proc' = [proc EXCEPT ![p] = "ended"]
    /\ UNCHANGED <<registry, pidfile, seen, raced, client, tally>>

-----------------------------------------------------------------------------
(* `schedule stop`: stop_daemon.                                           *)

BeginStop(c) ==
    /\ Command(c, "read")
    /\ raced' = (raced \/ Busy(c, Starting \cup Stopping))
    /\ UNCHANGED <<registry, pidfile, proc, seen, op, cfg, other, deaths>>

\* A pidfile that is not there or blank: nothing to stop.
ReadPidfile(c) ==
    /\ pc[c] = "read"
    /\ IF pidfile \in Pids
       THEN other' = [other EXCEPT ![c] = pidfile] /\ Goto(c, "term")
       ELSE Goto(c, "idle") /\ UNCHANGED other
    /\ UNCHANGED <<registry, daemon, op, cfg, tally>>

\* What SIGTERM does: the loop takes note and stops at its next look; a process
\* that has no handlers (not yet, or because it never got to the loop) ends.
Signalled(at) ==
    CASE at = "looping" -> {"stopping"}
      [] at \in {"stopping", "leaving"} -> {at, "ended"}
      [] OTHER -> {"ended"}

\* To nobody: unlink, and return.
Term(c) ==
    /\ pc[c] = "term"
    /\ LET p == other[c] IN
       IF p \in Alive
       THEN /\ \E how \in Signalled(proc[p]) : proc' = [proc EXCEPT ![p] = how]
            /\ Goto(c, "poll") /\ UNCHANGED <<pidfile, other>>
       ELSE /\ pidfile' = NoPid /\ other' = [other EXCEPT ![c] = NoPid]
            /\ Goto(c, "idle") /\ UNCHANGED proc
    /\ UNCHANGED <<registry, seen, raced, op, cfg, tally>>

\* The process is gone, or wait_seconds have passed.
Poll(c) ==
    /\ pc[c] = "poll"
    /\ Goto(c, "kill")
    /\ UNCHANGED <<registry, daemon, op, cfg, other, tally>>

\* SIGKILL, if it is still there, and half a second without a look: a process
\* so killed runs no more, and is taken for ended here.
Kill(c) ==
    /\ pc[c] = "kill"
    /\ proc' = [proc EXCEPT ![other[c]] = "ended"]
    /\ Goto(c, "unlink")
    /\ UNCHANGED <<registry, pidfile, seen, raced, op, cfg, other, tally>>

Stopped(c) ==
    /\ pc[c] = "unlink"
    /\ pidfile' = NoPid
    /\ other' = [other EXCEPT ![c] = NoPid]
    /\ Goto(c, "idle")
    /\ UNCHANGED <<registry, proc, seen, raced, op, cfg, tally>>

-----------------------------------------------------------------------------
(* Deaths.                                                                 *)

Dies == deaths < MaxDeaths /\ deaths' = deaths + 1

\* A daemon is killed, by somebody or for want of memory, or told to stop.
Perish(p) ==
    /\ p \in Alive /\ Dies
    /\ \E how \in {"stopping", "ended"} :
          /\ how = "stopping" => proc[p] = "looping"
          /\ proc' = [proc EXCEPT ![p] = how]
    /\ UNCHANGED <<registry, pidfile, seen, raced, client, commands>>

\* A command is interrupted.
Interrupt(c) ==
    /\ pc[c] # "idle" /\ Dies
    /\ spoilt' = (spoilt \/ pc[c] = "save")
    /\ raced' = (raced \/ (pc[c] = "await" /\ proc[other[c]] \in {"forked", "writing"}))
    /\ cfg' = [cfg EXCEPT ![c] = Empty]
    /\ other' = [other EXCEPT ![c] = NoPid]
    /\ Goto(c, "idle")
    /\ UNCHANGED <<file, meant, pidfile, proc, seen, op, commands>>

-----------------------------------------------------------------------------
ClientStep(c) ==
    \/ Load(c) \/ Truncate(c) \/ Save(c)
    \/ Check(c) \/ Fork(c) \/ Await(c)
    \/ ReadPidfile(c) \/ Term(c) \/ Poll(c) \/ Kill(c) \/ Stopped(c)

DaemonStep(p) ==
    OpenPidfile(p) \/ WritePidfile(p) \/ Configure(p) \/ Unlink(p) \/ Exit(p)

Next ==
    \/ \E c \in Clients : \/ Begin(c) \/ BeginDaemon(c) \/ BeginStop(c)
                          \/ ClientStep(c) \/ Interrupt(c)
    \/ \E p \in Pids : DaemonStep(p) \/ Perish(p)

Spec == Init /\ [][Next]_vars

\* Processes run.
FairSpec ==
    /\ Spec
    /\ \A c \in Clients : WF_vars(ClientStep(c))
    /\ \A p \in Pids : WF_vars(DaemonStep(p))

-----------------------------------------------------------------------------
(* Properties.                                                             *)

\* As long as no two changes of scheduler.yaml have overlapped and none has
\* died while writing it, whatever else goes on, the file is what was asked
\* for whenever nobody is changing it.
RegistryKept ==
    ~spoilt /\ (\A c \in Clients : pc[c] \notin Changing) => file = meant

\* "scheduler already running": as long as no two of daemon and stop have
\* overlapped and every daemon had its pid written before its parent left,
\* there are no two daemons, however daemons and commands have died; and when
\* no such command is under way the pidfile names the one there is.
OneDaemon ==
    ~raced =>
       /\ \A p, q \in Pids : proc[p] \in Daemonic /\ proc[q] \in Daemonic => p = q
       /\ (\A c \in Clients : pc[c] \notin Starting) =>
             \A p \in Pids : proc[p] \in {"loading", "looping"} => pidfile = p

\* "scheduler reloads config each tick; no daemon restart needed": what
\* stays in scheduler.yaml reaches every daemon that stays.
ChangeReachesDaemon ==
    \A p \in Pids, r \in Repos, v \in Settings \cup {Unset} :
       <>[](proc[p] = "looping" /\ file[r] = v) => <>[](seen[p][r] = v)

-----------------------------------------------------------------------------
(* The inductive invariants behind them.                                   *)

\* Of scheduler.yaml: one client at a time changes it, and what it is to save
\* is what is there, changed.
RegistryInv ==
    ~spoilt =>
       /\ \A c, d \in Clients : pc[c] \in Changing /\ pc[d] \in Changing => c = d
       /\ (\A c \in Clients : pc[c] # "save") => file = meant
       /\ \A c \in Clients : pc[c] \in {"truncate", "save"} =>
             cfg[c] = Changed(meant, op[c][1], op[c][2])

\* Of the pidfile: one client at a time starts or stops, it has not forked while
\* there is a daemon, a daemon without its pid in the file is one it awaits,
\* and the one in the file is the one it stops.
PidfileInv ==
    ~raced =>
       /\ \A c, d \in Clients :
             pc[c] \in Starting \cup Stopping /\ pc[d] \in Starting \cup Stopping => c = d
       /\ \A p, q \in Pids : proc[p] \in Daemonic /\ proc[q] \in Daemonic => p = q
       /\ \A p \in Pids : proc[p] \in {"loading", "looping", "stopping"} =>
             /\ pidfile = p
             /\ \A c \in Clients :
                   pc[c] \in {"term", "poll", "kill", "unlink"} => other[c] = p
       /\ \A p \in Pids : proc[p] \in {"forked", "writing"} =>
             \E c \in Clients : pc[c] = "await" /\ other[c] = p
       /\ \A c \in Clients : pc[c] = "fork" => \A p \in Pids : proc[p] \notin Daemonic

\* Of a process that stop has killed: it stays so.
StopInv == \A c \in Clients : pc[c] = "unlink" => proc[other[c]] = "ended"

=============================================================================
