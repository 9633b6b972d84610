---------------------------- MODULE Control_proof ----------------------------
(***************************************************************************)
(* Proofs about Control, for any number of repositories, settings, clients,*)
(* processes, commands and deaths.                                         *)
(***************************************************************************)
EXTENDS Control, TLAPS

\* Every variable of the files and the processes keeps its type.
THEOREM TypeCorrect == Spec => []TypeOK
<1> USE ControlAssumption
<1>1. Init => TypeOK
  <2>1. (CHOOSE r \in Repos : TRUE) \in Repos
    OBVIOUS
  <2>2. Empty \in Config
    BY DEF Empty, Config
  <2>3. [c \in Clients |-> <<CHOOSE r \in Repos : TRUE, Unset>>]
           \in [Clients -> Repos \X (Settings \cup {Unset})]
    BY <2>1
  <2>4. MaxCommands \in Nat /\ MaxDeaths \in Nat
    OBVIOUS
  <2> SUFFICES ASSUME Init PROVE TypeOK
    OBVIOUS
  <2>5. op \in [Clients -> Repos \X (Settings \cup {Unset})]
    BY <2>3, Zenon DEF Init
  <2>6. /\ proc = [p \in Pids |-> "unborn"] /\ seen = [p \in Pids |-> Empty]
        /\ pc = [c \in Clients |-> "idle"] /\ cfg = [c \in Clients |-> Empty]
        /\ other = [c \in Clients |-> NoPid]
        /\ file = Empty /\ meant = Empty /\ spoilt = FALSE /\ raced = FALSE
        /\ pidfile = NoPid /\ commands = 0 /\ deaths = 0
    BY DEF Init
  <2>7. {spoilt, raced} \subseteq BOOLEAN
    BY <2>6
  <2>8. /\ proc \in [Pids -> {"unborn", "forked", "writing", "loading", "looping",
                             "stopping", "leaving", "ended"}]
        /\ seen \in [Pids -> Config]
        /\ pc \in [Clients -> {"idle"} \cup Changing \cup Starting \cup Stopping]
        /\ cfg \in [Clients -> Config] /\ other \in [Clients -> Pids \cup {NoPid}]
    BY <2>2, <2>6
  <2>9. commands \in 0..MaxCommands /\ deaths \in 0..MaxDeaths
    BY <2>4, <2>6
  <2>10. \A c \in Clients : pc[c] = "idle"
    BY <2>6
  <2>11. /\ file \in Config /\ meant \in Config
         /\ pidfile \in Pids \cup {NoPid, Blank} /\ pidfile \notin Pids
    BY <2>2, <2>6
  <2>12. QED
    BY <2>5, <2>7, <2>8, <2>9, <2>10, <2>11 DEF TypeOK
<1>2. TypeOK /\ [Next]_vars => TypeOK'
  <2> SUFFICES ASSUME TypeOK, [Next]_vars
               PROVE  TypeOK'
    OBVIOUS
  <2> USE DEF TypeOK, Changing, Starting, Stopping, registry, daemon, client, tally
  <2>0. Empty \in Config
    BY DEF Empty, Config
  <2>1. ASSUME NEW c \in Clients, Begin(c) PROVE TypeOK'
    BY <2>1 DEF Begin, Command, Goto, Busy
  <2>2. ASSUME NEW c \in Clients, Load(c) PROVE TypeOK'
    <3>1. op[c][1] \in Repos /\ op[c][2] \in Settings \cup {Unset}
      OBVIOUS
    <3>2. Changed(file, op[c][1], op[c][2]) \in Config
      BY <3>1 DEF Changed, Config
    <3>3. QED
      BY <2>2, <3>2 DEF Load, Goto
  <2>3. ASSUME NEW c \in Clients, Truncate(c) PROVE TypeOK'
    BY <2>3, <2>0 DEF Truncate, Goto
  <2>4. ASSUME NEW c \in Clients, Save(c) PROVE TypeOK'
    <3>1. op[c][1] \in Repos /\ op[c][2] \in Settings \cup {Unset}
      OBVIOUS
    <3>2. [meant EXCEPT ![op[c][1]] = op[c][2]] \in Config
      BY <3>1 DEF Config
    <3>3. QED
      BY <2>4, <2>0, <3>2 DEF Save, Goto
  <2>5. ASSUME NEW c \in Clients, BeginDaemon(c) PROVE TypeOK'
    BY <2>5 DEF BeginDaemon, Command, Goto, Busy
  <2>6. ASSUME NEW c \in Clients, Check(c) PROVE TypeOK'
    BY <2>6 DEF Check, Goto
  <2>7. ASSUME NEW c \in Clients, Fork(c) PROVE TypeOK'
    BY <2>7 DEF Fork, Goto
  <2>8. ASSUME NEW c \in Clients, Await(c) PROVE TypeOK'
    BY <2>8 DEF Await, Goto
  <2>9. ASSUME NEW c \in Clients, BeginStop(c) PROVE TypeOK'
    BY <2>9 DEF BeginStop, Command, Goto, Busy
  <2>10. ASSUME NEW c \in Clients, ReadPidfile(c) PROVE TypeOK'
    <3>1. /\ pc[c] = "read" /\ UNCHANGED <<registry, daemon, op, cfg, tally>>
          /\ \/ /\ pidfile \in Pids /\ other' = [other EXCEPT ![c] = pidfile]
                /\ pc' = [pc EXCEPT ![c] = "term"]
             \/ pc' = [pc EXCEPT ![c] = "idle"] /\ UNCHANGED other
      BY <2>10 DEF ReadPidfile, Goto
    <3>2. QED
      BY <3>1
  <2>11. ASSUME NEW c \in Clients, Term(c) PROVE TypeOK'
    <3>1. /\ pc[c] = "term" /\ UNCHANGED <<registry, seen, raced, op, cfg, tally>>
          /\ other[c] \in Pids /\ proc[other[c]] # "unborn"
      BY <2>11 DEF Term
    <3>2. ASSUME NEW how \in Signalled(proc[other[c]]),
                 proc' = [proc EXCEPT ![other[c]] = how],
                 pc' = [pc EXCEPT ![c] = "poll"], UNCHANGED <<pidfile, other>>
          PROVE  TypeOK'
      <4>1. how \in {"stopping", "leaving", "ended"}
        BY <3>2 DEF Signalled
      <4>2. QED
        BY <3>1, <3>2, <4>1
    <3>3. ASSUME pidfile' = NoPid, other' = [other EXCEPT ![c] = NoPid],
                 pc' = [pc EXCEPT ![c] = "idle"], UNCHANGED proc
          PROVE  TypeOK'
      BY <3>1, <3>3
    <3>4. QED
      BY <3>2, <3>3, <2>11 DEF Term, Goto
  <2>12. ASSUME NEW c \in Clients, Poll(c) PROVE TypeOK'
    BY <2>12 DEF Poll, Goto
  <2>13. ASSUME NEW c \in Clients, Kill(c) PROVE TypeOK'
    BY <2>13 DEF Kill, Goto
  <2>14. ASSUME NEW c \in Clients, Stopped(c) PROVE TypeOK'
    BY <2>14 DEF Stopped, Goto
  <2>15. ASSUME NEW c \in Clients, Interrupt(c) PROVE TypeOK'
    BY <2>15, <2>0 DEF Interrupt, Goto, Dies
  <2>16. ASSUME NEW p \in Pids, OpenPidfile(p) PROVE TypeOK'
    BY <2>16 DEF OpenPidfile
  <2>17. ASSUME NEW p \in Pids, WritePidfile(p) PROVE TypeOK'
    BY <2>17 DEF WritePidfile
  <2>18. ASSUME NEW p \in Pids, Configure(p) PROVE TypeOK'
    BY <2>18 DEF Configure
  <2>19. ASSUME NEW p \in Pids, Unlink(p) PROVE TypeOK'
    BY <2>19 DEF Unlink
  <2>20. ASSUME NEW p \in Pids, Exit(p) PROVE TypeOK'
    BY <2>20 DEF Exit
  <2>21. ASSUME NEW p \in Pids, Perish(p) PROVE TypeOK'
    BY <2>21 DEF Perish, Alive, Dies
  <2>22. CASE UNCHANGED vars
    BY <2>22 DEF vars
  <2>23. QED
    BY <2>1, <2>2, <2>3, <2>4, <2>5, <2>6, <2>7, <2>8, <2>9, <2>10, <2>11, <2>12,
       <2>13, <2>14, <2>15, <2>16, <2>17, <2>18, <2>19, <2>20, <2>21, <2>22
    DEF Next, ClientStep, DaemonStep
<1>3. QED
  BY <1>1, <1>2, PTL DEF Spec

-----------------------------------------------------------------------------
(* scheduler.yaml.                                                         *)

\* Only these steps touch the file, or the place of a client that changes it.
LEMMA Registry ==
    ASSUME TypeOK, [Next]_vars
    PROVE  \/ \E c \in Clients : Begin(c) \/ Load(c) \/ Truncate(c) \/ Save(c)
                                 \/ Interrupt(c)
           \/ /\ UNCHANGED <<registry, op, cfg>>
              /\ \A c \in Clients : \/ pc'[c] = pc[c]
                                    \/ pc[c] \notin Changing /\ pc'[c] \notin Changing
<1> USE DEF TypeOK, Changing, registry, daemon, client, tally
<1>1. ASSUME NEW c \in Clients,
             \/ BeginDaemon(c) \/ Check(c) \/ Fork(c) \/ Await(c)
             \/ BeginStop(c) \/ ReadPidfile(c) \/ Term(c) \/ Poll(c) \/ Kill(c)
             \/ Stopped(c)
      PROVE  /\ UNCHANGED <<registry, op, cfg>>
             /\ \A d \in Clients : \/ pc'[d] = pc[d]
                                   \/ pc[d] \notin Changing /\ pc'[d] \notin Changing
  <2>1. UNCHANGED <<registry, op, cfg>>
    BY <1>1 DEF BeginDaemon, Check, Fork, Await, BeginStop, ReadPidfile, Term, Poll,
       Kill, Stopped
  <2>2. \E to \in {"idle", "check", "fork", "await", "read", "term", "poll", "kill",
                   "unlink"} :
           pc' = [pc EXCEPT ![c] = to] /\ pc[c] \notin Changing
    BY <1>1 DEF BeginDaemon, Check, Fork, Await, BeginStop, ReadPidfile, Term, Poll,
       Kill, Stopped, Goto, Command
  <2>3. QED
    BY <2>1, <2>2
<1>2. ASSUME NEW p \in Pids,
             \/ OpenPidfile(p) \/ WritePidfile(p) \/ Configure(p) \/ Unlink(p)
             \/ Exit(p) \/ Perish(p)
      PROVE  UNCHANGED <<registry, op, cfg, pc>>
  BY <1>2 DEF OpenPidfile, WritePidfile, Configure, Unlink, Exit, Perish
<1>3. CASE UNCHANGED vars
  BY <1>3 DEF vars
<1>4. QED
  BY <1>1, <1>2, <1>3 DEF Next, ClientStep, DaemonStep

\* Whatever daemons and commands do or die of: while no two changes of
\* scheduler.yaml overlap and none dies between emptying and writing it, every
\* change is kept.
THEOREM RegistryKeptHolds == Spec => []RegistryKept
<1> USE ControlAssumption
<1>1. Init => RegistryInv
  BY DEF Init, RegistryInv, Changing
<1>2. TypeOK /\ RegistryInv /\ [Next]_vars => RegistryInv'
  <2> SUFFICES ASSUME TypeOK, RegistryInv, [Next]_vars, ~spoilt'
               PROVE  RegistryInv'
    BY DEF RegistryInv
  <2> USE DEF RegistryInv, TypeOK, Changing
  <2>1. ASSUME NEW c \in Clients, Begin(c) PROVE RegistryInv'
    <3>1. ~spoilt /\ \A d \in Clients \ {c} : pc[d] \notin Changing
      BY <2>1 DEF Begin, Busy
    <3>2. QED
      BY <2>1, <3>1 DEF Begin, Command, Goto
  <2>2. ASSUME NEW c \in Clients, Load(c) PROVE RegistryInv'
    BY <2>2 DEF Load, Goto, registry, tally
  <2>3. ASSUME NEW c \in Clients, Truncate(c) PROVE RegistryInv'
    BY <2>3 DEF Truncate, Goto, tally
  <2>4. ASSUME NEW c \in Clients, Save(c) PROVE RegistryInv'
    <3>1. file' = meant'
      BY <2>4 DEF Save, Changed
    <3>2. QED
      BY <2>4, <3>1 DEF Save, Goto
  <2>5. ASSUME NEW c \in Clients, Interrupt(c) PROVE RegistryInv'
    <3>1. ~spoilt /\ pc[c] # "save"
      BY <2>5 DEF Interrupt
    <3>2. QED
      BY <2>5, <3>1 DEF Interrupt, Goto
  <2>6. CASE /\ UNCHANGED <<registry, op, cfg>>
             /\ \A c \in Clients : \/ pc'[c] = pc[c]
                                   \/ pc[c] \notin Changing /\ pc'[c] \notin Changing
    BY <2>6 DEF registry
  <2>7. QED
    BY <2>1, <2>2, <2>3, <2>4, <2>5, <2>6, Registry
<1>3. RegistryInv => RegistryKept
  BY DEF RegistryInv, RegistryKept, Changing
<1>4. QED
  BY <1>1, <1>2, <1>3, TypeCorrect, PTL DEF Spec

-----------------------------------------------------------------------------
(* The pidfile.                                                            *)

\* A process that has been killed stays dead.
LEMMA StopLemma == Spec => []StopInv
<1> USE ControlAssumption
<1>1. Init => StopInv
  BY DEF Init, StopInv
<1>2. TypeOK /\ StopInv /\ [Next]_vars => StopInv'
  <2> SUFFICES ASSUME TypeOK, StopInv, [Next]_vars
               PROVE  StopInv'
    OBVIOUS
  <2> USE DEF StopInv, TypeOK, registry, daemon, client, tally
  <2>1. ASSUME NEW c \in Clients,
               \/ Begin(c) \/ Load(c) \/ Truncate(c) \/ Save(c)
               \/ BeginDaemon(c) \/ Check(c) \/ BeginStop(c) \/ Poll(c)
        PROVE  StopInv'
    <3>1. UNCHANGED <<proc, other>>
      BY <2>1 DEF Begin, Load, Truncate, Save, BeginDaemon, Check, BeginStop, Poll
    <3>2. \E to \in {"idle", "load", "truncate", "save", "check", "fork", "read", "kill"} :
             pc' = [pc EXCEPT ![c] = to]
      BY <2>1 DEF Begin, Load, Truncate, Save, BeginDaemon, Check, BeginStop, Poll,
         Command, Goto
    <3>3. QED
      BY <3>1, <3>2
  <2>2. ASSUME NEW c \in Clients, Fork(c) PROVE StopInv'
    BY <2>2 DEF Fork, Goto
  <2>3. ASSUME NEW c \in Clients, Await(c) PROVE StopInv'
    BY <2>3 DEF Await, Goto
  <2>4. ASSUME NEW c \in Clients, ReadPidfile(c) PROVE StopInv'
    BY <2>4 DEF ReadPidfile, Goto
  <2>5. ASSUME NEW c \in Clients, Term(c) PROVE StopInv'
    <3>1. ASSUME NEW d \in Clients, pc'[d] = "unlink" PROVE proc'[other'[d]] = "ended"
      <4>1. d # c /\ pc[d] = "unlink" /\ other'[d] = other[d]
        BY <2>5, <3>1 DEF Term, Goto
      <4>2. proc[other[d]] = "ended" /\ other[d] \in Pids
        BY <4>1
      <4>3. proc' = proc \/ \E how \in Signalled(proc[other[c]]) :
               /\ other[c] \in Alive
               /\ proc' = [proc EXCEPT ![other[c]] = how]
        BY <2>5 DEF Term
      <4>4. QED
        BY <4>1, <4>2, <4>3 DEF Alive
    <3>2. QED
      BY <3>1
  <2>6. ASSUME NEW c \in Clients, Kill(c) PROVE StopInv'
    BY <2>6 DEF Kill, Goto
  <2>7. ASSUME NEW c \in Clients, Stopped(c) PROVE StopInv'
    BY <2>7 DEF Stopped, Goto
  <2>8. ASSUME NEW c \in Clients, Interrupt(c) PROVE StopInv'
    BY <2>8 DEF Interrupt, Goto
  <2>9. ASSUME NEW p \in Pids, DaemonStep(p) \/ Perish(p) PROVE StopInv'
    <3>1. UNCHANGED <<pc, other>>
      BY <2>9 DEF DaemonStep, OpenPidfile, WritePidfile, Configure, Unlink, Exit, Perish
    <3>2. /\ proc[p] # "ended"
          /\ \E s \in {"writing", "loading", "looping", "stopping", "leaving", "ended"} :
                proc' = [proc EXCEPT ![p] = s]
      BY <2>9 DEF DaemonStep, OpenPidfile, WritePidfile, Configure, Unlink, Exit, Perish,
         Alive
    <3>3. QED
      BY <3>1, <3>2
  <2>10. CASE UNCHANGED vars
    BY <2>10 DEF vars
  <2>11. QED
    BY <2>1, <2>2, <2>3, <2>4, <2>5, <2>6, <2>7, <2>8, <2>9, <2>10
    DEF Next, ClientStep
<1>3. QED
  BY <1>1, <1>2, TypeCorrect, PTL DEF Spec

\* Whatever daemons and commands die of: while no two of daemon and stop
\* overlap and every daemon has written its pid when its parent leaves, there
\* is one daemon and the pidfile names it.
THEOREM OneDaemonHolds == Spec => []OneDaemon
<1> USE ControlAssumption
<1>1. Init => PidfileInv
  BY DEF Init, PidfileInv, Starting, Stopping, Daemonic
<1>2. TypeOK /\ StopInv /\ PidfileInv /\ [Next]_vars => PidfileInv'
  <2> SUFFICES ASSUME TypeOK, StopInv, PidfileInv, [Next]_vars, ~raced'
               PROVE  PidfileInv'
    BY DEF PidfileInv
  <2> USE DEF PidfileInv, TypeOK, Starting, Stopping, Daemonic
  <2>1. ASSUME NEW c \in Clients, \/ Begin(c) \/ Load(c) \/ Truncate(c) \/ Save(c)
        PROVE  PidfileInv'
    <3>1. UNCHANGED <<daemon, other>>
      BY <2>1 DEF Begin, Load, Truncate, Save
    <3>2. \E to \in {"idle", "load", "truncate", "save"} :
             /\ pc' = [pc EXCEPT ![c] = to]
             /\ pc[c] \in {"idle", "load", "truncate", "save"}
      BY <2>1 DEF Begin, Load, Truncate, Save, Command, Goto
    <3>3. QED
      BY <3>1, <3>2 DEF daemon
  <2>2. ASSUME NEW c \in Clients, BeginDaemon(c) PROVE PidfileInv'
    <3>1. ~raced /\ \A d \in Clients \ {c} : pc[d] \notin Starting \cup Stopping
      BY <2>2 DEF BeginDaemon, Busy
    <3>2. QED
      BY <2>2, <3>1 DEF BeginDaemon, Command, Goto
  <2>3. ASSUME NEW c \in Clients, BeginStop(c) PROVE PidfileInv'
    <3>1. ~raced /\ \A d \in Clients \ {c} : pc[d] \notin Starting \cup Stopping
      BY <2>3 DEF BeginStop, Busy
    <3>2. QED
      BY <2>3, <3>1 DEF BeginStop, Command, Goto
  <2>4. ASSUME NEW c \in Clients, Check(c) PROVE PidfileInv'
    <3>1. UNCHANGED daemon /\ UNCHANGED other /\ pc[c] = "check"
      BY <2>4 DEF Check
    <3>2. CASE pidfile \in Alive /\ pc' = [pc EXCEPT ![c] = "idle"]
      BY <3>1, <3>2 DEF daemon
    <3>3. CASE pidfile \notin Alive /\ pc' = [pc EXCEPT ![c] = "fork"]
      <4>1. \A p \in Pids : proc[p] \notin Daemonic
        BY <3>1, <3>3 DEF Alive, daemon
      <4>2. QED
        BY <3>1, <3>3, <4>1 DEF daemon
    <3>4. QED
      BY <3>2, <3>3, <2>4 DEF Check, Goto
  <2>5. ASSUME NEW c \in Clients, Fork(c) PROVE PidfileInv'
    <3>1. PICK p \in Pids : /\ proc[p] = "unborn"
                            /\ proc' = [proc EXCEPT ![p] = "forked"]
                            /\ other' = [other EXCEPT ![c] = p]
      BY <2>5 DEF Fork
    <3>2. /\ pc[c] = "fork" /\ pc' = [pc EXCEPT ![c] = "await"]
          /\ UNCHANGED <<pidfile, raced>>
      BY <2>5 DEF Fork, Goto
    <3>3. \A q \in Pids : proc[q] \notin Daemonic
      BY <3>2
    <3>4. QED
      BY <3>1, <3>2, <3>3
  <2>6. ASSUME NEW c \in Clients, Await(c) PROVE PidfileInv'
    <3>1. /\ pc[c] = "await" /\ pc' = [pc EXCEPT ![c] = "idle"]
          /\ other' = [other EXCEPT ![c] = NoPid]
          /\ proc[other[c]] \notin {"forked", "writing"}
          /\ UNCHANGED <<pidfile, proc>> /\ ~raced
      BY <2>6 DEF Await, Goto
    <3>2. \A p \in Pids : proc[p] \notin {"forked", "writing"}
      BY <3>1
    <3>3. QED
      BY <3>1, <3>2
  <2>7. ASSUME NEW c \in Clients, ReadPidfile(c) PROVE PidfileInv'
    <3>1. pc[c] = "read" /\ UNCHANGED daemon
      BY <2>7 DEF ReadPidfile
    <3>2. CASE other' = [other EXCEPT ![c] = pidfile] /\ pc' = [pc EXCEPT ![c] = "term"]
      BY <3>1, <3>2 DEF daemon
    <3>3. CASE UNCHANGED other /\ pc' = [pc EXCEPT ![c] = "idle"]
      BY <3>1, <3>3 DEF daemon
    <3>4. QED
      BY <3>2, <3>3, <2>7 DEF ReadPidfile, Goto
  <2>8. ASSUME NEW c \in Clients, Term(c) PROVE PidfileInv'
    <3>1. pc[c] = "term" /\ UNCHANGED raced /\ other[c] \in Pids
      BY <2>8 DEF Term
    <3>2. ASSUME NEW how \in Signalled(proc[other[c]]), other[c] \in Alive,
                 proc' = [proc EXCEPT ![other[c]] = how],
                 pc' = [pc EXCEPT ![c] = "poll"], UNCHANGED <<pidfile, other>>
          PROVE  PidfileInv'
      <4>1. \/ how = "stopping" /\ proc[other[c]] \in {"looping", "stopping"}
            \/ how \in {"leaving", "ended"}
        BY <3>2 DEF Signalled
      <4>2. QED
        BY <3>1, <3>2, <4>1
    <3>3. ASSUME other[c] \notin Alive, pidfile' = NoPid,
                 other' = [other EXCEPT ![c] = NoPid],
                 pc' = [pc EXCEPT ![c] = "idle"], UNCHANGED proc
          PROVE  PidfileInv'
      <4>1. \A p \in Pids : proc[p] \notin {"loading", "looping", "stopping"}
        BY <3>1, <3>3 DEF Alive
      <4>2. QED
        BY <3>1, <3>3, <4>1
    <3>4. QED
      BY <3>2, <3>3, <2>8 DEF Term, Goto
  <2>9. ASSUME NEW c \in Clients, Poll(c) PROVE PidfileInv'
    BY <2>9 DEF Poll, Goto, daemon
  <2>10. ASSUME NEW c \in Clients, Kill(c) PROVE PidfileInv'
    BY <2>10 DEF Kill, Goto
  <2>11. ASSUME NEW c \in Clients, Stopped(c) PROVE PidfileInv'
    <3>1. /\ pc[c] = "unlink" /\ pidfile' = NoPid /\ pc' = [pc EXCEPT ![c] = "idle"]
          /\ other' = [other EXCEPT ![c] = NoPid] /\ UNCHANGED <<proc, raced>>
      BY <2>11 DEF Stopped, Goto
    <3>2. \A p \in Pids : proc[p] \notin {"loading", "looping", "stopping"}
      BY <2>11, <3>1 DEF StopInv
    <3>3. QED
      BY <3>1, <3>2
  <2>12. ASSUME NEW c \in Clients, Interrupt(c) PROVE PidfileInv'
    <3>1. /\ ~raced /\ UNCHANGED <<pidfile, proc>>
          /\ pc' = [pc EXCEPT ![c] = "idle"] /\ other' = [other EXCEPT ![c] = NoPid]
          /\ pc[c] = "await" => proc[other[c]] \notin {"forked", "writing"}
      BY <2>12 DEF Interrupt, Goto
    <3>2. ASSUME NEW p \in Pids, proc[p] \in {"forked", "writing"}
          PROVE  \E d \in Clients : pc'[d] = "await" /\ other'[d] = p
      <4>1. PICK d \in Clients : pc[d] = "await" /\ other[d] = p
        BY <3>1, <3>2
      <4>2. QED
        BY <3>1, <3>2, <4>1
    <3>3. QED
      BY <3>1, <3>2
  <2>13. ASSUME NEW p \in Pids, OpenPidfile(p) PROVE PidfileInv'
    <3>1. /\ proc[p] = "forked" /\ proc' = [proc EXCEPT ![p] = "writing"]
          /\ UNCHANGED <<raced, pc, other>>
      BY <2>13 DEF OpenPidfile, client
    <3>2. QED
      BY <3>1
  <2>14. ASSUME NEW p \in Pids, WritePidfile(p) PROVE PidfileInv'
    <3>1. /\ proc[p] = "writing" /\ proc' = [proc EXCEPT ![p] = "loading"]
          /\ pidfile' = p /\ UNCHANGED <<raced, pc, other>>
      BY <2>14 DEF WritePidfile, client
    <3>2. \A c \in Clients : pc[c] \notin {"fork", "term", "poll", "kill", "unlink"}
      BY <3>1
    <3>3. QED
      BY <3>1, <3>2
  <2>15. ASSUME NEW p \in Pids, Configure(p) PROVE PidfileInv'
    <3>1. /\ proc[p] = "loading" /\ UNCHANGED <<pidfile, raced, pc, other>>
          /\ \E next \in {"looping", "stopping"} : proc' = [proc EXCEPT ![p] = next]
      BY <2>15 DEF Configure, client
    <3>2. QED
      BY <3>1
  <2>16. ASSUME NEW p \in Pids, Unlink(p) PROVE PidfileInv'
    <3>1. /\ proc[p] = "stopping" /\ proc' = [proc EXCEPT ![p] = "leaving"]
          /\ UNCHANGED <<raced, pc, other>>
      BY <2>16 DEF Unlink, client
    <3>2. \A q \in Pids : proc'[q] \notin Daemonic
      BY <3>1
    <3>3. QED
      BY <3>1, <3>2
  <2>17. ASSUME NEW p \in Pids, Exit(p) PROVE PidfileInv'
    <3>1. /\ proc[p] = "leaving" /\ proc' = [proc EXCEPT ![p] = "ended"]
          /\ UNCHANGED <<pidfile, raced, pc, other>>
      BY <2>17 DEF Exit, client
    <3>2. QED
      BY <3>1
  <2>18. ASSUME NEW p \in Pids, Perish(p) PROVE PidfileInv'
    <3>1. /\ UNCHANGED <<pidfile, raced, pc, other>>
          /\ \/ proc' = [proc EXCEPT ![p] = "ended"]
             \/ proc[p] = "looping" /\ proc' = [proc EXCEPT ![p] = "stopping"]
      BY <2>18 DEF Perish, client
    <3>2. QED
      BY <3>1
  <2>19. CASE UNCHANGED vars
    BY <2>19 DEF vars, daemon, client
  <2>20. QED
    BY <2>1, <2>2, <2>3, <2>4, <2>5, <2>6, <2>7, <2>8, <2>9, <2>10, <2>11, <2>12,
       <2>13, <2>14, <2>15, <2>16, <2>17, <2>18, <2>19
    DEF Next, ClientStep, DaemonStep
<1>3. PidfileInv => OneDaemon
  <2> SUFFICES ASSUME PidfileInv, ~raced
               PROVE  OneDaemon
    BY DEF OneDaemon
  <2> QED
    BY DEF PidfileInv, OneDaemon
<1>4. QED
  BY <1>1, <1>2, <1>3, TypeCorrect, StopLemma, PTL DEF Spec

=============================================================================
