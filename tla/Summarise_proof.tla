---------------------------- MODULE Summarise_proof ----------------------------
(***************************************************************************)
(* Proofs about Summarise, for any number of symbols, threads, runs and    *)
(* faults, and any threshold and window of the breaker.                    *)
(***************************************************************************)
EXTENDS Summarise, FiniteSetTheorems, TLAPS

\* The window has room for as many errors as trip the breaker.
LEMMA WindowType == Window \in Nat \ {0} /\ AbortAfter <= Window
BY SummariseAssumption DEF Window

\* What the breaker has seen stays within its window.
LEMMA PushedType ==
    ASSUME NEW q \in Seq(BOOLEAN), Len(q) <= Window, NEW b \in BOOLEAN
    PROVE  /\ Pushed(q, b) \in Seq(BOOLEAN)
           /\ Len(Pushed(q, b)) = IF Len(q) = Window THEN Window ELSE Len(q) + 1
           /\ Len(Pushed(q, b)) <= Window
           /\ Pushed(q, b)[Len(Pushed(q, b))] = b
           /\ \A i \in 1..Len(Pushed(q, b)) - 1 :
                 Pushed(q, b)[i] = q[IF Len(q) = Window THEN i + 1 ELSE i]
<1> USE WindowType
<1>1. CASE Len(q) = Window
  <2>1. q # <<>>
    BY <1>1
  <2>2. /\ Tail(q) \in Seq(BOOLEAN) /\ Len(Tail(q)) = Window - 1
        /\ \A i \in 1..Window - 1 : Tail(q)[i] = q[i + 1]
    BY <1>1, <2>1
  <2>3. Pushed(q, b) = Append(Tail(q), b)
    BY <1>1 DEF Pushed
  <2>4. QED
    BY <1>1, <2>2, <2>3
<1>2. CASE Len(q) # Window
  <2>1. Pushed(q, b) = Append(q, b)
    BY <1>2 DEF Pushed
  <2>2. QED
    BY <1>2, <2>1
<1>3. QED
  BY <1>1, <1>2

\* The state at the end of a run, however it ends.
LEMMA EndsType ==
    ASSUME TypeOK, NEW how \in {"done", "aborted", "killed"}, Ends(how)
    PROVE  /\ world' = world /\ pc' = "idle" /\ last' = how
           /\ redo' \in BOOLEAN /\ blank' = {}
           /\ future' = [s \in Symbols |-> "none"]
           /\ arrived' = <<>> /\ cur' = <<>> /\ recent' = <<>>
           /\ counts' = NoCounts /\ lost' = {} /\ burnt' = {}
BY DEF Ends, Goto

\* The first of a queue, and the rest of it.
LEMMA QueueType ==
    ASSUME NEW R, NEW q \in Seq(R), q # <<>>
    PROVE  /\ Head(q) \in R /\ Tail(q) \in Seq(R) /\ Head(q) = q[1]
           /\ Len(Tail(q)) = Len(q) - 1 /\ Len(q) \in Nat \ {0}
           /\ \A i \in 1..Len(q) - 1 : Tail(q)[i] = q[i + 1]
OBVIOUS

\* The entries of a list over R are in R.
LEMMA MemberType ==
    ASSUME NEW R, NEW q \in Seq(R)
    PROVE  \A i \in DOMAIN q : q[i] \in R
OBVIOUS

\* A function on 1..n is a list.
LEMMA ListType ==
    ASSUME NEW R, NEW n \in Nat, NEW f \in [1..n -> R]
    PROVE  f \in Seq(R)
OBVIOUS

\* What Listen does to the queue: the same results in another order.
LEMMA ListenStep ==
    ASSUME TypeOK, Listen
    PROVE  /\ pc = "submit" /\ pc' = "loop"
           /\ arrived' \in Seq([sym : Symbols, result : Results])
           /\ DOMAIN arrived' = DOMAIN arrived
           /\ \E order \in [DOMAIN arrived -> DOMAIN arrived] :
                 /\ \A i, j \in DOMAIN arrived : order[i] = order[j] => i = j
                 /\ \A j \in DOMAIN arrived : \E i \in DOMAIN arrived : order[i] = j
                 /\ \A i \in DOMAIN arrived : arrived'[i] = arrived[order[i]]
           /\ UNCHANGED <<world, redo, blank, future, cur, recent, counts, lost, burnt,
                          last, tally>>
<1>1. PICK order \in Bijection(DOMAIN arrived, DOMAIN arrived) :
         arrived' = [i \in DOMAIN arrived |-> arrived[order[i]]]
  BY DEF Listen
<1>2. /\ order \in [DOMAIN arrived -> DOMAIN arrived]
      /\ \A i, j \in DOMAIN arrived : order[i] = order[j] => i = j
      /\ \A j \in DOMAIN arrived : \E i \in DOMAIN arrived : order[i] = j
  BY <1>1 DEF Bijection, Injection, Surjection, IsInjective
<1>3. arrived \in Seq([sym : Symbols, result : Results])
  BY DEF TypeOK
<1>4. DOMAIN arrived = 1..Len(arrived) /\ Len(arrived) \in Nat
  BY <1>3
<1>5. \A i \in DOMAIN arrived : arrived[i] \in [sym : Symbols, result : Results]
  BY <1>3, MemberType
<1>6. \A i \in DOMAIN arrived :
         arrived[order[i]] \in [sym : Symbols, result : Results]
  BY <1>2, <1>5
<1>7. arrived' \in [1..Len(arrived) -> [sym : Symbols, result : Results]]
  <2>1. arrived' = [i \in 1..Len(arrived) |-> arrived[order[i]]]
    BY <1>1, <1>4
  <2>2. \A i \in 1..Len(arrived) :
           arrived[order[i]] \in [sym : Symbols, result : Results]
    BY <1>4, <1>6
  <2> DEFINE R == [sym : Symbols, result : Results]
             n == Len(arrived)
             at(i) == arrived[order[i]]
  <2>3. arrived' = [i \in 1..n |-> at(i)] /\ \A i \in 1..n : at(i) \in R
    BY <2>1, <2>2
  <2> HIDE DEF R, n, at
  <2>4. arrived' \in [1..n -> R]
    BY <2>3
  <2>5. QED
    BY <2>4 DEF R, n
<1>8. arrived' \in Seq([sym : Symbols, result : Results])
  BY <1>4, <1>7, ListType
<1>9. DOMAIN arrived' = DOMAIN arrived
      /\ \A i \in DOMAIN arrived : arrived'[i] = arrived[order[i]]
  BY <1>1
<1>10. QED
  BY <1>2, <1>8, <1>9 DEF Listen, Goto

\* A fault counts one.
LEMMA FaultType ==
    ASSUME TypeOK, Fault
    PROVE  faults' \in Nat
BY DEF TypeOK, Fault

\* Every variable of a run and of the index keeps its type.
THEOREM TypeCorrect == Spec => []TypeOK
<1> USE SummariseAssumption
<1>1. Init => TypeOK
  <2> SUFFICES ASSUME Init PROVE TypeOK
    OBVIOUS
  <2>1. NoCounts \in [Counts -> SUBSET Symbols]
    BY DEF NoCounts
  <2>2. recent \in Seq(BOOLEAN) /\ Len(recent) <= Window
    BY WindowType DEF Init
  <2>3. arrived \in Seq([sym : Symbols, result : Results])
    BY DEF Init
  <2>4. {up, redo} \subseteq BOOLEAN
    BY DEF Init
  <2>5. cur \in IF pc = "write" THEN [sym : Symbols, result : Results] ELSE {<<>>}
    BY DEF Init
  <2>6. /\ nodes \subseteq Nodes
        /\ summary \in [Nodes -> (Symbols \X Nat) \cup {NoSummary}]
        /\ future \in [Symbols -> Futures]
        /\ counts \in [Counts -> SUBSET Symbols]
        /\ {blank, lost, burnt} \subseteq SUBSET Symbols
        /\ pc = "idle" /\ last = "none" /\ {runs, faults} \subseteq Nat
    BY <2>1 DEF Init, Futures
  <2>7. QED
    BY <2>2, <2>3, <2>4, <2>5, <2>6 DEF TypeOK
<1>2. TypeOK /\ [Next]_vars => TypeOK'
  <2> SUFFICES ASSUME TypeOK, [Next]_vars
               PROVE  TypeOK'
    OBVIOUS
  <2> USE DEF TypeOK, world, tally, local, Futures
  <2>1. CASE Begin
    BY <2>1 DEF Begin, Goto
  <2>2. CASE Resume
    BY <2>2 DEF Resume, Goto
  <2>3. CASE Read
    <3>1. PICK limit \in Limits, unread \in SUBSET Are("pending") :
             LET found == Are("pending") \ unread
             IN /\ future' = [s \in Symbols |->
                                IF s \in found /\ Cardinality(Bigger[s] \cap found) < limit
                                THEN "pending" ELSE "none"]
                /\ blank' \in SUBSET found
                /\ IF unread \cup blank' = {} THEN UNCHANGED faults ELSE Fault
      BY <2>3 DEF Read
    <3>2. future' \in [Symbols -> Futures] /\ blank' \subseteq Symbols
      BY <3>1 DEF Are
    <3>3. faults' \in Nat
      BY <3>1, FaultType
    <3>4. QED
      BY <2>3, <3>2, <3>3 DEF Read, Goto
  <2>3a. CASE Listen
    <3>1. arrived' \in Seq([sym : Symbols, result : Results])
      BY <2>3a, ListenStep
    <3>2. QED
      BY <2>3a, <3>1 DEF Listen, Goto
  <2>4. CASE Take
    <3>1. /\ cur' \in [sym : Symbols, result : Results]
          /\ arrived' \in Seq([sym : Symbols, result : Results])
      BY <2>4, QueueType DEF Take
    <3>2. (cur'.result = "error") \in BOOLEAN
      OBVIOUS
    <3>3. recent' \in Seq(BOOLEAN) /\ Len(recent') <= Window
      BY <2>4, <3>2, PushedType DEF Take
    <3>4. future' \in [Symbols -> Futures]
      BY <2>4, <3>1 DEF Take
    <3>5. QED
      BY <2>4, <3>1, <3>3, <3>4 DEF Take, Goto
  <2>5. CASE Write
    <3>1. cur \in [sym : Symbols, result : Results] /\ cur.sym \in Symbols
      BY <2>5 DEF Write
    <3>2. summary' \in [Nodes -> (Symbols \X Nat) \cup {NoSummary}]
      <4>1. <<cur.sym, runs>> \in Symbols \X Nat
        BY <3>1
      <4>2. Said \in [Nodes -> (Symbols \X Nat) \cup {NoSummary}]
        BY <4>1 DEF Said
      <4>3. QED
        BY <2>5, <4>2 DEF Write
    <3>3. counts' \in [Counts -> SUBSET Symbols]
      <4>1. \/ UNCHANGED counts
            \/ \E k \in Counts : counts' = [counts EXCEPT ![k] = @ \cup {cur.sym}]
        BY <2>5, <3>1 DEF Write, Count, Counts, Results
      <4>2. QED
        <5>1. ASSUME NEW k \in Counts, counts' = [counts EXCEPT ![k] = @ \cup {cur.sym}]
              PROVE  counts' \in [Counts -> SUBSET Symbols]
          <6>1. counts[k] \cup {cur.sym} \in SUBSET Symbols
            BY <3>1
          <6>2. QED
            BY <5>1, <6>1
        <5>2. QED
          BY <4>1, <5>1
    <3>4. lost' \subseteq Symbols /\ faults' \in Nat
      BY <2>5, <3>1, FaultType DEF Write
    <3>5. cur' = <<>> /\ pc' \in {"cancel", "loop"}
      BY <2>5 DEF Write, Goto
    <3>6. UNCHANGED <<nodes, up, redo, blank, future, arrived, recent, burnt, last,
                      runs>>
      BY <2>5 DEF Write
    <3>7. QED
      BY <3>2, <3>3, <3>4, <3>5, <3>6
  <2>6. ASSUME NEW s \in Symbols, Cancel(s) PROVE TypeOK'
    BY <2>6 DEF Cancel
  <2>7. CASE Cancelled
    BY <2>7 DEF Cancelled, Goto
  <2>8. ASSUME NEW how \in {"done", "aborted", "killed"}, Ends(how), runs' = runs,
               faults' \in Nat
        PROVE  TypeOK'
    <3>1. NoCounts \in [Counts -> SUBSET Symbols]
      BY DEF NoCounts
    <3>2. recent' = <<>> /\ world' = world /\ pc' = "idle"
      BY <2>8, EndsType
    <3>3. recent' \in Seq(BOOLEAN) /\ Len(recent') <= Window
      BY <3>2, WindowType
    <3>4. /\ blank' = {} /\ future' \in [Symbols -> Futures]
          /\ redo' \in BOOLEAN /\ arrived' = <<>> /\ cur' = <<>>
          /\ counts' \in [Counts -> SUBSET Symbols] /\ lost' = {} /\ burnt' = {}
          /\ last' \in {"done", "aborted", "killed"}
      BY <2>8, <3>1, EndsType
    <3>5. arrived' \in Seq([sym : Symbols, result : Results])
      BY <3>4
    <3>6. {up', redo'} \subseteq BOOLEAN
      BY <3>2, <3>4
    <3>7. QED
      BY <2>8, <3>2, <3>3, <3>4, <3>5, <3>6
  <2>9. CASE Abort
    BY <2>8, <2>9 DEF Abort
  <2>10. CASE Done
    BY <2>8, <2>10 DEF Done
  <2>11. CASE Kill
    BY <2>8, <2>11, FaultType DEF Kill
  <2>12. ASSUME NEW s \in Symbols, Start(s) PROVE TypeOK'
    BY <2>12 DEF Start, CanStart
  <2>13. ASSUME NEW s \in Symbols, Finish(s) PROVE TypeOK'
    <3>1. PICK r \in Results : arrived' = Append(arrived, [sym |-> s, result |-> r])
      BY <2>13 DEF Finish
    <3>2. [sym |-> s, result |-> r] \in [sym : Symbols, result : Results]
      OBVIOUS
    <3>3. arrived' \in Seq([sym : Symbols, result : Results])
      BY <3>1, <3>2
    <3>4. burnt' \subseteq Symbols
      BY <2>13 DEF Finish
    <3>5. QED
      BY <2>13, <3>3, <3>4 DEF Finish
  <2>14. CASE GoDown
    BY <2>14, FaultType DEF GoDown
  <2>15. CASE ComeUp
    BY <2>15 DEF ComeUp
  <2>17. ASSUME NEW n \in Nodes, Prune(n) PROVE TypeOK'
    BY <2>17, FaultType DEF Prune
  <2>18. ASSUME NEW n \in Nodes, Recreate(n) PROVE TypeOK'
    BY <2>18 DEF Recreate
  <2>19. CASE UNCHANGED vars
    BY <2>19 DEF vars
  <2>20. QED
    BY <2>1, <2>2, <2>3, <2>3a, <2>4, <2>5, <2>6, <2>7, <2>9, <2>10, <2>11, <2>12,
       <2>13, <2>14, <2>15, <2>17, <2>18, <2>19
    DEF Next, MainStep, PoolStep
<1>3. QED
  BY <1>1, <1>2, PTL DEF Spec

-----------------------------------------------------------------------------
(* The steps.                                                              *)

\* A run has ended, one way or another.
Over ==
    /\ UNCHANGED world /\ pc' = "idle" /\ redo' = FALSE
    /\ future' = [s \in Symbols |-> "none"]
    /\ arrived' = <<>> /\ recent' = <<>> /\ counts' = NoCounts
    /\ lost' = {} /\ burnt' = {}

\* The run is not concerned, but for summaries that went with their symbols.
Outside ==
    /\ UNCHANGED <<up, pc, local, runs>>
    /\ \A n \in Nodes : summary'[n] \in {summary[n], NoSummary}

\* A step is one of the run (main thread or pool), its end, or one beside it.
LEMMA Steps ==
    ASSUME TypeOK, [Next]_vars
    PROVE  \/ Begin \/ Resume \/ Read \/ Listen \/ Take \/ Write \/ Cancelled
           \/ GoDown \/ ComeUp
           \/ (\E s \in Symbols : Cancel(s) \/ Start(s) \/ Finish(s))
           \/ Over \/ Outside
<1>1. ASSUME Abort \/ Done \/ Kill PROVE Over
  BY <1>1 DEF Abort, Done, Kill, Ends, Goto, Over
<1>2. ASSUME NEW n \in Nodes, Recreate(n) PROVE Outside
  BY <1>2 DEF Recreate, Outside, tally
<1>3. ASSUME NEW n \in Nodes, Prune(n) PROVE Outside
  BY <1>3 DEF Prune, Outside, TypeOK
<1>4. CASE UNCHANGED vars
  BY <1>4 DEF vars, world, tally, Outside
<1>5. QED
  BY <1>1, <1>2, <1>3, <1>4 DEF Next, MainStep, PoolStep

\* What the types say of a single result.
LEMMA Typed ==
    ASSUME TypeOK
    PROVE  /\ future \in [Symbols -> Futures] /\ burnt \subseteq Symbols
           /\ \A i \in DOMAIN arrived : arrived[i] \in [sym : Symbols, result : Results]
           /\ \A i \in DOMAIN arrived : arrived[i].sym \in Symbols
           /\ pc = "write" => cur \in [sym : Symbols, result : Results]
           /\ pc = "write" => cur.sym \in Symbols
<1>1. arrived \in Seq([sym : Symbols, result : Results])
  BY DEF TypeOK
<1>2. \A i \in DOMAIN arrived : arrived[i] \in [sym : Symbols, result : Results]
  BY <1>1, MemberType
<1>3. pc = "write" => cur \in [sym : Symbols, result : Results]
  BY DEF TypeOK
<1>4. future \in [Symbols -> Futures] /\ burnt \subseteq Symbols
  BY DEF TypeOK
<1>5. QED
  BY <1>2, <1>3, <1>4

\* What Take does to the queue.
LEMMA TakeStep ==
    ASSUME TypeOK, Take
    PROVE  /\ pc = "loop" /\ pc' = "write" /\ cur' = arrived[1]
           /\ cur' \in [sym : Symbols, result : Results] /\ cur'.sym \in Symbols
           /\ 1 \in DOMAIN arrived
           /\ arrived' \in Seq([sym : Symbols, result : Results])
           /\ \A i \in DOMAIN arrived' : i + 1 \in DOMAIN arrived /\ arrived'[i] = arrived[i + 1]
           /\ future' = [future EXCEPT ![cur'.sym] = "taken"]
           /\ recent' = Pushed(recent, cur'.result = "error")
           /\ UNCHANGED <<world, redo, blank, counts, lost, burnt, last, tally>>
<1>1. arrived \in Seq([sym : Symbols, result : Results]) /\ arrived # <<>>
  BY DEF Take, TypeOK
<1>2. cur' = Head(arrived) /\ arrived' = Tail(arrived) /\ pc' = "write" /\ pc = "loop"
  BY DEF Take, Goto
<1>3. /\ cur' \in [sym : Symbols, result : Results] /\ cur' = arrived[1]
      /\ arrived' \in Seq([sym : Symbols, result : Results])
      /\ Len(arrived') = Len(arrived) - 1 /\ Len(arrived) \in Nat \ {0}
      /\ \A i \in 1..Len(arrived) - 1 : arrived'[i] = arrived[i + 1]
  BY <1>1, <1>2, QueueType
<1>4. DOMAIN arrived = 1..Len(arrived) /\ DOMAIN arrived' = 1..Len(arrived')
  BY <1>1, <1>3
<1>5. QED
  BY <1>2, <1>3, <1>4 DEF Take

\* What Finish does to the queue.
LEMMA FinishStep ==
    ASSUME TypeOK, NEW s \in Symbols, Finish(s)
    PROVE  \E r \in Results :
              /\ ~up => r \in {"error", "short"}
              /\ burnt' = IF ~up /\ r = "error" /\ pc # "submit"
                         THEN burnt \cup {s} ELSE burnt
              /\ DOMAIN arrived' = DOMAIN arrived \cup {Len(arrived) + 1}
              /\ Len(arrived) \in Nat /\ DOMAIN arrived = 1..Len(arrived)
              /\ \A i \in DOMAIN arrived : arrived'[i] = arrived[i]
              /\ arrived'[Len(arrived) + 1] = [sym |-> s, result |-> r]
<1>1. PICK r \in Results :
         /\ ~up => r \in {"error", "short"}
         /\ arrived' = Append(arrived, [sym |-> s, result |-> r])
         /\ burnt' = IF ~up /\ r = "error" /\ pc # "submit"
                    THEN burnt \cup {s} ELSE burnt
  BY DEF Finish
<1>2. arrived \in Seq([sym : Symbols, result : Results])
  BY DEF TypeOK
<1>3. /\ DOMAIN arrived = 1..Len(arrived) /\ Len(arrived) \in Nat
      /\ DOMAIN arrived' = 1..Len(arrived) + 1
      /\ \A i \in 1..Len(arrived) : arrived'[i] = arrived[i]
      /\ arrived'[Len(arrived) + 1] = [sym |-> s, result |-> r]
  BY <1>1, <1>2
<1>4. QED
  BY <1>1, <1>3

-----------------------------------------------------------------------------
(* The pool.                                                               *)

\* The futures of the pool, its queue and the results that have arrived agree.
LEMMA Pool == Spec => []PoolInv
<1>1. Init => PoolInv
  BY DEF Init, PoolInv, Are
<1>2. TypeOK /\ PoolInv /\ [Next]_vars => PoolInv'
  <2> SUFFICES ASSUME TypeOK, PoolInv, [Next]_vars
               PROVE  PoolInv'
    OBVIOUS
  <2> USE DEF PoolInv, Are, Goto
  <2>0. /\ future \in [Symbols -> Futures] /\ burnt \subseteq Symbols
        /\ \A i \in DOMAIN arrived : arrived[i].sym \in Symbols
        /\ pc = "write" => cur.sym \in Symbols
    BY Typed
  <2>1. CASE Begin
    BY <2>1 DEF Begin
  <2>2. CASE Resume
    BY <2>2 DEF Resume
  <2>3. CASE Read
    BY <2>3 DEF Read
  <2>3a. CASE Listen
    <3>1. /\ pc' = "loop" /\ DOMAIN arrived' = DOMAIN arrived
          /\ UNCHANGED <<future, cur, recent, counts, lost, burnt>>
      BY <2>3a, ListenStep
    <3>2. PICK order \in [DOMAIN arrived -> DOMAIN arrived] :
             /\ \A i, j \in DOMAIN arrived : order[i] = order[j] => i = j
             /\ \A i \in DOMAIN arrived : arrived'[i] = arrived[order[i]]
      BY <2>3a, ListenStep
    <3>3. \A i \in DOMAIN arrived' : future'[arrived'[i].sym] = "done"
      BY <3>1, <3>2
    <3>4. \A i, j \in DOMAIN arrived' : arrived'[i].sym = arrived'[j].sym => i = j
      BY <3>1, <3>2
    <3>5. QED
      BY <3>1, <3>3, <3>4
  <2>4. CASE Take
    BY <2>0, <2>4, TakeStep
  <2>5. CASE Write
    BY <2>0, <2>5 DEF Write
  <2>6. CASE Cancelled
    BY <2>6 DEF Cancelled, local
  <2>7. CASE GoDown
    BY <2>7 DEF GoDown
  <2>8. CASE ComeUp
    BY <2>8 DEF ComeUp
  <2>9. ASSUME NEW s \in Symbols, Cancel(s) PROVE PoolInv'
    BY <2>0, <2>9 DEF Cancel
  <2>10. ASSUME NEW s \in Symbols, Start(s) PROVE PoolInv'
    BY <2>0, <2>10 DEF Start, CanStart
  <2>11. ASSUME NEW s \in Symbols, Finish(s) PROVE PoolInv'
    <3>1. /\ future[s] = "running" /\ future' = [future EXCEPT ![s] = "done"]
          /\ UNCHANGED <<pc, cur, recent, counts, lost>>
      BY <2>11 DEF Finish
    <3>2. pc \notin {"idle", "resume", "read"}
      BY <3>1
    <3>3. \A i \in DOMAIN arrived : arrived[i].sym # s
      BY <3>1
    <3>4. PICK r \in Results :
              /\ burnt' = IF ~up /\ r = "error" /\ pc # "submit"
                         THEN burnt \cup {s} ELSE burnt
              /\ DOMAIN arrived' = DOMAIN arrived \cup {Len(arrived) + 1}
              /\ \A i \in DOMAIN arrived : arrived'[i] = arrived[i]
              /\ arrived'[Len(arrived) + 1] = [sym |-> s, result |-> r]
      BY <2>11, FinishStep
    <3>5. QED
      BY <2>0, <3>1, <3>2, <3>3, <3>4
  <2>12. CASE Over
    BY <2>12 DEF Over
  <2>13. CASE Outside
    BY <2>13 DEF Outside, local
  <2>14. QED
    BY <2>1, <2>2, <2>3, <2>3a, <2>4, <2>5, <2>6, <2>7, <2>8, <2>9, <2>10, <2>11,
       <2>12, <2>13, Steps
<1>3. QED
  BY <1>1, <1>2, TypeCorrect, PTL DEF Spec

\* However the calls and their results interleave with the giving up: when the
\* pending calls have been cancelled no thread begins another.
THEOREM NoCallAfterAbortHolds == Spec => NoCallAfterAbort
<1>1. TypeOK /\ PoolInv /\ [Next]_vars =>
        [pc = "drain" => Are("running")' \subseteq Are("running")]_vars
  <2> SUFFICES ASSUME TypeOK, PoolInv, [Next]_vars, pc = "drain"
               PROVE  Are("running")' \subseteq Are("running")
    OBVIOUS
  <2>1. ASSUME NEW s \in Symbols, Finish(s)
        PROVE  Are("running")' \subseteq Are("running")
    BY <2>1 DEF Finish, Are, TypeOK
  <2>2. ASSUME NEW s \in Symbols PROVE ~Start(s)
    BY DEF Start, CanStart, PoolInv, Are
  <2>3. CASE Over
    BY <2>3 DEF Over, Are
  <2>4. CASE GoDown \/ ComeUp \/ Outside
    BY <2>4 DEF GoDown, ComeUp, Outside, local, Are
  <2>5. QED
    BY <2>1, <2>2, <2>3, <2>4, Steps
    DEF Begin, Resume, Read, Listen, Take, Write, Cancelled, Cancel
<1>2. QED
  BY <1>1, TypeCorrect, Pool, PTL DEF Spec, NoCallAfterAbort

-----------------------------------------------------------------------------
(* The breaker.                                                            *)

\* Results come in order: after one of a dead server there is none of a live one.
LEMMA Order == Spec => []OrderInv
<1>1. Init => OrderInv
  BY DEF Init, OrderInv
<1>2. TypeOK /\ PoolInv /\ OrderInv /\ [Next]_vars => OrderInv'
  <2> SUFFICES ASSUME TypeOK, PoolInv, OrderInv, [Next]_vars
               PROVE  OrderInv'
    OBVIOUS
  <2> USE DEF OrderInv, Dead, Are, Goto
  <2>0. /\ future \in [Symbols -> Futures] /\ burnt \subseteq Symbols
        /\ \A i \in DOMAIN arrived : arrived[i].sym \in Symbols
    BY Typed
  <2>1. CASE Begin \/ Resume
    <3>1. arrived = <<>> /\ burnt = {}
      BY <2>1 DEF PoolInv, Begin, Resume
    <3>2. arrived' = <<>> /\ burnt' = {}
      BY <2>1, <3>1 DEF Begin, Resume
    <3>3. QED
      BY <3>2
  <2>2. CASE Read
    <3>1. arrived = <<>> /\ burnt = {}
      BY <2>2 DEF PoolInv, Read
    <3>2. arrived' = <<>> /\ burnt' = {}
      BY <2>2, <3>1 DEF Read
    <3>3. QED
      BY <3>2
  <2>2a. CASE Listen
    <3>1. burnt = {} /\ burnt' = {}
      BY <2>2a DEF PoolInv, Listen
    <3>2. QED
      BY <3>1
  <2>3. CASE Take
    <3>1. /\ UNCHANGED <<burnt, up>> /\ cur' = arrived[1] /\ 1 \in DOMAIN arrived
          /\ \A i \in DOMAIN arrived' :
                i + 1 \in DOMAIN arrived /\ arrived'[i] = arrived[i + 1]
          /\ future' = [future EXCEPT ![cur'.sym] = "taken"]
      BY <2>3, TakeStep DEF world
    <3>2. \A i \in DOMAIN arrived' : i \in Int /\ i + 1 > 1
      <4>1. arrived' \in Seq([sym : Symbols, result : Results])
        BY <2>3, TakeStep
      <4>2. QED
        BY <4>1
    <3>3. ASSUME (burnt \cap Are("taken"))' # {}
          PROVE  \A i \in DOMAIN arrived' : Dead(i + 1)
      <4>1. burnt \cap Are("taken") # {} \/ arrived[1].sym \in burnt
        BY <2>0, <3>1, <3>3
      <4>2. QED
        BY <3>1, <3>2, <4>1
    <3>4. \A i \in DOMAIN arrived' : arrived'[i].sym \in burnt' => arrived'[i].result = "error"
      BY <3>1
    <3>5. \A i, j \in DOMAIN arrived' :
             i < j /\ arrived'[i].sym \in burnt => i + 1 < j + 1 /\ Dead(j + 1)
      BY <3>1, <3>2
    <3>6. QED
      BY <3>1, <3>3, <3>4, <3>5
  <2>4. CASE Write \/ Cancelled
    BY <2>4 DEF Write, Cancelled, local, world
  <2>5. CASE GoDown \/ ComeUp
    BY <2>5 DEF GoDown, ComeUp
  <2>6. ASSUME NEW s \in Symbols, Cancel(s) \/ Start(s) PROVE OrderInv'
    <3>1. UNCHANGED <<up, arrived, burnt>>
      BY <2>6 DEF Cancel, Start, CanStart, world
    <3>2. Are("taken")' = Are("taken")
      BY <2>0, <2>6 DEF Cancel, Start, CanStart
    <3>3. QED
      BY <3>1, <3>2
  <2>7. ASSUME NEW s \in Symbols, Finish(s) PROVE OrderInv'
    <3>1. PICK r \in Results :
              /\ ~up => r \in {"error", "short"}
              /\ burnt' = IF ~up /\ r = "error" /\ pc # "submit"
                         THEN burnt \cup {s} ELSE burnt
              /\ DOMAIN arrived' = DOMAIN arrived \cup {Len(arrived) + 1}
              /\ Len(arrived) \in Nat /\ DOMAIN arrived = 1..Len(arrived)
              /\ \A i \in DOMAIN arrived : arrived'[i] = arrived[i]
              /\ arrived'[Len(arrived) + 1] = [sym |-> s, result |-> r]
      BY <2>7, FinishStep
    <3>2. /\ future[s] = "running" /\ future' = [future EXCEPT ![s] = "done"]
          /\ UNCHANGED up
      BY <2>7 DEF Finish, world
    <3>3. s \notin burnt /\ \A i \in DOMAIN arrived : arrived[i].sym # s
      BY <3>2 DEF PoolInv
    <3>4. (burnt \cap Are("taken"))' = burnt \cap Are("taken")
      BY <2>0, <3>1, <3>2
    <3>5. CASE up
      BY <3>1, <3>2, <3>4, <3>5
    <3>5a. CASE pc = "submit"
      <4>1. burnt = {} /\ burnt' = {}
        BY <3>1, <3>5a DEF PoolInv
      <4>2. QED
        BY <4>1
    <3>6. CASE ~up /\ pc # "submit"
      <4> DEFINE DeadNow(i) == arrived'[i].result = "short" \/ arrived'[i].sym \in burnt'
      <4>1. DeadNow(Len(arrived) + 1) /\ \A i \in DOMAIN arrived : Dead(i) => DeadNow(i)
        BY <3>1, <3>6
      <4>2. \A i \in DOMAIN arrived' : arrived'[i].sym \in burnt' =>
               /\ arrived'[i].result = "error"
               /\ i \in DOMAIN arrived => arrived[i].sym \in burnt
        BY <3>1, <3>3
      <4>3. \A i \in DOMAIN arrived' : i \in DOMAIN arrived \/ i = Len(arrived) + 1
        BY <3>1
      <4>4. \A i, j \in DOMAIN arrived' : i < j => i \in DOMAIN arrived
        BY <3>1
      <4>5. \A i, j \in DOMAIN arrived' : i < j /\ arrived'[i].sym \in burnt' => DeadNow(j)
        BY <4>1, <4>2, <4>3, <4>4
      <4>6. (burnt \cap Are("taken"))' # {} => \A i \in DOMAIN arrived' : DeadNow(i)
        BY <3>4, <4>1, <4>3
      <4>7. QED
        BY <3>2, <3>6, <4>2, <4>5, <4>6
    <3>7. QED
      BY <3>5, <3>5a, <3>6
  <2>8. CASE Over
    BY <2>8 DEF Over
  <2>9. CASE Outside
    BY <2>9 DEF Outside, local
  <2>10. QED
    BY <2>1, <2>2, <2>2a, <2>3, <2>4, <2>5, <2>6, <2>7, <2>8, <2>9, Steps
<1>3. QED
  BY <1>1, <1>2, TypeCorrect, Pool, PTL DEF Spec

\* A window full of errors trips the breaker.
LEMMA FullOfErrors ==
    ASSUME TypeOK, Len(recent) = Window, \A i \in 1..Len(recent) : recent[i] = TRUE
    PROVE  Tripped
<1>1. DOMAIN recent = 1..Window /\ Window \in Nat
  BY WindowType DEF TypeOK
<1>2. {i \in DOMAIN recent : recent[i]} = 1..Window
  BY <1>1
<1>3. Cardinality(1..Window) = Window
  BY <1>1, FS_Interval
<1>4. QED
  BY <1>2, <1>3, WindowType, SummariseAssumption DEF Tripped, Errors

\* All that the breaker has seen, if as many were burnt as it can see.
LEMMA AllBurnt ==
    ASSUME TypeOK, Cardinality(Burnt) = Window, Cardinality(Burnt) <= Len(recent),
           \A i \in 1..Len(recent) : i > Len(recent) - Cardinality(Burnt) => recent[i] = TRUE
    PROVE  Tripped
<1>1. /\ Len(recent) \in Nat /\ Len(recent) <= Window
      /\ Window \in Nat
  BY WindowType DEF TypeOK
<1>2. Len(recent) = Window
  BY <1>1
<1>3. \A i \in 1..Len(recent) : i > Len(recent) - Cardinality(Burnt)
  BY <1>1, <1>2
<1>4. \A i \in 1..Len(recent) : recent[i] = TRUE
  BY <1>3
<1>5. QED
  BY <1>2, <1>4, FullOfErrors

\* The symbols burnt are finitely many.
LEMMA BurntFinite ==
    ASSUME TypeOK
    PROVE  IsFiniteSet(Burnt) /\ Cardinality(Burnt) \in Nat
<1>1. Burnt \subseteq Symbols
  BY DEF TypeOK, Burnt
<1>2. QED
  BY <1>1, SummariseAssumption, FS_Subset, FS_CardinalityType

\* While the results stay as they are.
LEMMA BreakerStays ==
    ASSUME BreakerInv, pc' = pc, UNCHANGED <<recent, counts, cur>>,
           Burnt' = Burnt \/ Burnt' = {}, TypeOK
    PROVE  BreakerInv'
<1>1. Tripped' = Tripped
  BY DEF Tripped, Window, Errors
<1>2. NoShort' = NoShort
  BY DEF NoShort
<1>3. /\ recent \in Seq(BOOLEAN) /\ Len(recent) \in Nat /\ recent' = recent
  BY DEF TypeOK
<1>4. CASE Burnt' = Burnt
  BY <1>1, <1>2, <1>4 DEF BreakerInv
<1>5. CASE Burnt' = {}
  <2>1. Cardinality(Burnt') = 0
    BY <1>5, FS_EmptySet
  <2>2. /\ Cardinality(Burnt') <= Len(recent)
        /\ \A i \in 1..Len(recent) : ~(i > Len(recent) - Cardinality(Burnt'))
    BY <1>3, <2>1
  <2>3. QED
    BY <1>1, <1>2, <1>3, <2>2 DEF BreakerInv
<1>6. QED
  BY <1>4, <1>5

\* However results came in before and calls under way come in after: of a
\* server that is down the loop sees fewer errors than the window holds.
THEOREM BreakerTripsHolds == Spec => []BreakerTrips
<1>1. Init => BreakerInv
  BY DEF Init, BreakerInv
<1>2. TypeOK /\ PoolInv /\ OrderInv /\ BreakerInv /\ [Next]_vars => BreakerInv'
  <2> SUFFICES ASSUME TypeOK, PoolInv, OrderInv, BreakerInv, [Next]_vars
               PROVE  BreakerInv'
    OBVIOUS
  <2> USE DEF Goto
  <2>0. /\ future \in [Symbols -> Futures] /\ burnt \subseteq Symbols
        /\ recent \in Seq(BOOLEAN) /\ Len(recent) \in Nat
        /\ Len(recent) <= Window
    BY Typed DEF TypeOK
  <2>1. ASSUME pc' \notin {"loop", "write"} PROVE BreakerInv'
    BY <2>1 DEF BreakerInv
  <2>2. CASE Listen
    <3>1. recent' = <<>> /\ Burnt' = {}
      BY <2>2 DEF Listen, PoolInv, Burnt
    <3>2. Len(recent') = 0 /\ Cardinality(Burnt') = 0 
      BY <3>1, FS_EmptySet
    <3>3. ~Tripped'
      BY <3>2, WindowType DEF Tripped, Window
    <3>4. QED
      BY <3>2, <3>3 DEF BreakerInv
  <2>3. CASE Take
    <3>1. /\ pc = "loop" /\ pc' = "write" /\ cur' = arrived[1] /\ cur'.sym \in Symbols
          /\ 1 \in DOMAIN arrived /\ future' = [future EXCEPT ![cur'.sym] = "taken"]
          /\ recent' = Pushed(recent, cur'.result = "error")
          /\ UNCHANGED <<counts, burnt>>
      BY <2>3, TakeStep
    <3>2. SUFFICES ASSUME NoShort'
                   PROVE  /\ Cardinality(Burnt') <= Len(recent')
                          /\ \A i \in 1..Len(recent') :
                                i > Len(recent') - Cardinality(Burnt') => recent'[i] = TRUE
      BY <3>1 DEF BreakerInv
    <3> DEFINE k == Cardinality(Burnt)
    <3>3. /\ k \in Nat /\ k <= Len(recent)
          /\ \A i \in 1..Len(recent) : i > Len(recent) - k => recent[i] = TRUE
      <4>1. NoShort
        BY <3>1, <3>2 DEF NoShort
      <4>2. QED
        BY <3>1, <4>1, BurntFinite DEF BreakerInv
    <3>4. k < Window
      <4>1. CASE k = Window
        <5>1. Tripped
          BY <3>3, <4>1, AllBurnt
        <5>2. QED
          BY <3>1, <5>1 DEF BreakerInv
      <4>2. QED
        BY <2>0, <3>3, <4>1, WindowType
    <3> DEFINE b == cur'.result = "error"
    <3>5. /\ recent' \in Seq(BOOLEAN)
          /\ Len(recent') = IF Len(recent) = Window THEN Window ELSE Len(recent) + 1
          /\ recent'[Len(recent')] = b
          /\ \A i \in 1..Len(recent') - 1 :
                recent'[i] = recent[IF Len(recent) = Window THEN i + 1 ELSE i]
      <4>1. b \in BOOLEAN
        OBVIOUS
      <4>2. recent' = Pushed(recent, b)
        BY <3>1
      <4> HIDE DEF b
      <4>3. QED
        BY <2>0, <4>1, <4>2, PushedType
    <3>5a. /\ Len(recent') = IF Len(recent) = Window THEN Window ELSE Len(recent) + 1
           /\ Len(recent') \in Nat /\ Len(recent) \in Nat
           /\ Len(recent) <= Window /\ Window \in Nat \ {0}
           /\ k \in Nat /\ k <= Len(recent)
      BY <2>0, <3>3, <3>5, WindowType
    <3>6. cur'.result # "short"
      BY <3>1, <3>2 DEF NoShort
    <3>7. CASE cur'.sym \in burnt
      <4>1. cur'.result = "error"
        BY <3>1, <3>7 DEF OrderInv
      <4>2. Burnt' = Burnt \cup {cur'.sym}
        BY <2>0, <3>1, <3>7 DEF Burnt, Are
      <4>3. Cardinality(Burnt') \in Nat /\ Cardinality(Burnt') <= k + 1
        <5>1. IsFiniteSet(Burnt) /\ k \in Nat
          BY BurntFinite
        <5>2. Cardinality(Burnt \cup {cur'.sym}) \in {k, k + 1}
          BY <5>1, FS_AddElement
        <5>3. QED
          BY <4>2, <5>1, <5>2
      <4>4. ASSUME NEW i \in 1..Len(recent'), i > Len(recent') - (k + 1)
            PROVE  recent'[i] = TRUE
        <5>1. CASE i = Len(recent')
          BY <3>5, <4>1, <5>1
        <5>2. CASE i # Len(recent')
          <6> DEFINE j == IF Len(recent) = Window THEN i + 1 ELSE i
          <6>1. j \in 1..Len(recent) /\ j > Len(recent) - k
            BY <3>5a, <4>4, <5>2
          <6>2. i \in 1..Len(recent') - 1
            BY <3>5a, <5>2
          <6>3. QED
            BY <3>3, <3>5, <6>1, <6>2
        <5>3. QED
          BY <5>1, <5>2
      <4>5. k + 1 <= Len(recent')
        BY <3>4, <3>5a
      <4>6. Len(recent') \in Nat
        BY <3>5a
      <4>7. \A i \in 1..Len(recent') :
               i > Len(recent') - Cardinality(Burnt') => i > Len(recent') - (k + 1)
        BY <3>5a, <4>3
      <4>8. \A i \in 1..Len(recent') :
               i > Len(recent') - Cardinality(Burnt') => recent'[i] = TRUE
        BY <4>4, <4>7
      <4>9. Cardinality(Burnt') <= Len(recent')
        BY <3>5a, <4>3, <4>5
      <4>10. QED
        BY <4>8, <4>9
    <3>8. CASE cur'.sym \notin burnt
      <4>1. Burnt = {}
        BY <3>1, <3>6, <3>8 DEF OrderInv, Dead, Burnt
      <4>2. Burnt' = {}
        BY <2>0, <3>1, <3>8, <4>1 DEF Burnt, Are
      <4>3. Cardinality(Burnt') = 0
        BY <4>2, FS_EmptySet
      <4>4. QED
        BY <3>5a, <4>3
    <3>9. QED
      BY <3>7, <3>8
  <2>4. CASE Write
    <3>1. /\ pc = "write" /\ pc' = (IF Tripped THEN "cancel" ELSE "loop")
          /\ UNCHANGED <<recent, future, burnt>>
      BY <2>4 DEF Write
    <3>2. Tripped' = Tripped /\ Burnt' = Burnt
      BY <3>1 DEF Tripped, Window, Errors, Burnt, Are
    <3>3. NoShort' => NoShort
      <4>1. ASSUME cur.result = "short"
            PROVE  counts' = [counts EXCEPT !["skipped"] = @ \cup {cur.sym}]
        BY <2>4, <4>1 DEF Write, Count
      <4>2. "skipped" \in DOMAIN counts
        BY DEF TypeOK, Counts
      <4>3. ASSUME NEW j \in Counts, counts' = [counts EXCEPT ![j] = @ \cup {cur.sym}]
            PROVE  counts["skipped"] \subseteq counts'["skipped"]
        BY <4>2, <4>3 DEF TypeOK
      <4>4. UNCHANGED counts \/ \E j \in Counts :
                                   counts' = [counts EXCEPT ![j] = @ \cup {cur.sym}]
        <5>1. cur.result \in Results
          BY <3>1, Typed
        <5>2. QED
          BY <2>4, <5>1 DEF Write, Count, Counts, Results
      <4>5. QED
        BY <4>1, <4>2, <4>3, <4>4 DEF NoShort
    <3>4. QED
      BY <3>1, <3>2, <3>3 DEF BreakerInv
  <2>5. ASSUME NEW s \in Symbols, Start(s) \/ Finish(s) PROVE BreakerInv'
    <3>1. /\ future[s] \in {"pending", "running"} /\ UNCHANGED <<pc, recent, counts, cur>>
          /\ \E f \in {"running", "done"} : future' = [future EXCEPT ![s] = f]
          /\ burnt' \in {burnt, burnt \cup {s}}
      BY <2>5 DEF Start, CanStart, Finish
    <3>2. Burnt' = Burnt
      BY <2>0, <3>1 DEF Burnt, Are
    <3>3. QED
      BY <3>1, <3>2, BreakerStays
  <2>6. CASE GoDown \/ ComeUp
    <3>1. Burnt' = {} /\ UNCHANGED <<pc, recent, counts, cur>>
      BY <2>6 DEF GoDown, ComeUp, Burnt
    <3>2. QED
      BY <3>1, BreakerStays
  <2>7. CASE Outside
    <3>1. Burnt' = Burnt /\ UNCHANGED <<pc, recent, counts, cur>>
      BY <2>7 DEF Outside, local, Burnt, Are
    <3>2. QED
      BY <3>1, BreakerStays
  <2>8. ASSUME \/ Begin \/ Resume \/ Read \/ Cancelled \/ Over
               \/ \E s \in Symbols : Cancel(s)
        PROVE  pc' \notin {"loop", "write"}
    BY <2>8 DEF Begin, Resume, Read, Cancelled, Over, Cancel
  <2>9. QED
    BY <2>1, <2>2, <2>3, <2>4, <2>5, <2>6, <2>7, <2>8, Steps
<1>3. TypeOK /\ BreakerInv => BreakerTrips
  <2> SUFFICES ASSUME TypeOK, BreakerInv, pc = "loop", counts["skipped"] = {}
               PROVE  Cardinality(Burnt) < Window
    BY DEF BreakerTrips, Burnt
  <2>1. /\ Cardinality(Burnt) \in Nat /\ Cardinality(Burnt) <= Len(recent)
        /\ \A i \in 1..Len(recent) : i > Len(recent) - Cardinality(Burnt) => recent[i] = TRUE
    BY BurntFinite DEF BreakerInv, NoShort
  <2>2. Len(recent) \in Nat /\ Len(recent) <= Window
    BY DEF TypeOK
  <2>3. CASE Cardinality(Burnt) = Window
    <3>1. Tripped
      BY <2>1, <2>3, AllBurnt
    <3>2. QED
      BY <3>1 DEF BreakerInv
  <2>4. QED
    BY <2>1, <2>2, <2>3, WindowType
<1>4. QED
  BY <1>1, <1>2, <1>3, TypeCorrect, Pool, Order, PTL DEF Spec

-----------------------------------------------------------------------------
(* The report and the summaries.                                           *)

\* What Write does: the result in hand comes under one count, or its write
\* has failed; a summary that is written is counted.
LEMMA WriteStep ==
    ASSUME TypeOK, Write
    PROVE  /\ pc = "write" /\ pc' \in {"cancel", "loop"} /\ cur' = <<>>
           /\ cur.sym \in Symbols
           /\ \/ /\ cur.result = "summary"
                 /\ summary' = [summary EXCEPT ![Node[cur.sym]] = <<cur.sym, runs>>]
                 /\ counts' = [counts EXCEPT !["written"] = @ \cup {cur.sym}]
                 /\ UNCHANGED lost
              \/ /\ UNCHANGED <<summary, lost>>
                 /\ \E k \in Counts \ {"written"} :
                       counts' = [counts EXCEPT ![k] = @ \cup {cur.sym}]
              \/ /\ UNCHANGED <<summary, counts>>
                 /\ lost' = lost \cup {cur.sym}
           /\ UNCHANGED <<nodes, up, redo, blank, future, arrived, recent, burnt, runs>>
<1>1. /\ pc = "write" /\ pc' \in {"cancel", "loop"} /\ cur' = <<>>
      /\ UNCHANGED <<nodes, up, redo, blank, future, arrived, recent, burnt, runs>>
  BY DEF Write, Goto
<1>2. cur.sym \in Symbols /\ cur.result \in Results
  BY <1>1, Typed
<1>3. QED
  BY <1>1, <1>2 DEF Write, Count, Counts, Results, Said

\* While what this run has written is still written, and the summaries only go,
\* those it has written stay fresh.
LEMMA FreshStays ==
    ASSUME counts["written"] \subseteq counts'["written"], runs' = runs,
           NEW n, summary'[n] \in {summary[n], NoSummary}, summary[n] \in Fresh(n)
    PROVE  summary'[n] \in Fresh(n)'
  BY DEF Fresh

\* What a run writes is fresh, and leaves fresh what was so.
LEMMA FreshWritten ==
    ASSUME TypeOK, NEW x \in Symbols, runs' = runs,
           summary' = [summary EXCEPT ![Node[x]] = <<x, runs>>],
           x \in counts'["written"], counts["written"] \subseteq counts'["written"]
    PROVE  /\ summary'[Node[x]] \in Fresh(Node[x])'
           /\ \A n \in Nodes : summary[n] \in Fresh(n) => summary'[n] \in Fresh(n)'
<1>1. Node[x] \in Nodes /\ summary \in [Nodes -> (Symbols \X Nat) \cup {NoSummary}]
  BY SummariseAssumption DEF TypeOK
<1>2. summary'[Node[x]] = <<x, runs>>
  BY <1>1
<1>3. <<x, runs'>> \in Fresh(Node[x])'
  BY DEF Fresh
<1>4. ASSUME NEW n \in Nodes, n # Node[x], summary[n] \in Fresh(n)
      PROVE  summary'[n] \in Fresh(n)'
  <2>1. summary'[n] = summary[n]
    BY <1>1, <1>4
  <2>2. QED
    BY <1>4, <2>1, FreshStays
<1>5. QED
  BY <1>2, <1>3, <1>4

\* What was taken is counted, and under one count only.
LEMMA Report == Spec => []ReportInv
<1> USE DEF ReportInv
<1>1. Init => ReportInv
  BY DEF Init, NoCounts, Counts, Are, Reported
<1>2. TypeOK /\ PoolInv /\ ReportInv /\ [Next]_vars => ReportInv'
  <2> SUFFICES ASSUME TypeOK, PoolInv, ReportInv, [Next]_vars
               PROVE  ReportInv'
    OBVIOUS
  <2>0. /\ future \in [Symbols -> Futures] /\ counts \in [Counts -> SUBSET Symbols]
        /\ Node \in [Symbols -> Nodes] /\ "written" \in Counts
        /\ summary \in [Nodes -> (Symbols \X Nat) \cup {NoSummary}]
    BY SummariseAssumption DEF TypeOK, Counts
  <2>1. ASSUME Begin \/ Resume \/ Read \/ Over PROVE ReportInv'
    <3>1. counts' = NoCounts /\ lost' = {} /\ pc' # "write"
      BY <2>1 DEF Begin, Resume, Read, Over, PoolInv, Goto
    <3>2. \A s \in Symbols : future'[s] # "taken"
      BY <2>1 DEF Begin, Resume, Read, Over, PoolInv
    <3>3. Are("taken")' = {}
      BY <3>2 DEF Are
    <3>4. UNION {NoCounts[k] : k \in Counts} = {} /\ \A k \in Counts : NoCounts[k] = {}
      BY DEF NoCounts
    <3>5. Reported' = {}
      BY <3>1, <3>4 DEF Reported
    <3>6. QED
      BY <2>0, <3>1, <3>3, <3>4, <3>5
  <2>2. CASE Take
    <3>1. /\ pc = "loop" /\ pc' = "write" /\ cur' = arrived[1] /\ cur'.sym \in Symbols
          /\ 1 \in DOMAIN arrived /\ future' = [future EXCEPT ![cur'.sym] = "taken"]
          /\ UNCHANGED <<world, runs, counts, lost>>
      BY <2>2, TakeStep DEF tally
    <3>2. future[cur'.sym] = "done"
      BY <3>1 DEF PoolInv
    <3>3. Are("taken")' = Are("taken") \cup {cur'.sym} /\ cur'.sym \notin Are("taken")
      BY <2>0, <3>1, <3>2 DEF Are
    <3>4. Reported' = Reported
      BY <3>1 DEF Reported
    <3>5. Reported = Are("taken")
      BY <3>1
    <3>6. \A s \in counts'["written"] : summary'[Node[s]] \in Fresh(Node[s])'
      BY <3>1 DEF world, Fresh
    <3>7. QED
      BY <3>1, <3>3, <3>4, <3>5, <3>6 DEF world
  <2>3. CASE Write
    <3>0. PICK x \in Symbols : x = cur.sym
      BY <2>3, WriteStep
    <3>1. /\ pc = "write" /\ pc' \in {"cancel", "loop"}
          /\ UNCHANGED <<runs, future>>
      BY <2>3, WriteStep
    <3>2. Are("taken")' = Are("taken") /\ x \in Are("taken")
      BY <3>0, <3>1 DEF Are, PoolInv
    <3>3. Reported = Are("taken") \ {x}
      BY <3>0, <3>1
    <3>4. ASSUME NEW j \in Counts, counts' = [counts EXCEPT ![j] = @ \cup {x}],
                 UNCHANGED lost
          PROVE  /\ Reported' = Are("taken")
                 /\ \A k, l \in Counts : k # l => counts'[k] \cap counts'[l] = {}
      <4>1. \A k \in Counts : counts'[k] = IF k = j THEN counts[k] \cup {x} ELSE counts[k]
        BY <2>0, <3>4
      <4>2. ASSUME NEW s PROVE s \in Reported' <=> s \in Reported \cup {x}
        BY <3>4, <4>1 DEF Reported
      <4>3. Reported' = Reported \cup {x}
        BY <4>2 DEF Reported
      <4>4. \A k \in Counts : counts[k] \subseteq Reported
        BY DEF Reported
      <4>5. \A k \in Counts : x \notin counts[k]
        BY <3>3, <4>4
      <4>6. Reported' = Are("taken")
        BY <3>2, <3>3, <4>3
      <4>7. ASSUME NEW k \in Counts, NEW l \in Counts, k # l
            PROVE  counts'[k] \cap counts'[l] = {}
        <5>1. counts[k] \cap counts[l] = {}
          BY <4>7
        <5>2. QED
          BY <4>1, <4>5, <4>7, <5>1
      <4>8. QED
        BY <4>6, <4>7
    <3>5. CASE /\ summary' = [summary EXCEPT ![Node[x]] = <<x, runs>>]
               /\ counts' = [counts EXCEPT !["written"] = @ \cup {x}]
               /\ UNCHANGED lost
      <4>0. counts'["written"] = counts["written"] \cup {x}
        BY <2>0, <3>5
      <4>1. \A s \in counts'["written"] : summary'[Node[s]] \in Fresh(Node[s])'
        <5>1. x \in counts'["written"] /\ counts["written"] \subseteq counts'["written"]
          BY <4>0
        <5>2. /\ summary'[Node[x]] \in Fresh(Node[x])'
              /\ \A n \in Nodes : summary[n] \in Fresh(n) => summary'[n] \in Fresh(n)'
          BY <3>1, <3>5, <5>1, FreshWritten
        <5>3. \A s \in counts["written"] :
                 Node[s] \in Nodes /\ summary[Node[s]] \in Fresh(Node[s])
          BY <2>0
        <5>4. \A s \in counts["written"] : summary'[Node[s]] \in Fresh(Node[s])'
          BY <5>2, <5>3, Zenon
        <5>5. QED
          BY <4>0, <5>2, <5>4
      <4>2. QED
        BY <2>0, <3>1, <3>2, <3>4, <3>5, <4>1
    <3>6. ASSUME UNCHANGED <<summary, lost>>, NEW j \in Counts \ {"written"},
                 counts' = [counts EXCEPT ![j] = @ \cup {x}]
          PROVE  ReportInv'
      <4>1. counts'["written"] = counts["written"]
        BY <2>0, <3>6
      <4>2. \A s \in counts'["written"] : summary'[Node[s]] \in Fresh(Node[s])'
        BY <3>1, <3>6, <4>1 DEF Fresh
      <4>3. QED
        BY <3>1, <3>2, <3>4, <3>6, <4>2
    <3>7. CASE UNCHANGED <<summary, counts>> /\ lost' = lost \cup {x}
      <4>1. Reported' = Reported \cup {x} /\ counts' = counts
        <5>1. ASSUME NEW s PROVE s \in Reported' <=> s \in Reported \cup {x}
          BY <3>7 DEF Reported
        <5>2. Reported' = Reported \cup {x}
          BY <5>1
        <5>3. QED
          BY <3>7, <5>2
      <4>2. Reported' = Are("taken")'
        BY <3>2, <3>3, <4>1
      <4>3. \A s \in counts'["written"] : summary'[Node[s]] \in Fresh(Node[s])'
        BY <3>1, <3>7 DEF Fresh
      <4>4. \A j, k \in Counts : j # k => counts'[j] \cap counts'[k] = {}
        BY <4>1
      <4>5. QED
        BY <3>1, <4>2, <4>3, <4>4
    <3>8. QED
      BY <2>3, <3>0, <3>5, <3>6, <3>7, WriteStep
  <2>4. ASSUME UNCHANGED <<counts, lost, cur, runs>>, Are("taken")' = Are("taken"),
               pc' = "write" <=> pc = "write",
               \A n \in Nodes : summary'[n] \in {summary[n], NoSummary}
        PROVE  ReportInv'
    <3>1. Reported' = Reported
      BY <2>4 DEF Reported
    <3>2. ASSUME NEW s \in counts["written"]
          PROVE  summary'[Node[s]] \in Fresh(Node[s])'
      <4>1. Node[s] \in Nodes /\ summary[Node[s]] \in Fresh(Node[s])
        BY <2>0
      <4>2. QED
        BY <2>4, <4>1, FreshStays
    <3>3. QED
      BY <2>4, <3>1, <3>2
  <2>5. ASSUME NEW s \in Symbols, Cancel(s) \/ Start(s) \/ Finish(s) PROVE ReportInv'
    <3>1. UNCHANGED <<pc, counts, lost, cur, runs, summary>>
      BY <2>5 DEF Cancel, Start, CanStart, Finish, world, tally
    <3>2. Are("taken")' = Are("taken")
      BY <2>0, <2>5 DEF Cancel, Start, CanStart, Finish, Are
    <3>3. QED
      BY <2>4, <3>1, <3>2
  <2>6. CASE Cancelled
    <3>1. /\ UNCHANGED <<counts, lost, cur, runs, summary, future>>
          /\ pc # "write" /\ pc' # "write"
      BY <2>6 DEF Cancelled, local, world, tally, Goto
    <3>2. QED
      BY <2>4, <3>1 DEF Are
  <2>6a. CASE Listen
    <3>1. /\ UNCHANGED <<counts, lost, cur, runs, summary, future>>
          /\ pc # "write" /\ pc' # "write"
      BY <2>6a DEF Listen, world, tally, Goto
    <3>2. QED
      BY <2>4, <3>1 DEF Are
  <2>7. CASE GoDown \/ ComeUp
    BY <2>4, <2>7 DEF GoDown, ComeUp, Are, tally
  <2>8. CASE Outside
    BY <2>4, <2>8 DEF Outside, local, Are
  <2>9. QED
    BY <2>1, <2>2, <2>3, <2>5, <2>6, <2>6a, <2>7, <2>8, Steps
<1>3. QED
  BY <1>1, <1>2, TypeCorrect, Pool, PTL DEF Spec

\* Whatever failed, was edited, pruned or given up meanwhile: the report of a
\* run that ends by itself counts every result it has taken once, and what it
\* counts as written is in the index.
THEOREM ReportIsTrueHolds == Spec => ReportIsTrue
<1>1. TypeOK /\ PoolInv /\ ReportInv /\ [Next]_vars =>
        [pc # "idle" /\ pc' = "idle" /\ last' # "killed" =>
            /\ Reported = Are("taken")
            /\ last' = "done" => Reported = Symbols \ Are("none")
            /\ \A j, k \in Counts : j # k => counts[j] \cap counts[k] = {}
            /\ \A s \in counts["written"] : summary[Node[s]] \in Fresh(Node[s])]_vars
  <2> SUFFICES ASSUME TypeOK, PoolInv, ReportInv, [Next]_vars, pc # "idle", pc' = "idle",
                      last' # "killed"
               PROVE  /\ Reported = Are("taken")
                      /\ last' = "done" => Reported = Symbols \ Are("none")
    BY DEF ReportInv
  <2>1. Abort \/ Done
    <3>1. ~(Begin \/ Resume \/ Read \/ Listen \/ Take \/ Write \/ Cancelled)
      BY DEF Begin, Resume, Read, Listen, Take, Write, Cancelled, Goto
    <3>2. ~(Kill \/ GoDown \/ ComeUp)
      BY DEF Kill, GoDown, ComeUp, Ends
    <3>3. /\ \A s \in Symbols : ~(Cancel(s) \/ Start(s) \/ Finish(s))
          /\ \A n \in Nodes : ~(Prune(n) \/ Recreate(n))
      BY DEF Cancel, Start, CanStart, Finish, Prune, Recreate
    <3>4. QED
      BY <3>1, <3>2, <3>3 DEF Next, MainStep, PoolStep, vars
  <2>2. pc \in {"drain", "loop"}
    BY <2>1 DEF Abort, Done
  <2>3. Reported = Are("taken")
    BY <2>2 DEF ReportInv
  <2>4. ASSUME last' = "done" PROVE Are("taken") = Symbols \ Are("none")
    BY <2>1, <2>4 DEF Abort, Done, Ends, Are
  <2>5. QED
    BY <2>3, <2>4
<1>2. QED
  BY <1>1, TypeCorrect, Pool, Report, PTL DEF Spec, ReportIsTrue

\* Without --redo-existing, a candidate not yet dealt with has no summary but one
\* of this run.
LEMMA Keep == Spec => []KeepInv
<1> USE DEF KeepInv
<1>1. Init => KeepInv
  BY DEF Init
<1>2. TypeOK /\ PoolInv /\ KeepInv /\ [Next]_vars => KeepInv'
  <2> SUFFICES ASSUME TypeOK, PoolInv, KeepInv, [Next]_vars
               PROVE  KeepInv'
    OBVIOUS
  <2>0. /\ future \in [Symbols -> Futures]
        /\ summary \in [Nodes -> (Symbols \X Nat) \cup {NoSummary}]
        /\ Node \in [Symbols -> Nodes]
        /\ counts \in [Counts -> SUBSET Symbols] /\ "written" \in Counts
        /\ pc = "write" => cur.sym \in Symbols
    BY Typed, SummariseAssumption DEF TypeOK, Counts
  <2>1. CASE Begin
    BY <2>1 DEF Begin, PoolInv, Goto
  <2>2. CASE Resume
    <3>1. \A n : NoSummary \in Fresh(n)'
      BY DEF Fresh
    <3>2. QED
      BY <2>2, <3>1 DEF Resume, world, Goto
  <2>3. CASE Read
    <3>1. /\ UNCHANGED <<redo, summary, counts, runs>> /\ pc' # "write"
          /\ \A s \in Symbols : future'[s] \in {"pending", "running", "done"} =>
                future[s] = "pending"
      BY <2>3 DEF Read, world, Goto, Are
    <3>2. QED
      BY <3>1 DEF Fresh
  <2>3a. CASE Listen
    BY <2>3a DEF Listen, world, tally, Goto, Fresh
  <2>4. CASE Take
    <3>1. /\ pc = "loop" /\ pc' = "write" /\ cur' = arrived[1] /\ cur'.sym \in Symbols
          /\ 1 \in DOMAIN arrived /\ future' = [future EXCEPT ![cur'.sym] = "taken"]
          /\ UNCHANGED <<summary, redo, counts, runs>>
      BY <2>4, TakeStep DEF world, tally
    <3>2. future[cur'.sym] = "done"
      BY <3>1 DEF PoolInv
    <3>3. QED
      BY <2>0, <3>1, <3>2 DEF Fresh
  <2>5. CASE Write
    <3>1. /\ pc = "write" /\ pc' # "write" /\ UNCHANGED <<future, redo, runs>>
          /\ cur.sym \in Symbols
      BY <2>0, <2>5, WriteStep
    <3>2. \A n \in Nodes : summary[n] \in Fresh(n) => summary'[n] \in Fresh(n)'
      <4>1. CASE /\ summary' = [summary EXCEPT ![Node[cur.sym]] = <<cur.sym, runs>>]
                 /\ counts' = [counts EXCEPT !["written"] = @ \cup {cur.sym}]
        <5>1. counts'["written"] = counts["written"] \cup {cur.sym}
          BY <2>0, <4>1
        <5>2. QED
          BY <3>1, <4>1, <5>1, FreshWritten
      <4>2. CASE UNCHANGED summary /\ counts'["written"] = counts["written"]
        BY <3>1, <4>2 DEF Fresh
      <4>3. ASSUME NEW k \in Counts \ {"written"},
                   counts' = [counts EXCEPT ![k] = @ \cup {cur.sym}]
            PROVE  counts'["written"] = counts["written"]
        BY <2>0, <4>3
      <4>4. QED
        BY <2>5, <4>1, <4>2, <4>3, WriteStep
    <3>3. QED
      BY <2>0, <3>1, <3>2
  <2>6. ASSUME NEW s \in Symbols, Cancel(s) \/ Start(s) \/ Finish(s) PROVE KeepInv'
    <3>1. /\ UNCHANGED <<pc, redo, cur, summary, counts, runs>>
          /\ future[s] \in {"pending", "running"}
          /\ \E f \in Futures : future' = [future EXCEPT ![s] = f]
      BY <2>6 DEF Cancel, Start, CanStart, Finish, world, tally, Futures
    <3>2. QED
      BY <2>0, <3>1 DEF Fresh
  <2>7. CASE Cancelled
    BY <2>7 DEF Cancelled, local, world, tally, Goto, Fresh
  <2>8. CASE GoDown \/ ComeUp
    BY <2>8 DEF GoDown, ComeUp, tally, Fresh
  <2>9. CASE Over
    BY <2>9 DEF Over
  <2>10. CASE Outside
    <3>1. /\ UNCHANGED <<pc, redo, cur, future, counts, runs>>
          /\ \A n \in Nodes : summary'[n] \in {summary[n], NoSummary}
      BY <2>10 DEF Outside, local
    <3>2. \A n \in Nodes : summary[n] \in Fresh(n) => summary'[n] \in Fresh(n)'
      BY <3>1, FreshStays
    <3>3. QED
      BY <2>0, <3>1, <3>2
  <2>11. QED
    BY <2>1, <2>2, <2>3, <2>3a, <2>4, <2>5, <2>6, <2>7, <2>8, <2>9, <2>10, Steps
<1>3. QED
  BY <1>1, <1>2, TypeCorrect, Pool, PTL DEF Spec

\* No error, empty answer, abort or kill takes a summary away or replaces it,
\* and a run without --redo-existing changes none but those it has written.
THEOREM SummariesKeptHolds == Spec => SummariesKept
<1>1. TypeOK /\ KeepInv /\ [Next]_vars =>
        [\A n \in Nodes :
            summary'[n] # summary[n] /\ summary[n] # NoSummary =>
                \/ n \notin nodes'
                \/ /\ cur # <<>> /\ Node[cur.sym] = n /\ cur.result = "summary"
                   /\ redo \/ summary[n] \in Fresh(n)]_vars
  <2> SUFFICES ASSUME TypeOK, KeepInv, [Next]_vars, NEW n \in Nodes,
                      summary'[n] # summary[n], summary[n] # NoSummary
               PROVE  \/ n \notin nodes'
                      \/ /\ cur # <<>> /\ Node[cur.sym] = n /\ cur.result = "summary"
                         /\ redo \/ summary[n] \in Fresh(n)
    OBVIOUS
  <2>0. summary \in [Nodes -> (Symbols \X Nat) \cup {NoSummary}]
    BY DEF TypeOK
  <2>1. CASE Write
    <3>1. /\ pc = "write" /\ cur.sym \in Symbols /\ cur.result = "summary"
          /\ summary' = [summary EXCEPT ![Node[cur.sym]] = <<cur.sym, runs>>]
      BY <2>1, WriteStep
    <3>2. Node[cur.sym] = n
      BY <2>0, <3>1
    <3>3. redo \/ summary[n] \in Fresh(n)
      BY <3>1, <3>2 DEF KeepInv
    <3>4. cur # <<>>
      <4>1. cur \in [sym : Symbols, result : Results]
        BY <3>1, Typed
      <4>2. "sym" \in DOMAIN cur
        BY <4>1
      <4>3. DOMAIN <<>> = {}
        OBVIOUS
      <4>4. QED
        BY <4>2, <4>3
    <3>5. QED
      BY <3>1, <3>2, <3>3, <3>4
  <2>2. ASSUME NEW k \in Nodes, Prune(k) PROVE n \notin nodes'
    BY <2>0, <2>2 DEF Prune
  <2>3. ASSUME NEW t \in Symbols, Cancel(t) \/ Start(t) \/ Finish(t)
        PROVE  UNCHANGED summary
    BY <2>3 DEF Cancel, Start, CanStart, Finish, world
  <2>4. ASSUME NEW k \in Nodes, Recreate(k) PROVE UNCHANGED summary
    BY <2>4 DEF Recreate
  <2>5. ASSUME \/ Begin \/ Resume \/ Read \/ Listen \/ Take \/ Cancelled \/ Abort \/ Done
               \/ Kill \/ GoDown \/ ComeUp \/ UNCHANGED vars
        PROVE  UNCHANGED summary
    BY <2>5 DEF Begin, Resume, Read, Listen, Take, Cancelled, Abort, Done, Kill, Ends,
       GoDown, ComeUp, vars, world
  <2>6. QED
    BY <2>1, <2>2, <2>3, <2>4, <2>5 DEF Next, MainStep, PoolStep
<1>2. QED
  BY <1>1, TypeCorrect, Keep, PTL DEF Spec, SummariesKept

-----------------------------------------------------------------------------
(* What a run has left to do.                                              *)

\* The futures in each state can be counted.
LEMMA CountType ==
    ASSUME NEW c
    PROVE  /\ Are(c) \subseteq Symbols /\ IsFiniteSet(Are(c))
           /\ Many(c) \in Nat /\ Many(c) <= Cardinality(Symbols)
           /\ Many(c)' \in Nat /\ Many(c)' <= Cardinality(Symbols)
           /\ Cardinality(Symbols) \in Nat
<1>1. /\ Are(c) \subseteq Symbols /\ Are(c)' \subseteq Symbols
      /\ IsFiniteSet(Symbols)
  BY SummariseAssumption DEF Are
<1>2. QED
  BY <1>1, FS_Subset, FS_CardinalityType DEF Many

\* None are none.
LEMMA NoneAre ==
    ASSUME NEW c, \A s \in Symbols : future'[s] # c
    PROVE  Many(c)' = 0
<1>1. Are(c)' = {}
  BY DEF Are
<1>2. QED
  BY <1>1, FS_EmptySet DEF Many

\* Where no future moves, each state has as many as before.
LEMMA NoneMoves ==
    ASSUME UNCHANGED future
    PROVE  \A c : Many(c)' = Many(c)
  BY DEF Many, Are

\* The future of s goes from a to b.
Moves(s, a, b) ==
    /\ future[s] = a /\ a # b
    /\ future' = [future EXCEPT ![s] = b]

\* A future that goes from one state to another leaves one set for the other.
LEMMA OneMoves ==
    ASSUME TypeOK, NEW s \in Symbols, NEW a, NEW b, Moves(s, a, b)
    PROVE  \A c : Many(c)' = IF c = a THEN Many(c) - 1
                             ELSE IF c = b THEN Many(c) + 1 ELSE Many(c)
<1> SUFFICES ASSUME NEW c
             PROVE  Many(c)' = IF c = a THEN Many(c) - 1
                               ELSE IF c = b THEN Many(c) + 1 ELSE Many(c)
  OBVIOUS
<1>0. future \in [Symbols -> Futures]
  BY DEF TypeOK
<1>1. CASE c = a
  <2>1. Are(c)' = Are(c) \ {s} /\ s \in Are(c)
    BY <1>0, <1>1 DEF Are, Moves
  <2>2. Cardinality(Are(c) \ {s}) = Cardinality(Are(c)) - 1
    BY <2>1, CountType, FS_RemoveElement
  <2>3. QED
    BY <1>1, <2>1, <2>2 DEF Many
<1>2. CASE c = b
  <2>1. Are(c)' = Are(c) \cup {s} /\ s \notin Are(c)
    BY <1>0, <1>2 DEF Are, Moves
  <2>2. Cardinality(Are(c) \cup {s}) = Cardinality(Are(c)) + 1
    BY <2>1, CountType, FS_AddElement
  <2>3. c # a
    BY <1>2 DEF Moves
  <2>4. QED
    BY <1>2, <2>1, <2>2, <2>3 DEF Many
<1>3. CASE c # a /\ c # b
  <2>1. Are(c)' = Are(c)
    BY <1>0, <1>3 DEF Are, Moves
  <2>2. QED
    BY <1>3, <2>1 DEF Many
<1>4. QED
  BY <1>1, <1>2, <1>3

\* What is ahead of the main thread, as a number.
LEMMA AheadType ==
    ASSUME TypeOK
    PROVE  Ahead \in Nat /\ (pc # "idle" => Ahead > 0)
<1>1. Cardinality(Symbols) \in Nat
  BY CountType
<1>2. QED
  BY <1>1 DEF Ahead, TypeOK

\* And after a step.
LEMMA NextAheadType ==
    ASSUME TypeOK'
    PROVE  Ahead' \in Nat
<1>1. Cardinality(Symbols) \in Nat
  BY CountType
<1>2. QED
  BY <1>1 DEF Ahead, TypeOK

\* A step of one of its threads takes a run nearer to its end.
LEMMA Descends ==
    ASSUME TypeOK, TypeOK', PoolInv, MainStep \/ \E s \in Symbols : PoolStep(s)
    PROVE  Left' < Left
<1>n. /\ Many("pending") \in Nat /\ Many("running") \in Nat /\ Many("done") \in Nat
      /\ Many("pending")' \in Nat /\ Many("running")' \in Nat /\ Many("done")' \in Nat
      /\ Many("pending")' <= Cardinality(Symbols) /\ Cardinality(Symbols) \in Nat
      /\ Ahead \in Nat /\ Ahead' \in Nat
  BY CountType, AheadType, NextAheadType
<1>1. CASE Resume
  <2>1. \A s \in Symbols : future'[s] \in {"pending", "none"}
    BY <1>1 DEF Resume
  <2>2. Many("running")' = 0 /\ Many("done")' = 0
    BY <2>1, NoneAre
  <2>3. Ahead = 4 * Cardinality(Symbols) + 5 /\ Ahead' = 4
    BY <1>1 DEF Resume, Goto, Ahead
  <2>4. QED
    BY <1>n, <2>2, <2>3 DEF Left
<1>2. CASE Read
  <2>1. \A s \in Symbols : /\ future'[s] \in {"pending", "none"}
                           /\ future'[s] = "pending" => future[s] = "pending"
    BY <1>2 DEF Read, Are
  <2>2. Many("running")' = 0 /\ Many("done")' = 0
    BY <2>1, NoneAre
  <2>3. Many("pending")' <= Many("pending")
    <3>1. Are("pending")' \subseteq Are("pending")
      BY <2>1 DEF Are
    <3>2. QED
      BY <3>1, CountType, FS_Subset DEF Many
  <2>4. Ahead = 4 /\ Ahead' = 3
    BY <1>2 DEF Read, Goto, Ahead
  <2>5. QED
    BY <1>n, <2>2, <2>3, <2>4 DEF Left
<1>2a. CASE Listen
  <2>1. Ahead = 3 /\ Ahead' = 2
    BY <1>2a DEF Listen, Goto, Ahead
  <2>2. UNCHANGED future
    BY <1>2a DEF Listen
  <2>3. QED
    BY <1>n, <2>1, <2>2, NoneMoves DEF Left
<1>3. CASE Take
  <2>1. cur'.sym \in Symbols /\ Moves(cur'.sym, "done", "taken")
    BY <1>3, TakeStep DEF PoolInv, Moves
  <2>2. /\ Many("pending")' = Many("pending") /\ Many("running")' = Many("running")
        /\ Many("done")' = Many("done") - 1
    BY <2>1, OneMoves
  <2>3. Ahead = 2 /\ Ahead' = 3
    BY <1>3 DEF Take, Goto, Ahead
  <2>4. QED
    BY <1>n, <2>2, <2>3 DEF Left
<1>4. CASE Write
  <2>1. Ahead = 3 /\ Ahead' = 2
    BY <1>4 DEF Write, Goto, Ahead
  <2>2. UNCHANGED future
    BY <1>4 DEF Write
  <2>3. QED
    BY <1>n, <2>1, <2>2, NoneMoves DEF Left
<1>5. ASSUME NEW s \in Symbols, Cancel(s) PROVE Left' < Left
  <2>1. /\ Many("pending")' = Many("pending") - 1 /\ Many("running")' = Many("running")
        /\ Many("done")' = Many("done")
    <3>1. Moves(s, "pending", "cancelled")
      BY <1>5 DEF Cancel, Moves
    <3>2. QED
      BY <3>1, OneMoves
  <2>2. Ahead' = Ahead
    BY <1>5 DEF Cancel, Ahead
  <2>3. QED
    BY <1>n, <2>1, <2>2 DEF Left
<1>6. CASE Cancelled
  <2>1. Ahead = 2 /\ Ahead' = 1
    BY <1>6 DEF Cancelled, Goto, Ahead
  <2>2. UNCHANGED future
    BY <1>6 DEF Cancelled, local
  <2>3. QED
    BY <1>n, <2>1, <2>2, NoneMoves DEF Left
<1>7. CASE Abort \/ Done
  <2>1. pc # "idle" /\ pc' = "idle" /\ future' = [s \in Symbols |-> "none"]
    BY <1>7 DEF Abort, Done, Ends, Goto
  <2>2. Left' = 0
    BY <2>1, NoneAre DEF Left, Ahead
  <2>3. QED
    BY <1>n, <2>1, <2>2, AheadType DEF Left
<1>8. ASSUME NEW s \in Symbols, Start(s) PROVE Left' < Left
  <2>1. /\ Many("pending")' = Many("pending") - 1 /\ Many("running")' = Many("running") + 1
        /\ Many("done")' = Many("done")
    <3>1. Moves(s, "pending", "running")
      BY <1>8 DEF Start, CanStart, Moves
    <3>2. QED
      BY <3>1, OneMoves
  <2>2. Ahead' = Ahead
    BY <1>8 DEF Start, Ahead
  <2>3. QED
    BY <1>n, <2>1, <2>2 DEF Left
<1>9. ASSUME NEW s \in Symbols, Finish(s) PROVE Left' < Left
  <2>1. /\ Many("pending")' = Many("pending") /\ Many("running")' = Many("running") - 1
        /\ Many("done")' = Many("done") + 1
    <3>1. Moves(s, "running", "done")
      BY <1>9 DEF Finish, Moves
    <3>2. QED
      BY <3>1, OneMoves
  <2>2. Ahead' = Ahead
    BY <1>9 DEF Finish, Ahead
  <2>3. QED
    BY <1>n, <2>1, <2>2 DEF Left
<1>10. QED
  BY <1>1, <1>2, <1>2a, <1>3, <1>4, <1>5, <1>6, <1>7, <1>8, <1>9 DEF MainStep, PoolStep

\* The steps of its threads take a run nearer to its end and nothing takes it
\* back, for any number of candidates, threads, limits and faults: it cannot
\* go on for ever.
THEOREM RunDescendsHolds == Spec => RunDescends
<1>1. TypeOK /\ TypeOK' /\ PoolInv /\ [Next]_vars =>
        [pc # "idle" =>
            /\ Left' <= Left
            /\ MainStep \/ (\E s \in Symbols : PoolStep(s)) => Left' < Left]_vars
  <2> SUFFICES ASSUME TypeOK, TypeOK', PoolInv, [Next]_vars, pc # "idle"
               PROVE  /\ Left' <= Left
                      /\ MainStep \/ (\E s \in Symbols : PoolStep(s)) => Left' < Left
    OBVIOUS
  <2>1. Left \in Nat /\ Left' \in Nat /\ Left > 0
    BY CountType, AheadType, NextAheadType DEF Left
  <2>2. CASE MainStep \/ \E s \in Symbols : PoolStep(s)
    BY <2>1, <2>2, Descends
  <2>3. CASE Kill
    <3>1. pc' = "idle" /\ future' = [s \in Symbols |-> "none"]
      BY <2>3 DEF Kill, Ends, Goto
    <3>2. Left' = 0
      BY <3>1, NoneAre DEF Left, Ahead
    <3>3. QED
      BY <2>1, <3>2
  <2>4. ASSUME UNCHANGED <<pc, future>> PROVE Left' = Left
    <3>1. Ahead' = Ahead
      BY <2>4 DEF Ahead
    <3>2. QED
      BY <2>4, <3>1, NoneMoves DEF Left
  <2>5. CASE GoDown \/ ComeUp \/ \E n \in Nodes : Prune(n) \/ Recreate(n)
    <3>1. UNCHANGED <<pc, future>>
      BY <2>5 DEF GoDown, ComeUp, Prune, Recreate, local
    <3>2. QED
      BY <2>1, <2>2, <2>4, <3>1
  <2>6. CASE UNCHANGED vars
    BY <2>1, <2>2, <2>4, <2>6 DEF vars, local
  <2>7. QED
    BY <2>2, <2>3, <2>5, <2>6 DEF Next, Begin
<1>2. QED
  BY <1>1, TypeCorrect, Pool, PTL DEF Spec, RunDescends

\* No result is mislaid on its way to the main thread.
LEMMA ArrivedStep ==
    ASSUME TypeOK, PoolInv, ArrivedInv, [Next]_vars
    PROVE  ArrivedInv'
<1> USE DEF ArrivedInv, Are, Goto
<1>0. /\ future \in [Symbols -> Futures]
      /\ \A i \in DOMAIN arrived : arrived[i].sym \in Symbols
  BY Typed
<1>1. CASE Begin
  BY <1>1 DEF Begin
<1>2. CASE Resume \/ Read
  BY <1>2 DEF Resume, Read
<1>2a. CASE Listen
  <2>1. PICK order \in [DOMAIN arrived -> DOMAIN arrived] :
           /\ \A j \in DOMAIN arrived : \E i \in DOMAIN arrived : order[i] = j
           /\ \A i \in DOMAIN arrived : arrived'[i] = arrived[order[i]]
    BY <1>2a, ListenStep
  <2>2. /\ DOMAIN arrived' = DOMAIN arrived /\ UNCHANGED future
        /\ pc = "submit" /\ pc' = "loop"
    BY <1>2a, ListenStep
  <2>3. ASSUME NEW s \in Symbols, future'[s] = "done"
        PROVE  \E i \in DOMAIN arrived' : arrived'[i].sym = s
    <3>1. PICK j \in DOMAIN arrived : arrived[j].sym = s
      BY <2>2, <2>3
    <3>2. PICK i \in DOMAIN arrived : order[i] = j
      BY <2>1
    <3>3. QED
      BY <2>1, <2>2, <3>1, <3>2
  <2>4. QED
    BY <2>2, <2>3
<1>3. CASE Take
  <2>1. /\ future' = [future EXCEPT ![arrived[1].sym] = "taken"] /\ pc' = "write" /\ pc = "loop"
        /\ arrived[1].sym \in Symbols
    BY <1>3, TakeStep
  <2>2. /\ arrived \in Seq([sym : Symbols, result : Results]) /\ arrived # <<>>
        /\ arrived' = Tail(arrived)
    BY <1>3 DEF Take, TypeOK
  <2>3. /\ DOMAIN arrived = 1..Len(arrived) /\ Len(arrived) \in Nat \ {0}
        /\ DOMAIN arrived' = 1..(Len(arrived) - 1)
        /\ \A i \in 1..Len(arrived) - 1 : arrived'[i] = arrived[i + 1]
    BY <2>2, QueueType
  <2>4. ASSUME NEW s \in Symbols, future'[s] = "done"
        PROVE  \E i \in DOMAIN arrived' : arrived'[i].sym = s
    <3>1. s # arrived[1].sym /\ future[s] = "done"
      BY <1>0, <2>1, <2>4
    <3>2. PICK j \in DOMAIN arrived : arrived[j].sym = s
      BY <3>1
    <3>3. j # 1 /\ j - 1 \in DOMAIN arrived'
      BY <2>3, <3>1, <3>2
    <3>4. arrived'[j - 1].sym = s
      BY <2>3, <3>2, <3>3
    <3>5. QED
      BY <3>3, <3>4
  <2>5. QED
    BY <1>0, <2>1, <2>4
<1>4. CASE Write
  BY <1>4 DEF Write
<1>5. CASE Cancelled
  BY <1>5 DEF Cancelled, local
<1>6. CASE GoDown \/ ComeUp
  BY <1>6 DEF GoDown, ComeUp
<1>7. ASSUME NEW s \in Symbols, Cancel(s) PROVE ArrivedInv'
  BY <1>0, <1>7 DEF Cancel
<1>8. ASSUME NEW s \in Symbols, Start(s) PROVE ArrivedInv'
  BY <1>0, <1>8 DEF Start
<1>9. ASSUME NEW s \in Symbols, Finish(s) PROVE ArrivedInv'
  <2>1. future' = [future EXCEPT ![s] = "done"] /\ pc' = pc
    BY <1>9 DEF Finish
  <2>2. PICK r \in Results :
            /\ DOMAIN arrived' = DOMAIN arrived \cup {Len(arrived) + 1}
            /\ \A i \in DOMAIN arrived : arrived'[i] = arrived[i]
            /\ arrived'[Len(arrived) + 1] = [sym |-> s, result |-> r]
    BY <1>9, FinishStep
  <2>3. ASSUME NEW t \in Symbols, future'[t] = "done"
        PROVE  \E i \in DOMAIN arrived' : arrived'[i].sym = t
    <3>1. CASE t = s
      BY <2>2, <3>1
    <3>2. CASE t # s
      BY <1>0, <2>1, <2>2, <2>3, <3>2
    <3>3. QED
      BY <3>1, <3>2
  <2>4. QED
    BY <1>0, <2>1, <2>3
<1>10. CASE Over
  BY <1>10 DEF Over
<1>11. CASE Outside
  BY <1>11 DEF Outside, local
<1>12. QED
  BY <1>1, <1>2, <1>2a, <1>3, <1>4, <1>5, <1>6, <1>7, <1>8, <1>9, <1>10, <1>11,
     Steps

\* A run that is not over always has a step to take, whatever the server
\* answers and however large the pool: of the longest calls left one can start
\* when none is under way.
THEOREM NeverStuckHolds == Spec => []NeverStuck
<1>1. Init => ArrivedInv
  BY DEF Init, ArrivedInv, Are
<1>2. TypeOK /\ PoolInv /\ ArrivedInv => NeverStuck
  <2> SUFFICES ASSUME TypeOK, PoolInv, ArrivedInv, pc \in {"read", "loop", "drain"}
               PROVE  NeverStuck
    BY DEF NeverStuck, TypeOK
  <2>1. CASE pc = "read"
    BY <2>1, SummariseAssumption DEF NeverStuck
  <2>2. CASE pc = "drain"
    BY <2>2 DEF NeverStuck, Are
  <2>3. CASE /\ pc = "loop" /\ arrived = <<>>
             /\ \A s \in Symbols : future[s] # "running"
    <3>1. \A s \in Symbols : future[s] \in {"none", "taken", "pending"}
      BY <2>3 DEF ArrivedInv, Are, TypeOK, Futures
    <3>2. CASE Are("pending") = {}
      BY <2>3, <3>1, <3>2 DEF NeverStuck, Are
    <3>3. CASE Are("pending") # {}
      <4>0. Are("pending") \in (SUBSET Symbols) \ {{}}
        BY <3>3, CountType
      <4>1. PICK s \in Are("pending") : Bigger[s] \cap Are("pending") = {}
        BY <4>0, BiggerAssumption
      <4>2. Are("running") = {}
        BY <2>3 DEF Are
      <4>3. Cardinality(Are("running")) < Concurrency
        <5>1. Cardinality(Are("running")) = 0
          BY <4>2, FS_EmptySet
        <5>2. Concurrency \in Nat \ {0}
          BY SummariseAssumption
        <5>3. QED
          BY <5>1, <5>2
      <4>4. CanStart(s) /\ s \in Symbols
        BY <2>3, <4>1, <4>3 DEF CanStart, Are
      <4>5. QED
        BY <4>4 DEF NeverStuck
    <3>4. QED
      BY <3>2, <3>3
  <2>4. QED
    BY <2>1, <2>2, <2>3 DEF NeverStuck
<1>3. QED
  BY <1>1, <1>2, ArrivedStep, TypeCorrect, Pool, PTL DEF Spec

=============================================================================
