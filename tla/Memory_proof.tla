------------------------------ MODULE Memory_proof ------------------------------
(* Theorems about Memory, for any clients, texts, batch and number of nodes. *)
EXTENDS Memory, FiniteSetTheorems, TLAPS

-----------------------------------------------------------------------------
(* Types.                                                                  *)

\* The initial state is well typed.
LEMMA InitType == Init => TypeOK
  BY MemoryAssumption DEF Init, TypeOK, Ids, Statuses, Positions

\* The end of a call keeps the types of what it resets.
LEMMA ReturnType ==
  ASSUME NEW c \in Clients, TypeOK, Return(c)
  PROVE  /\ pc' \in [Clients -> Positions]
         /\ want' \in [Clients -> Texts \cup {NoText}]
         /\ olds' \in [Clients -> SUBSET Ids]
         /\ left' \in [Clients -> SUBSET Ids]
         /\ nid' \in [Clients -> 0..MaxIds]
<1>1. pc' \in [Clients -> Positions]
  BY DEF TypeOK, Return, Goto, Positions
<1>2. want' \in [Clients -> Texts \cup {NoText}]
  BY DEF TypeOK, Return
<1>3. olds' \in [Clients -> SUBSET Ids] /\ left' \in [Clients -> SUBSET Ids]
  BY DEF TypeOK, Return
<1>4. nid' \in [Clients -> 0..MaxIds]
  BY MemoryAssumption DEF TypeOK, Return
<1> QED BY <1>1, <1>2, <1>3, <1>4

\* A status is set to one of the statuses.
LEMMA StatusType ==
  ASSUME NEW i \in Ids, NEW s \in Statuses, TypeOK, SetStatus(i, s)
  PROVE  TypeOK'
  BY DEF TypeOK, SetStatus, calls

\* Every step keeps the types.
LEMMA TypeStep == TypeOK /\ [Next]_vars => TypeOK'
<1> SUFFICES ASSUME TypeOK, [Next]_vars PROVE TypeOK'
  OBVIOUS
<1>1. ASSUME NEW c \in Clients, NEW t \in Texts, NEW S \in SUBSET Ids,
             Call(c, t, S)
      PROVE  TypeOK'
  <2>1. pc' \in [Clients -> Positions]
    BY <1>1 DEF TypeOK, Call, Goto, Positions
  <2>2. /\ want' \in [Clients -> Texts \cup {NoText}]
        /\ olds' \in [Clients -> SUBSET Ids]
        /\ left' \in [Clients -> SUBSET Ids]
    BY <1>1 DEF TypeOK, Call
  <2> QED BY <1>1, <2>1, <2>2 DEF TypeOK, Call, nodes
<1>2. ASSUME NEW c \in Clients, FindNone(c) PROVE TypeOK'
  <2>1. pc' \in [Clients -> Positions]
    BY <1>2 DEF TypeOK, FindNone, Goto, Positions
  <2> QED BY <1>2, <2>1 DEF TypeOK, FindNone, nodes, calls
<1>3. ASSUME NEW c \in Clients, FindDup(c) PROVE TypeOK'
  <2>1. pc' \in [Clients -> Positions]
    BY <1>3 DEF TypeOK, FindDup, Goto, Positions
  <2>2. nid' \in [Clients -> 0..MaxIds]
    BY <1>3, MemoryAssumption DEF TypeOK, FindDup, Copies, Ids
  <2> QED BY <1>3, <2>1, <2>2 DEF TypeOK, FindDup, nodes
<1>4. ASSUME NEW c \in Clients, Touch(c) PROVE TypeOK'
  <2>1. reseen' \subseteq Ids
    BY <1>4 DEF TypeOK, Touch, Exists
  <2>2. Return(c)
    BY <1>4 DEF Touch
  <2> QED BY <1>4, <2>1, <2>2, ReturnType DEF TypeOK, Touch
<1>5. ASSUME NEW c \in Clients, Upsert(c) PROVE TypeOK'
  <2>1. made' \in 0..MaxIds /\ made + 1 \in Ids /\ old \in 0..made'
    BY <1>5, MemoryAssumption DEF TypeOK, Upsert, Ids
  <2>2. text' \in [Ids -> Texts \cup {NoText}]
    BY <1>5, <2>1 DEF TypeOK, Upsert
  <2>3. status' \in [Ids -> Statuses]
    BY <1>5, <2>1 DEF TypeOK, Upsert, Statuses
  <2>4. nid' \in [Clients -> 0..MaxIds]
    BY <1>5, <2>1, MemoryAssumption DEF TypeOK, Upsert, Ids
  <2>5. pc' \in [Clients -> Positions]
    BY <1>5 DEF TypeOK, Upsert, Goto, Positions
  <2> QED BY <1>5, <2>1, <2>2, <2>3, <2>4, <2>5 DEF TypeOK, Upsert
<1>6. ASSUME NEW c \in Clients, NEW b \in Ids, Supersede(c, b) PROVE TypeOK'
  <2>1. left' \in [Clients -> SUBSET Ids]
    BY <1>6 DEF TypeOK, Supersede
  <2>2. edges' \subseteq Ids \X Ids /\ status' \in [Ids -> Statuses]
    BY <1>6 DEF TypeOK, Supersede, Statuses, Exists
  <2> QED BY <1>6, <2>1, <2>2 DEF TypeOK, Supersede, calls
<1>7. ASSUME NEW c \in Clients, Answer(c) \/ Abort(c) PROVE TypeOK'
  <2>1. Return(c) /\ UNCHANGED nodes
    BY <1>7 DEF Answer, Abort
  <2> QED BY <2>1, ReturnType DEF TypeOK, nodes
<1>8. ASSUME NEW i \in Ids, Forget(i) PROVE TypeOK'
  BY <1>8 DEF TypeOK, Forget, calls, Statuses
<1>9. ASSUME NEW i \in Ids, SoftForget(i) \/ Restore(i) PROVE TypeOK'
  BY <1>9, StatusType DEF SoftForget, Restore, Statuses
<1>10. CASE Age
  <2>1. old' \in 0..made
    BY <1>10, MemoryAssumption DEF TypeOK, Age
  <2> QED BY <1>10, <2>1 DEF TypeOK, Age, calls
<1>11. CASE DecayBatch
  BY <1>11 DEF TypeOK, DecayBatch, calls, Statuses
<1>12. CASE UNCHANGED vars
  BY <1>12 DEF TypeOK, vars
<1> QED
  BY <1>1, <1>2, <1>3, <1>4, <1>5, <1>6, <1>7, <1>8, <1>9, <1>10, <1>11, <1>12
     DEF Next

\* Every variable keeps its type, whatever the clients do.
THEOREM TypeCorrect == Spec => []TypeOK
  BY InitType, TypeStep, PTL DEF Spec

-----------------------------------------------------------------------------
(* Numbers of nodes, and what a call may supersede.                        *)

\* Initially there are no nodes and no calls.
LEMMA InitCalls == Init => MadeInv /\ CallInv
  BY MemoryAssumption DEF Init, MadeInv, CallInv, Exists, Ids

\* A call that is over knows nothing.
LEMMA ReturnCalls ==
  ASSUME NEW c \in Clients, TypeOK, MadeInv, CallInv, Return(c),
         text' = text, made' = made
  PROVE  MadeInv' /\ CallInv'
<1>1. /\ nid'[c] = 0 /\ olds'[c] = {} /\ left'[c] = {} /\ pc'[c] = "idle"
      /\ \A d \in Clients \ {c} : /\ nid'[d] = nid[d] /\ olds'[d] = olds[d]
                                  /\ left'[d] = left[d] /\ pc'[d] = pc[d]
                                  /\ want'[d] = want[d]
  BY DEF TypeOK, Return, Goto
<1>2. MadeInv'
  <2>1. 0 <= made
    BY MemoryAssumption DEF TypeOK
  <2>2. \A d \in Clients : nid'[d] <= made
    BY <1>1, <2>1 DEF MadeInv
  <2>3. \A d \in Clients : \A b \in olds'[d] : b <= made
    BY <1>1 DEF MadeInv
  <2> QED BY <2>2, <2>3 DEF MadeInv, Exists
<1>3. CallInv'
  BY <1>1 DEF CallInv
<1> QED BY <1>2, <1>3

\* Every step keeps the order of creation and what calls know of it.
LEMMA CallsStep ==
  TypeOK /\ MadeInv /\ CallInv /\ [Next]_vars => MadeInv' /\ CallInv'
<1> SUFFICES ASSUME TypeOK, MadeInv, CallInv, [Next]_vars
             PROVE  MadeInv' /\ CallInv'
  OBVIOUS
<1> USE MemoryAssumption
<1>1. ASSUME NEW c \in Clients, NEW t \in Texts, NEW S \in SUBSET Ids,
             Call(c, t, S)
      PROVE  MadeInv' /\ CallInv'
  <2>1. \A b \in S : b <= made
    BY <1>1 DEF Call, Recallable, MadeInv, Exists
  <2>2. /\ olds'[c] = S /\ left'[c] = S /\ pc'[c] # "supersede"
        /\ want'[c] = t
        /\ \A d \in Clients \ {c} : /\ olds'[d] = olds[d] /\ left'[d] = left[d]
                                    /\ pc'[d] = pc[d] /\ want'[d] = want[d]
        /\ nid' = nid /\ text' = text /\ made' = made
    BY <1>1 DEF TypeOK, Call, Goto, nodes
  <2>3. MadeInv'
    BY <2>1, <2>2 DEF MadeInv, Exists
  <2>4. CallInv'
    BY <2>2 DEF CallInv
  <2> QED BY <2>3, <2>4
<1>2. ASSUME NEW c \in Clients, FindNone(c) \/ FindDup(c)
      PROVE  MadeInv' /\ CallInv'
  <2>0. want[c] \in Texts
    BY <1>2 DEF CallInv, FindNone, FindDup
  <2>1. /\ pc[c] = "find" /\ pc'[c] # "supersede"
        /\ nid'[c] = nid[c] \/ Exists(nid'[c])
        /\ want' = want
        /\ \A d \in Clients \ {c} : pc'[d] = pc[d] /\ nid'[d] = nid[d]
        /\ olds' = olds /\ left' = left /\ text' = text /\ made' = made
    BY <1>2, <2>0 DEF TypeOK, FindNone, FindDup, Goto, nodes, calls, Copies,
                      Exists
  <2>2. MadeInv'
    BY <2>1 DEF MadeInv, Exists
  <2>3. CallInv'
    BY <2>1 DEF CallInv
  <2> QED BY <2>2, <2>3
<1>3. ASSUME NEW c \in Clients, Touch(c) \/ Answer(c) \/ Abort(c)
      PROVE  MadeInv' /\ CallInv'
  BY <1>3, ReturnCalls DEF Touch, Answer, Abort, nodes
<1>4. ASSUME NEW c \in Clients, Upsert(c) PROVE MadeInv' /\ CallInv'
  <2>1. made \in Nat /\ made' = made + 1 /\ made + 1 \in Ids
    BY <1>4 DEF TypeOK, Upsert, Ids
  <2>2. /\ nid'[c] = made + 1 /\ pc[c] = "upsert" /\ want' = want
        /\ \A d \in Clients \ {c} : pc'[d] = pc[d] /\ nid'[d] = nid[d]
        /\ olds' = olds /\ left' = left
    BY <1>4 DEF TypeOK, Upsert, Goto
  <2>3. \A i \in Ids : i # made + 1 => text'[i] = text[i]
    BY <1>4 DEF TypeOK, Upsert
  <2>4. /\ \A d \in Clients : nid[d] \in Nat
        /\ \A d \in Clients : \A b \in olds[d] : b \in Nat
    BY DEF TypeOK, Ids
  <2>5. MadeInv'
    <3>1. \A i \in Ids : Exists(i)' => i <= made'
      BY <2>1, <2>3 DEF MadeInv, Exists, Ids
    <3>2. \A d \in Clients : nid'[d] <= made'
      BY <2>1, <2>2, <2>4 DEF MadeInv
    <3>3. \A d \in Clients : \A b \in olds'[d] : b <= made'
      BY <2>1, <2>2, <2>4 DEF MadeInv
    <3> QED BY <3>1, <3>2, <3>3 DEF MadeInv
  <2>6. CallInv'
    <3>1. \A b \in olds[c] : b < made + 1
      BY <2>1, <2>4 DEF MadeInv
    <3> QED BY <2>2, <3>1 DEF CallInv
  <2> QED BY <2>5, <2>6
<1>5. ASSUME NEW c \in Clients, NEW b \in Ids, Supersede(c, b)
      PROVE  MadeInv' /\ CallInv'
  <2>1. /\ pc[c] = "supersede" /\ left'[c] = left[c] \ {b}
        /\ \A d \in Clients \ {c} : left'[d] = left[d]
        /\ pc' = pc /\ olds' = olds /\ nid' = nid /\ want' = want
        /\ text' = text /\ made' = made
    BY <1>5 DEF TypeOK, Supersede, calls
  <2>2. MadeInv'
    BY <2>1 DEF MadeInv, Exists
  <2>3. CallInv'
    BY <2>1 DEF CallInv
  <2> QED BY <2>2, <2>3
<1>6. ASSUME NEW i \in Ids, Forget(i) PROVE MadeInv' /\ CallInv'
  <2>1. \A j \in Ids : Exists(j)' => Exists(j)
    BY <1>6 DEF TypeOK, Forget, Exists
  <2> QED BY <1>6, <2>1 DEF Forget, MadeInv, CallInv, calls
<1>7. ASSUME NEW i \in Ids, SoftForget(i) \/ Restore(i)
      PROVE  MadeInv' /\ CallInv'
  BY <1>7 DEF SoftForget, Restore, SetStatus, MadeInv, CallInv, calls, Exists
<1>8. CASE Age
  BY <1>8 DEF Age, MadeInv, CallInv, calls, Exists
<1>9. CASE DecayBatch
  BY <1>9 DEF DecayBatch, MadeInv, CallInv, calls, Exists
<1>10. CASE UNCHANGED vars
  BY <1>10 DEF vars, MadeInv, CallInv, Exists
<1> QED
  BY <1>1, <1>2, <1>3, <1>4, <1>5, <1>6, <1>7, <1>8, <1>9, <1>10 DEF Next

-----------------------------------------------------------------------------
(* The graph of SUPERSEDES.                                                *)

\* What an upsert leaves alone: every node that is there.
LEMMA UpsertKeeps ==
  ASSUME NEW c \in Clients, TypeOK, MadeInv, Upsert(c)
  PROVE  /\ \A i \in Ids : Exists(i) =>
              /\ i # made + 1 /\ Exists(i)'
              /\ text'[i] = text[i] /\ status'[i] = status[i]
         /\ status'[made + 1] = "active" /\ made + 1 \in Ids
         /\ \A i \in Ids : i # made + 1 => text'[i] = text[i]
<1>1. made \in Nat /\ made + 1 \in Ids
  BY MemoryAssumption DEF TypeOK, Upsert, Ids
<1>2. \A i \in Ids : Exists(i) => i # made + 1
  BY <1>1 DEF MadeInv, Ids
<1>3. /\ \A i \in Ids : i # made + 1 => text'[i] = text[i]
      /\ \A i \in Ids : i # made + 1 => status'[i] = status[i]
      /\ status'[made + 1] = "active"
  BY <1>1 DEF TypeOK, Upsert
<1> QED BY <1>1, <1>2, <1>3 DEF Exists

\* A step that takes nothing out of the graph and puts nothing that is
\* superseded back into recall keeps the links.
LEMMA EdgeKept ==
  ASSUME EdgeInv, edges' = edges,
         \A i \in Ids : Exists(i) => Exists(i)',
         \A b \in Ids : Exists(b) /\ b \notin Recallable /\ Replaced(b)
                            => b \notin Recallable'
  PROVE  EdgeInv'
  BY DEF EdgeInv, Replaced

\* Every step keeps the links, if nobody restores what has been replaced.
LEMMA EdgeStep ==
  ASSUME ~RestoreReplaced, TypeOK, MadeInv, CallInv, EdgeInv, [Next]_vars
  PROVE  EdgeInv'
<1>1. ASSUME NEW c \in Clients, NEW t \in Texts, NEW S \in SUBSET Ids,
             Call(c, t, S)
      PROVE  EdgeInv'
  BY <1>1, EdgeKept DEF Call, nodes, Exists, Recallable
<1>2. ASSUME NEW c \in Clients,
             FindNone(c) \/ FindDup(c) \/ Touch(c) \/ Answer(c) \/ Abort(c)
      PROVE  EdgeInv'
  BY <1>2, EdgeKept
     DEF FindNone, FindDup, Touch, Answer, Abort, nodes, Exists, Recallable
<1>3. ASSUME NEW c \in Clients, Upsert(c) PROVE EdgeInv'
  <2>1. edges' = edges
    BY <1>3 DEF Upsert
  <2>2. \A i \in Ids : Exists(i) => Exists(i)'
    BY <1>3, UpsertKeeps
  <2>3. \A b \in Ids : Exists(b) /\ b \notin Recallable => b \notin Recallable'
    BY <1>3, UpsertKeeps DEF Recallable, Exists
  <2> QED BY <2>1, <2>2, <2>3, EdgeKept
<1>4. ASSUME NEW c \in Clients, NEW b \in Ids, Supersede(c, b) PROVE EdgeInv'
  <2>1. \A i \in Ids : Exists(i)' <=> Exists(i)
    BY <1>4 DEF Supersede, Exists
  <2>2. CASE Exists(nid[c]) /\ Exists(b)
    <3>1. edges' = edges \cup {<<nid[c], b>>}
      BY <1>4, <2>2 DEF Supersede
    <3>2. Recallable' = Recallable \ {b}
      BY <1>4, <2>2 DEF TypeOK, Supersede, Recallable
    <3>3. nid[c] > b
      BY <1>4, <2>2 DEF Supersede, CallInv, TypeOK, Ids, Exists
    <3> QED BY <2>1, <2>2, <3>1, <3>2, <3>3 DEF EdgeInv
  <2>3. CASE ~(Exists(nid[c]) /\ Exists(b))
    <3>1. edges' = edges /\ Recallable' = Recallable
      BY <1>4, <2>3 DEF Supersede, Recallable
    <3> QED BY <2>1, <3>1, EdgeKept
  <2> QED BY <2>2, <2>3
<1>5. ASSUME NEW i \in Ids, Forget(i) PROVE EdgeInv'
  <2>1. \A j \in Ids : j # i => (Exists(j)' <=> Exists(j))
    BY <1>5 DEF TypeOK, Forget, Exists
  <2>2. \A j \in Ids : j # i => (j \in Recallable' <=> j \in Recallable)
    BY <1>5 DEF TypeOK, Forget, Recallable
  <2>3. \A a, b \in Ids : <<a, b>> \in edges' =>
            <<a, b>> \in edges /\ a # i /\ b # i
    BY <1>5 DEF Forget
  <2> QED BY <2>1, <2>2, <2>3 DEF EdgeInv
<1>6. ASSUME NEW i \in Ids, SoftForget(i) PROVE EdgeInv'
  <2>1. edges' = edges /\ \A j \in Ids : Exists(j)' <=> Exists(j)
    BY <1>6 DEF SoftForget, SetStatus, Exists
  <2>2. Recallable' = Recallable \ {i}
    BY <1>6 DEF TypeOK, SoftForget, SetStatus, Recallable
  <2> QED BY <2>1, <2>2, EdgeKept
<1>7. ASSUME NEW i \in Ids, Restore(i) PROVE EdgeInv'
  <2>1. edges' = edges /\ \A j \in Ids : Exists(j)' <=> Exists(j)
    BY <1>7 DEF Restore, SetStatus, Exists
  <2>2. ~Replaced(i) /\ \A j \in Recallable' : j = i \/ j \in Recallable
    BY <1>7 DEF TypeOK, Restore, SetStatus, Recallable
  <2> QED BY <2>1, <2>2, EdgeKept
<1>8. CASE Age \/ UNCHANGED vars
  BY <1>8, EdgeKept DEF Age, vars, Exists, Recallable
<1>9. CASE DecayBatch
  <2>1. edges' = edges /\ \A j \in Ids : Exists(j)' <=> Exists(j)
    BY <1>9 DEF DecayBatch, Exists
  <2>2. Recallable' \subseteq Recallable
    BY <1>9 DEF DecayBatch, Recallable
  <2> QED BY <2>1, <2>2, EdgeKept
<1> QED
  BY <1>1, <1>2, <1>3, <1>4, <1>5, <1>6, <1>7, <1>8, <1>9 DEF Next

\* Every step keeps superseded nodes replaced.
LEMMA ReplacedStep ==
  ASSUME TypeOK, MadeInv, CallInv, SupersededIsReplaced, [Next]_vars
  PROVE  SupersededIsReplaced'
<1>1. ASSUME edges' = edges, orphaned' = orphaned,
             \A i \in Ids : Exists(i) => Exists(i)',
             \A i \in Ids : Exists(i)' /\ status'[i] = "superseded"
                                => Exists(i) /\ status[i] = "superseded"
      PROVE  SupersededIsReplaced'
  BY <1>1 DEF SupersededIsReplaced
<1>2. ASSUME NEW c \in Clients, NEW t \in Texts, NEW S \in SUBSET Ids,
             Call(c, t, S)
      PROVE  SupersededIsReplaced'
  BY <1>2, <1>1 DEF Call, nodes, Exists
<1>3. ASSUME NEW c \in Clients,
             FindNone(c) \/ FindDup(c) \/ Touch(c) \/ Answer(c) \/ Abort(c)
      PROVE  SupersededIsReplaced'
  BY <1>3, <1>1 DEF FindNone, FindDup, Touch, Answer, Abort, nodes, Exists
<1>4. ASSUME NEW c \in Clients, Upsert(c) PROVE SupersededIsReplaced'
  <2>1. edges' = edges /\ orphaned' = orphaned
    BY <1>4 DEF Upsert
  <2>2. \A i \in Ids : Exists(i) => Exists(i)'
    BY <1>4, UpsertKeeps
  <2>3. \A i \in Ids : Exists(i)' /\ status'[i] = "superseded" => Exists(i)
    BY <1>4, UpsertKeeps DEF Exists
  <2>4. \A i \in Ids : Exists(i) /\ status'[i] = "superseded"
                          => status[i] = "superseded"
    BY <1>4, UpsertKeeps
  <2> QED BY <2>1, <2>2, <2>3, <2>4, <1>1
<1>5. ASSUME NEW c \in Clients, NEW b \in Ids, Supersede(c, b)
      PROVE  SupersededIsReplaced'
  <2>1. \A i \in Ids : Exists(i)' <=> Exists(i)
    BY <1>5 DEF Supersede, Exists
  <2>2. CASE Exists(nid[c]) /\ Exists(b)
    <3>1. edges' = edges \cup {<<nid[c], b>>} /\ orphaned' = orphaned
      BY <1>5, <2>2 DEF Supersede
    <3>2. nid[c] > b /\ nid[c] \in Ids
      BY <1>5, <2>2 DEF Supersede, CallInv, TypeOK, Ids, Exists
    <3>3. \A i \in Ids : i # b => status'[i] = status[i]
      BY <1>5, <2>2 DEF TypeOK, Supersede
    <3> QED BY <2>1, <2>2, <3>1, <3>2, <3>3 DEF SupersededIsReplaced
  <2>3. CASE ~(Exists(nid[c]) /\ Exists(b))
    BY <1>5, <2>1, <2>3, <1>1 DEF Supersede
  <2> QED BY <2>2, <2>3
<1>6. ASSUME NEW i \in Ids, Forget(i) PROVE SupersededIsReplaced'
  <2>1. ~Exists(i)' /\ \A j \in Ids : j # i => (Exists(j)' <=> Exists(j))
    BY <1>6 DEF TypeOK, Forget, Exists
  <2>2. \A j \in Ids : j # i => status'[j] = status[j]
    BY <1>6 DEF TypeOK, Forget
  <2>3. \A j \in Ids : j # i /\ (j \in orphaned \/ <<i, j>> \in edges)
                          => j \in orphaned'
    BY <1>6 DEF Forget
  <2>4. \A a, b \in Ids : a # i /\ b # i /\ <<a, b>> \in edges
                            => <<a, b>> \in edges'
    BY <1>6 DEF Forget
  <2> QED BY <2>1, <2>2, <2>3, <2>4 DEF SupersededIsReplaced
<1>7. ASSUME NEW i \in Ids, SoftForget(i) \/ Restore(i)
      PROVE  SupersededIsReplaced'
  <2>1. \A j \in Ids : status'[j] = "superseded" => status[j] = "superseded"
    BY <1>7 DEF TypeOK, SoftForget, Restore, SetStatus
  <2> QED BY <1>7, <2>1, <1>1 DEF SoftForget, Restore, SetStatus, Exists
<1>8. CASE Age \/ UNCHANGED vars
  BY <1>8, <1>1 DEF Age, vars, Exists
<1>9. CASE DecayBatch
  <2>1. \A j \in Ids : status'[j] = "superseded" => status[j] = "superseded"
    BY <1>9 DEF DecayBatch
  <2> QED BY <1>9, <2>1, <1>1 DEF DecayBatch, Exists
<1> QED
  BY <1>2, <1>3, <1>4, <1>5, <1>6, <1>7, <1>8, <1>9 DEF Next

\* What a call that is over has worked off is nothing.
LEMMA AppliedReturn ==
  ASSUME NEW c \in Clients, TypeOK, AppliedInv, Return(c),
         text' = text, edges' = edges
  PROVE  AppliedInv'
<1>1. /\ olds'[c] = {}
      /\ \A d \in Clients \ {c} : /\ nid'[d] = nid[d] /\ olds'[d] = olds[d]
                                  /\ left'[d] = left[d]
  BY DEF TypeOK, Return
<1> QED BY <1>1 DEF AppliedInv, Exists

\* Every step keeps a call's node linked to what it has worked off.
LEMMA AppliedStep ==
  ASSUME TypeOK, MadeInv, CallInv, AppliedInv, [Next]_vars
  PROVE  AppliedInv'
<1>1. ASSUME NEW c \in Clients, NEW t \in Texts, NEW S \in SUBSET Ids,
             Call(c, t, S)
      PROVE  AppliedInv'
  <2>1. /\ olds'[c] = S /\ left'[c] = S
        /\ \A d \in Clients \ {c} : olds'[d] = olds[d] /\ left'[d] = left[d]
    BY <1>1 DEF TypeOK, Call
  <2> QED BY <1>1, <2>1 DEF Call, AppliedInv, nodes, Exists
<1>2. ASSUME NEW c \in Clients, FindNone(c) \/ FindDup(c) PROVE AppliedInv'
  <2>1. /\ left[c] = olds[c] /\ left' = left /\ olds' = olds
        /\ text' = text /\ edges' = edges
        /\ \A d \in Clients \ {c} : nid'[d] = nid[d]
    BY <1>2 DEF TypeOK, CallInv, FindNone, FindDup, nodes, calls
  <2> QED BY <2>1 DEF AppliedInv, Exists
<1>3. ASSUME NEW c \in Clients, Touch(c) \/ Answer(c) \/ Abort(c)
      PROVE  AppliedInv'
  BY <1>3, AppliedReturn DEF Touch, Answer, Abort, nodes
<1>4. ASSUME NEW c \in Clients, Upsert(c) PROVE AppliedInv'
  <2>1. /\ left[c] = olds[c] /\ left' = left /\ olds' = olds /\ edges' = edges
        /\ \A d \in Clients \ {c} : nid'[d] = nid[d]
    BY <1>4 DEF TypeOK, CallInv, Upsert
  <2>2. /\ \A i \in Ids : i <= made /\ Exists(i)' => Exists(i)
        /\ \A d \in Clients : nid[d] <= made
        /\ \A d \in Clients : \A b \in olds[d] : b <= made /\ b \in Ids
    <3>1. \A i \in Ids : i <= made => i # made + 1
      BY MemoryAssumption DEF TypeOK, Ids
    <3> QED BY <1>4, <3>1, UpsertKeeps DEF Exists, MadeInv, TypeOK
  <2>3. \A d \in Clients \ {c} : Exists(nid[d])' => Exists(nid[d])
    BY <2>1, <2>2 DEF Exists
  <2> QED BY <2>1, <2>2, <2>3 DEF AppliedInv, Exists
<1>5. ASSUME NEW c \in Clients, NEW b \in Ids, Supersede(c, b)
      PROVE  AppliedInv'
  <2>1. /\ left'[c] = left[c] \ {b} /\ olds' = olds /\ nid' = nid
        /\ text' = text
        /\ \A d \in Clients \ {c} : left'[d] = left[d]
    BY <1>5 DEF TypeOK, Supersede, calls
  <2>2. /\ edges \subseteq edges'
        /\ Exists(nid[c]) /\ Exists(b) => <<nid[c], b>> \in edges'
    BY <1>5 DEF Supersede
  <2> QED BY <2>1, <2>2 DEF AppliedInv, Exists
<1>6. ASSUME NEW i \in Ids, Forget(i) PROVE AppliedInv'
  <2>1. ~Exists(i)' /\ \A j \in Ids : j # i => (Exists(j)' <=> Exists(j))
    BY <1>6 DEF TypeOK, Forget, Exists
  <2>2. \A a, b \in Ids : a # i /\ b # i /\ <<a, b>> \in edges
                            => <<a, b>> \in edges'
    BY <1>6 DEF Forget
  <2>3. olds' = olds /\ left' = left /\ nid' = nid
    BY <1>6 DEF Forget, calls
  <2>4. \A j : Exists(j)' => j \in Ids /\ j # i
    BY <2>1 DEF Exists
  <2> QED BY <2>1, <2>2, <2>3, <2>4 DEF AppliedInv, Exists
<1>7. ASSUME NEW i \in Ids, SoftForget(i) \/ Restore(i) PROVE AppliedInv'
  BY <1>7 DEF SoftForget, Restore, SetStatus, calls, AppliedInv, Exists
<1>8. CASE Age \/ DecayBatch \/ UNCHANGED vars
  BY <1>8 DEF Age, DecayBatch, vars, calls, AppliedInv, Exists
<1> QED
  BY <1>1, <1>2, <1>3, <1>4, <1>5, <1>6, <1>7, <1>8 DEF Next

-----------------------------------------------------------------------------
(* Copies of a text.                                                       *)

\* The two sets that are counted are finite, and so are their parts.
LEMMA Countable ==
  ASSUME NEW t \in Texts
  PROVE  /\ IsFiniteSet(Copies(t)) /\ IsFiniteSet(Pending(t))
         /\ Cardinality(Copies(t)) \in Nat /\ Cardinality(Pending(t)) \in Nat
         /\ Cardinality(Clients) \in Nat
         /\ Cardinality(Pending(t)) <= Cardinality(Clients)
<1>1. IsFiniteSet(Ids)
  BY FS_Interval, MemoryAssumption DEF Ids
<1>2. Copies(t) \subseteq Ids /\ Pending(t) \subseteq Clients
  BY DEF Copies, Pending
<1> QED BY <1>1, <1>2, FS_Subset, FS_CardinalityType, MemoryAssumption

\* A step that neither copies a text nor is about to keeps the bound.
LEMMA CopiesKept ==
  ASSUME CopiesBounded, Dedupe, NEW t \in Texts \ {Blank},
         Copies(t)' \subseteq Copies(t), Pending(t)' \subseteq Pending(t)
  PROVE  (Cardinality(Copies(t)) + Cardinality(Pending(t))
            <= Cardinality(Clients))'
<1>1. /\ Cardinality(Copies(t)') <= Cardinality(Copies(t))
      /\ Cardinality(Pending(t)') <= Cardinality(Pending(t))
      /\ Cardinality(Copies(t)') \in Nat /\ Cardinality(Pending(t)') \in Nat
  BY Countable, FS_Subset, FS_CardinalityType
<1>2. Cardinality(Copies(t)) + Cardinality(Pending(t)) <= Cardinality(Clients)
  BY DEF CopiesBounded
<1> QED BY <1>1, <1>2, Countable

\* Every step keeps the number of copies below that of the clients.
LEMMA CopiesStep ==
  ASSUME TypeOK, MadeInv, CallInv, CopiesBounded, [Next]_vars
  PROVE  CopiesBounded'
<1> SUFFICES ASSUME Dedupe, NEW t \in Texts \ {Blank}
             PROVE  (Cardinality(Copies(t)) + Cardinality(Pending(t))
                       <= Cardinality(Clients))'
  BY DEF CopiesBounded
<1> USE MemoryAssumption
<1>1. ASSUME NEW c \in Clients, NEW u \in Texts, NEW S \in SUBSET Ids,
             Call(c, u, S)
      PROVE  Copies(t)' \subseteq Copies(t) /\ Pending(t)' \subseteq Pending(t)
  BY <1>1 DEF TypeOK, Call, Goto, nodes, Copies, Pending
<1>2. ASSUME NEW c \in Clients, FindNone(c)
      PROVE  (Cardinality(Copies(t)) + Cardinality(Pending(t))
                <= Cardinality(Clients))'
  <2>1. Copies(t)' = Copies(t)
    BY <1>2 DEF FindNone, nodes, Copies
  <2>2. CASE want[c] = t
    <3>1. Cardinality(Copies(t)') = 0
      BY <1>2, <2>1, <2>2, FS_EmptySet DEF FindNone
    <3>2. Pending(t)' \subseteq Clients
      BY DEF Pending
    <3>3. /\ Cardinality(Pending(t)') <= Cardinality(Clients)
          /\ Cardinality(Pending(t)') \in Nat /\ Cardinality(Clients) \in Nat
      BY <3>2, FS_Subset, FS_CardinalityType
    <3> QED BY <3>1, <3>3
  <2>3. CASE want[c] # t
    <3>1. Pending(t)' \subseteq Pending(t)
      BY <1>2, <2>3 DEF TypeOK, FindNone, Goto, calls, Pending
    <3> QED BY <2>1, <3>1, CopiesKept
  <2> QED BY <2>2, <2>3
<1>3. ASSUME NEW c \in Clients, FindDup(c) \/ Touch(c) \/ Answer(c) \/ Abort(c)
      PROVE  Copies(t)' \subseteq Copies(t) /\ Pending(t)' \subseteq Pending(t)
  BY <1>3 DEF TypeOK, FindDup, Touch, Answer, Abort, Return, Goto, nodes, Copies,
              Pending
<1>4. ASSUME NEW c \in Clients, Upsert(c)
      PROVE  (Cardinality(Copies(t)) + Cardinality(Pending(t))
                <= Cardinality(Clients))'
  <2>1. CASE want[c] = t
    <3>1. Copies(t)' = Copies(t) \cup {made + 1} /\ made + 1 \notin Copies(t)
      <4>1. /\ made + 1 \in Ids /\ text'[made + 1] = t
            /\ \A i \in Ids : i # made + 1 => text'[i] = text[i]
        BY <1>4, <2>1, UpsertKeeps DEF TypeOK, Upsert
      <4>2. made + 1 \notin Copies(t)
        BY <1>4, UpsertKeeps DEF Copies, Exists
      <4> QED BY <4>1, <4>2 DEF Copies
    <3>2. Pending(t)' = Pending(t) \ {c} /\ c \in Pending(t)
      BY <1>4, <2>1 DEF TypeOK, Upsert, Goto, Pending
    <3>3. Cardinality(Copies(t)') = Cardinality(Copies(t)) + 1
      BY <3>1, Countable, FS_AddElement
    <3>4. Cardinality(Pending(t)') = Cardinality(Pending(t)) - 1
      <4>1. Cardinality(Pending(t) \ {c}) = Cardinality(Pending(t)) - 1
        <5>1. IsFiniteSet(Pending(t)) /\ c \in Pending(t)
          BY <3>2, Countable
        <5> QED BY <5>1, FS_RemoveElement
      <4> QED BY <4>1, <3>2
    <3>5. Cardinality(Copies(t)) + Cardinality(Pending(t)) <= Cardinality(Clients)
      BY DEF CopiesBounded
    <3>6. Cardinality(Copies(t)) \in Nat /\ Cardinality(Pending(t)) \in Nat
      BY Countable, FS_CardinalityType
    <3> QED BY <3>3, <3>4, <3>5, <3>6
  <2>2. CASE want[c] # t
    <3>1. Copies(t)' \subseteq Copies(t)
      BY <1>4, <2>2 DEF TypeOK, Upsert, Copies
    <3>2. Pending(t)' \subseteq Pending(t)
      BY <1>4, <2>2 DEF TypeOK, Upsert, Goto, Pending
    <3> QED BY <3>1, <3>2, CopiesKept
  <2> QED BY <2>1, <2>2
<1>5. ASSUME NEW c \in Clients, NEW b \in Ids, Supersede(c, b)
      PROVE  Copies(t)' \subseteq Copies(t) /\ Pending(t)' \subseteq Pending(t)
  BY <1>5 DEF Supersede, calls, Copies, Pending
<1>6. ASSUME NEW i \in Ids, Forget(i) \/ SoftForget(i) \/ Restore(i)
      PROVE  Copies(t)' \subseteq Copies(t) /\ Pending(t)' \subseteq Pending(t)
  BY <1>6 DEF TypeOK, Forget, SoftForget, Restore, SetStatus, calls, Copies, Pending
<1>7. CASE Age \/ DecayBatch \/ UNCHANGED vars
  <2>1. Copies(t)' \subseteq Copies(t) /\ Pending(t)' \subseteq Pending(t)
    BY <1>7 DEF Age, DecayBatch, vars, calls, Copies, Pending
  <2> QED BY <2>1, CopiesKept
<1> QED
  BY <1>1, <1>2, <1>3, <1>4, <1>5, <1>6, <1>7, CopiesKept DEF Next

-----------------------------------------------------------------------------
(* The theorems.                                                           *)

\* The invariants that hold whatever is restored.
LEMMA AllCalls ==
  Spec => [](TypeOK /\ MadeInv /\ CallInv /\ SupersededIsReplaced /\ AppliedInv)
<1> DEFINE Inv == TypeOK /\ MadeInv /\ CallInv /\ SupersededIsReplaced /\ AppliedInv
<1>1. Init => Inv
  <2>1. Init => SupersededIsReplaced /\ AppliedInv
    BY DEF Init, SupersededIsReplaced, AppliedInv, Exists
  <2> QED BY <2>1, InitType, InitCalls
<1>2. Inv /\ [Next]_vars => Inv'
  BY TypeStep, CallsStep, ReplacedStep, AppliedStep
<1> QED BY <1>1, <1>2, PTL DEF Spec

\* No observation is superseded without a younger one having replaced it, for
\* any number of clients and nodes, wherever calls die and whatever vanishes.
THEOREM SupersededIsReplacedHolds == Spec => []SupersededIsReplaced
  BY AllCalls, PTL

\* Links lead to nodes out of recall, if nobody restores what was replaced.
LEMMA Links == ASSUME ~RestoreReplaced PROVE Spec => []EdgeInv
<1>1. Init => EdgeInv
  BY DEF Init, EdgeInv
<1>2. TypeOK /\ MadeInv /\ CallInv /\ EdgeInv /\ [Next]_vars => EdgeInv'
  BY EdgeStep
<1> QED BY <1>1, <1>2, AllCalls, PTL DEF Spec

\* A corrected fact never co-surfaces with the stale one, if nobody restores
\* what was replaced.
THEOREM NoCoSurfacingHolds == ASSUME ~RestoreReplaced PROVE Spec => []NoCoSurfacing
<1>1. TypeOK /\ EdgeInv => NoCoSurfacing
  BY DEF TypeOK, EdgeInv, NoCoSurfacing
<1> QED BY <1>1, AllCalls, Links, PTL

\* A call that returns with a new node has taken all it was to replace out of
\* recall, if nobody restores what was replaced.
THEOREM AppliedInFullHolds == ASSUME ~RestoreReplaced PROVE Spec => AppliedInFull
<1>1. ASSUME TypeOK, EdgeInv, AppliedInv,
             NEW c \in Clients, Answer(c), Exists(nid[c])
      PROVE  olds[c] \cap Recallable = {}
  <2>1. \A b \in olds[c] : Exists(b) => <<nid[c], b>> \in edges
    BY <1>1 DEF Answer, AppliedInv
  <2> QED BY <1>1, <2>1 DEF EdgeInv, Recallable, Exists
<1>2. TypeOK /\ EdgeInv /\ AppliedInv /\ [Next]_vars =>
        [\A c \in Clients :
            Answer(c) /\ Exists(nid[c]) => olds[c] \cap Recallable = {}]_vars
  BY <1>1
<1> QED BY <1>2, AllCalls, Links, PTL DEF Spec, AppliedInFull

\* With dedupe, a text that is not blank never has more copies than there are
\* clients, for any number of calls, aborts, replacements and removals.
THEOREM CopiesBoundedHolds == Spec => []CopiesBounded
<1>1. Init => CopiesBounded
  <2> SUFFICES ASSUME Init, NEW t \in Texts
               PROVE  Cardinality(Copies(t)) + Cardinality(Pending(t))
                        <= Cardinality(Clients)
    BY DEF CopiesBounded
  <2>1. Copies(t) = {} /\ Pending(t) = {}
    BY MemoryAssumption DEF Init, Copies, Pending
  <2> QED BY <2>1, FS_EmptySet, Countable
<1>2. TypeOK /\ MadeInv /\ CallInv /\ CopiesBounded /\ [Next]_vars
        => CopiesBounded'
  BY CopiesStep
<1> QED BY <1>1, <1>2, AllCalls, PTL DEF Spec

-----------------------------------------------------------------------------
(* The memory implements Corrections.                                      *)

\* A step that leaves texts and statuses alone leaves what is there and what
\* is recalled.
LEMMA CorrectKept ==
  ASSUME text' = text, status' = status
  PROVE  There' = There /\ Recallable' = Recallable
  BY DEF There, Exists, Recallable

\* Every step is one of Corrections or leaves no trace in it, if nobody
\* restores what was replaced.
LEMMA CorrectStep ==
  ASSUME ~RestoreReplaced, TypeOK, MadeInv, CallInv, [Next]_vars
  PROVE  [Correcting!Next]_<<There, Recallable, edges>>
<1>1. ASSUME NEW c \in Clients, NEW t \in Texts, NEW S \in SUBSET Ids,
             Call(c, t, S)
      PROVE  UNCHANGED <<There, Recallable, edges>>
  BY <1>1, CorrectKept DEF Call, nodes
<1>2. ASSUME NEW c \in Clients,
             FindNone(c) \/ FindDup(c) \/ Touch(c) \/ Answer(c) \/ Abort(c)
      PROVE  UNCHANGED <<There, Recallable, edges>>
  BY <1>2, CorrectKept DEF FindNone, FindDup, Touch, Answer, Abort, nodes
<1>3. ASSUME NEW c \in Clients, Upsert(c) PROVE Correcting!Next
  <2>1. made + 1 \in Ids /\ \A j \in There : j < made + 1
    <3>1. made \in Nat /\ made + 1 \in Ids
      BY <1>3, UpsertKeeps, MemoryAssumption DEF TypeOK
    <3>2. \A j \in There : j \in Nat /\ j <= made
      BY MemoryAssumption DEF MadeInv, There, Ids
    <3> QED BY <3>1, <3>2
  <2>2. want[c] \in Texts /\ want[c] # NoText
    BY <1>3, MemoryAssumption DEF Upsert, CallInv
  <2>3. text'[made + 1] # NoText /\ status'[made + 1] = "active"
    BY <1>3, <2>1, <2>2, UpsertKeeps DEF TypeOK, Upsert
  <2>4. \A i \in Ids : i # made + 1 =>
            text'[i] = text[i] /\ status'[i] = status[i]
    BY <1>3 DEF TypeOK, Upsert
  <2>5. There' = There \cup {made + 1}
    BY <2>1, <2>3, <2>4 DEF There, Exists
  <2>6. Recallable' = Recallable \cup {made + 1}
    BY <2>1, <2>3, <2>4 DEF Recallable
  <2>7. Correcting!Tell(made + 1)
    BY <1>3, <2>1, <2>5, <2>6 DEF Upsert, Correcting!Tell
  <2> QED BY <2>1, <2>7 DEF Correcting!Next
<1>4. ASSUME NEW c \in Clients, NEW b \in Ids, Supersede(c, b)
      PROVE  [Correcting!Next]_<<There, Recallable, edges>>
  <2>1. CASE Exists(nid[c]) /\ Exists(b)
    <3>1. {nid[c], b} \subseteq There /\ b < nid[c]
      BY <1>4, <2>1 DEF Supersede, CallInv, There, Exists
    <3>2. edges' = edges \cup {<<nid[c], b>>} /\ There' = There
      BY <1>4, <2>1 DEF Supersede, There, Exists
    <3>3. Recallable' = Recallable \ {b}
      BY <1>4, <2>1 DEF TypeOK, Supersede, Recallable
    <3>4. Correcting!Correct(nid[c], b)
      BY <3>1, <3>2, <3>3 DEF Correcting!Correct
    <3> QED BY <3>1, <3>4 DEF Correcting!Next, There
  <2>2. CASE ~(Exists(nid[c]) /\ Exists(b))
    BY <1>4, <2>2, CorrectKept DEF Supersede
  <2> QED BY <2>1, <2>2
<1>5. ASSUME NEW i \in Ids, Forget(i) PROVE Correcting!Next
  <2>1. There' = There \ {i} /\ i \in There
    BY <1>5 DEF TypeOK, Forget, There, Exists
  <2>2. Recallable' = Recallable \ {i}
    BY <1>5 DEF TypeOK, Forget, Recallable
  <2>3. Correcting!Forget(i)
    BY <1>5, <2>1, <2>2 DEF Forget, Correcting!Forget
  <2> QED BY <2>3 DEF Correcting!Next
<1>6. ASSUME NEW i \in Ids, Restore(i) PROVE Correcting!Next
  <2>1. There' = There /\ edges' = edges /\ i \in There
    BY <1>6 DEF Restore, SetStatus, There, Exists
  <2>2. Recallable' = Recallable \cup {i}
    BY <1>6 DEF TypeOK, Restore, SetStatus, Recallable, Exists
  <2>3. \A a \in There : <<a, i>> \notin edges
    BY <1>6 DEF Restore, Replaced, There
  <2>4. Correcting!Show(i)
    BY <2>1, <2>2, <2>3 DEF Correcting!Show
  <2> QED BY <2>4 DEF Correcting!Next
<1>7. ASSUME Recallable' \subseteq Recallable, text' = text, edges' = edges
      PROVE  Correcting!Next
  <2>1. There' = There
    BY <1>7 DEF There, Exists
  <2> QED BY <1>7, <2>1 DEF Correcting!Next, Correcting!Hide
<1>8. ASSUME NEW i \in Ids, SoftForget(i) PROVE Correcting!Next
  <2>1. Recallable' \subseteq Recallable
    BY <1>8 DEF TypeOK, SoftForget, SetStatus, Recallable
  <2> QED BY <1>7, <1>8, <2>1 DEF SoftForget, SetStatus
<1>9. CASE Age \/ UNCHANGED vars
  BY <1>9, CorrectKept DEF Age, vars
<1>10. CASE DecayBatch
  <2>1. Recallable' \subseteq Recallable
    BY <1>10 DEF DecayBatch, Recallable
  <2> QED BY <1>7, <1>10, <2>1 DEF DecayBatch
<1> QED
  BY <1>1, <1>2, <1>3, <1>4, <1>5, <1>6, <1>8, <1>9, <1>10 DEF Next

\* The memory implements Corrections for any clients, texts and nodes,
\* whichever calls overlap or die half way, if nobody restores what was
\* replaced.
THEOREM CorrectsHolds == ASSUME ~RestoreReplaced PROVE Spec => Corrects
<1>1. Init => Correcting!Init
  BY DEF Init, Correcting!Init, There, Exists, Recallable
<1>2. TypeOK /\ MadeInv /\ CallInv /\ [Next]_vars
        => [Correcting!Next]_<<There, Recallable, edges>>
  BY CorrectStep
<1> QED
  BY <1>1, <1>2, AllCalls, PTL DEF Spec, Corrects, Correcting!Spec, Correcting!vars

\* And that is all it takes: in a memory that corrects facts as Corrections
\* says, a corrected fact never co-surfaces with the stale one.
THEOREM CorrectingSuffices == Corrects => []NoCoSurfacing
<1> DEFINE Promised ==
      \A e \in edges : e \in There \X There /\ e[2] \notin Recallable
<1>1. Correcting!Init => Promised
  BY DEF Correcting!Init
<1>2. Promised /\ [Correcting!Next]_<<There, Recallable, edges>> => Promised'
  <2> SUFFICES ASSUME Promised, [Correcting!Next]_<<There, Recallable, edges>>,
                      NEW e \in edges'
               PROVE  e \in There' \X There' /\ e[2] \notin Recallable'
    OBVIOUS
  <2>1. CASE Correcting!Hide
    BY <2>1 DEF Correcting!Hide
  <2>2. ASSUME NEW i \in Ids, Correcting!Tell(i)
        PROVE  e \in There' \X There' /\ e[2] \notin Recallable'
    <3>1. i \notin There
      BY <2>2 DEF Correcting!Tell, Ids
    <3> QED BY <2>2, <3>1 DEF Correcting!Tell
  <2>3. ASSUME NEW i \in Ids, Correcting!Show(i)
        PROVE  e \in There' \X There' /\ e[2] \notin Recallable'
    <3>1. e \in edges /\ e = <<e[1], e[2]>> /\ e[1] \in There
      BY <2>3 DEF Correcting!Show
    <3>2. e[2] # i
      BY <2>3, <3>1 DEF Correcting!Show
    <3> QED BY <2>3, <3>1, <3>2 DEF Correcting!Show
  <2>4. ASSUME NEW i \in Ids, Correcting!Forget(i)
        PROVE  e \in There' \X There' /\ e[2] \notin Recallable'
    BY <2>4 DEF Correcting!Forget
  <2>5. ASSUME NEW a \in Ids, NEW b \in Ids, Correcting!Correct(a, b)
        PROVE  e \in There' \X There' /\ e[2] \notin Recallable'
    BY <2>5 DEF Correcting!Correct
  <2>6. CASE UNCHANGED <<There, Recallable, edges>>
    BY <2>6
  <2> QED
    BY <2>1, <2>2, <2>3, <2>4, <2>5, <2>6 DEF Correcting!Next
<1>3. Promised => NoCoSurfacing
  BY DEF NoCoSurfacing
<1> QED
  BY <1>1, <1>2, <1>3, PTL DEF Corrects, Correcting!Spec, Correcting!vars

=============================================================================
