---------------------------------- MODULE Memory ----------------------------------
(***************************************************************************)
(* The life of an observation in the memory layer of one repository:       *)
(* features/memory/store.py (upsert_observation with its exact-text dedupe *)
(* and its list of superseded observations, forget, soft_forget, restore,  *)
(* recall) and features/memory/decay.py (run_decay).                       *)
(*                                                                         *)
(* upsert_observation is several statements in one session, each its own   *)
(* transaction: look for a duplicate, touch it and answer, or else create  *)
(* a node and then supersede the old ones one at a time.  Several clients  *)
(* (agents, the command line) do this at once, each may die in between,    *)
(* and what a client wants superseded is what it recalled some time ago.   *)
(*                                                                         *)
(* A Decision_v2 is created and supersedes in the same way without dedupe  *)
(* (Dedupe = FALSE) and never decays.                                      *)
(***************************************************************************)
EXTENDS Naturals, FiniteSets

CONSTANTS
    Texts,            \* what may be said
    Blank,            \* the text that is nothing but blanks
    Clients,          \* callers of upsert_observation
    Dedupe,           \* the argument of that name
    RestoreReplaced,  \* TRUE: an observation that another one supersedes may
                      \* be restored
    NoText,           \* "no node"
    MaxIds,           \* bound on the nodes created
    MaxOld,           \* bound on the nodes that grow old
    Batch             \* AIFORGE_DECAY_BATCH

ASSUME MemoryAssumption ==
    /\ NoText \notin Texts
    /\ IsFiniteSet(Clients)
    /\ {Dedupe, RestoreReplaced} \subseteq BOOLEAN
    /\ {MaxIds, MaxOld} \subseteq Nat /\ Batch \in Nat \ {0}

\* Nodes by order of creation; a node deleted leaves its number behind.
Ids == 1..MaxIds

VARIABLES
    text,      \* text[i]: Observation_v2.text, NoText for no such node
    status,    \* status[i], a missing one counting as active
    reseen,    \* the nodes with seen_count > 1
    old,       \* the nodes up to this one were created longer ago than
               \* max_age_days
    edges,     \* SUPERSEDES
    made,      \* nodes created so far
    orphaned,  \* nodes whose superseding node has been forgotten
    pc,        \* pc[c]: where the call of c stands
    want,      \* want[c]: its text
    olds,      \* olds[c]: its argument supersedes
    left,      \* left[c]: those still to be superseded
    nid        \* nid[c]: the duplicate it has found or the node it has made

nodes == <<text, status, reseen, old, edges, made, orphaned>>
calls == <<want, olds, nid>>
vars == <<text, status, reseen, old, edges, made, orphaned, pc, want, olds,
          left, nid>>

Statuses == {"active", "superseded", "deleted", "archived"}
Positions == {"idle", "find", "touch", "upsert", "supersede"}

Exists(i) == i \in Ids /\ text[i] # NoText

\* _RECALL_OBSERVATION and the reranker: status missing or active.
Recallable == {i \in Ids : text[i] # NoText /\ status[i] = "active"}

Copies(t) == {i \in Ids : text[i] = t}

\* The calls that have found no copy of t and are about to make one.
Pending(t) == {c \in Clients : pc[c] = "upsert" /\ want[c] = t}

TypeOK ==
    /\ text \in [Ids -> Texts \cup {NoText}]
    /\ status \in [Ids -> Statuses]
    /\ reseen \subseteq Ids /\ orphaned \subseteq Ids
    /\ edges \subseteq Ids \X Ids
    /\ made \in 0..MaxIds /\ old \in 0..made
    /\ pc \in [Clients -> Positions]
    /\ want \in [Clients -> Texts \cup {NoText}]
    /\ olds \in [Clients -> SUBSET Ids]
    /\ left \in [Clients -> SUBSET Ids]
    /\ nid \in [Clients -> 0..MaxIds]

Init ==
    /\ text = [i \in Ids |-> NoText]
    /\ status = [i \in Ids |-> "active"]
    /\ made = 0 /\ old = 0 /\ reseen = {} /\ edges = {} /\ orphaned = {}
    /\ pc = [c \in Clients |-> "idle"]
    /\ want = [c \in Clients |-> NoText]
    /\ olds = [c \in Clients |-> {}]
    /\ left = [c \in Clients |-> {}]
    /\ nid = [c \in Clients |-> 0]

-----------------------------------------------------------------------------
(* upsert_observation.                                                     *)

Goto(c, p) == pc' = [pc EXCEPT ![c] = p]

\* A client has recalled what it is going to replace, and calls.  It gives its
\* node no id of its own: nobody in the repository does.
Call(c, t, S) ==
    /\ pc[c] = "idle"
    /\ S \subseteq Recallable
    /\ want' = [want EXCEPT ![c] = t]
    /\ olds' = [olds EXCEPT ![c] = S]
    /\ left' = [left EXCEPT ![c] = S]
    /\ Goto(c, IF Dedupe /\ t # Blank THEN "find" ELSE "upsert")
    /\ UNCHANGED <<nodes, nid>>

\* The call returns, or ends half way, and its local variables go with it.
Return(c) ==
    /\ Goto(c, "idle")
    /\ want' = [want EXCEPT ![c] = NoText]
    /\ olds' = [olds EXCEPT ![c] = {}]
    /\ left' = [left EXCEPT ![c] = {}]
    /\ nid' = [nid EXCEPT ![c] = 0]

(* Slips the properties are checked against: what the same code would do   *)
(* with one line of it wrong.  None of these is part of Next.              *)

\* Only what is recalled counts as a duplicate.
FindNoneRecalled(c) ==
    /\ pc[c] = "find"
    /\ Copies(want[c]) \cap Recallable = {}
    /\ Goto(c, "upsert")
    /\ UNCHANGED <<nodes, calls, left>>

\* A duplicate that is touched becomes active again.
TouchRevives(c) ==
    /\ pc[c] = "touch"
    /\ reseen' = IF Exists(nid[c]) THEN reseen \cup {nid[c]} ELSE reseen
    /\ status' = [status EXCEPT ![nid[c]] = "active"]
    /\ Return(c)
    /\ UNCHANGED <<text, old, edges, made, orphaned>>

\* The old node is superseded whether or not the new one is there.
SupersedeUnmatched(c, b) ==
    /\ pc[c] = "supersede"
    /\ b \in left[c]
    /\ left' = [left EXCEPT ![c] = @ \ {b}]
    /\ status' = IF Exists(b) THEN [status EXCEPT ![b] = "superseded"] ELSE status
    /\ edges' = IF Exists(nid[c]) /\ Exists(b) THEN edges \cup {<<nid[c], b>>}
                ELSE edges
    /\ UNCHANGED <<text, reseen, old, made, orphaned, pc, calls>>

\* The call returns from inside the loop.
SupersedeFirst(c, b) ==
    /\ pc[c] = "supersede"
    /\ b \in left[c]
    /\ left' = [left EXCEPT ![c] = {}]
    /\ \/ /\ Exists(nid[c]) /\ Exists(b)
          /\ edges' = edges \cup {<<nid[c], b>>}
          /\ status' = [status EXCEPT ![b] = "superseded"]
       \/ /\ ~(Exists(nid[c]) /\ Exists(b))
          /\ UNCHANGED <<edges, status>>
    /\ UNCHANGED <<text, reseen, old, made, orphaned, pc, calls>>

-----------------------------------------------------------------------------
(* upsert_observation, the steps.                                          *)

\* _FIND_DUP_OBSERVATION: nobody has said this.
FindNone(c) ==
    /\ pc[c] = "find"
    /\ Copies(want[c]) = {}
    /\ Goto(c, "upsert")
    /\ UNCHANGED <<nodes, calls, left>>

\* ... or the oldest node with the text, whatever its status.
FindDup(c) ==
    /\ pc[c] = "find"
    /\ \E i \in Copies(want[c]) :
          /\ \A j \in Copies(want[c]) : i <= j
          /\ nid' = [nid EXCEPT ![c] = i]
    /\ Goto(c, "touch")
    /\ UNCHANGED <<nodes, want, olds, left>>

\* _TOUCH_DUP_OBSERVATION, and the call returns: deduped.
Touch(c) ==
    /\ pc[c] = "touch"
    /\ reseen' = IF Exists(nid[c]) THEN reseen \cup {nid[c]} ELSE reseen
    /\ Return(c)
    /\ UNCHANGED <<text, status, old, edges, made, orphaned>>

\* _UPSERT_OBSERVATION.
Upsert(c) ==
    /\ pc[c] = "upsert"
    /\ made < MaxIds
    /\ made' = made + 1
    /\ text' = [text EXCEPT ![made + 1] = want[c]]
    /\ status' = [status EXCEPT ![made + 1] = "active"]
    /\ nid' = [nid EXCEPT ![c] = made + 1]
    /\ Goto(c, "supersede")
    /\ UNCHANGED <<reseen, old, edges, orphaned, want, olds, left>>

\* _SUPERSEDE_OBSERVATION for one of the old ones: nothing happens unless
\* both nodes are there.
Supersede(c, b) ==
    /\ pc[c] = "supersede"
    /\ b \in left[c]
    /\ left' = [left EXCEPT ![c] = @ \ {b}]
    /\ \/ /\ Exists(nid[c]) /\ Exists(b)
          /\ edges' = edges \cup {<<nid[c], b>>}
          /\ status' = [status EXCEPT ![b] = "superseded"]
       \/ /\ ~(Exists(nid[c]) /\ Exists(b))
          /\ UNCHANGED <<edges, status>>
    /\ UNCHANGED <<text, reseen, old, made, orphaned, pc, calls>>

\* The call returns: not deduped.
Answer(c) ==
    /\ pc[c] = "supersede"
    /\ left[c] = {}
    /\ Return(c)
    /\ UNCHANGED nodes

\* An exception, a lost connection, the end of the client.
Abort(c) ==
    /\ pc[c] # "idle"
    /\ Return(c)
    /\ UNCHANGED nodes

-----------------------------------------------------------------------------
(* Maintenance.                                                            *)

\* forget: DETACH DELETE.
Forget(i) ==
    /\ Exists(i)
    /\ text' = [text EXCEPT ![i] = NoText]
    /\ status' = [status EXCEPT ![i] = "active"]
    /\ reseen' = reseen \ {i}
    /\ edges' = {e \in edges : e[1] # i /\ e[2] # i}
    /\ orphaned' = (orphaned \cup {b \in Ids : <<i, b>> \in edges}) \ {i}
    /\ UNCHANGED <<made, old, pc, calls, left>>

SetStatus(i, s) ==
    /\ status' = [status EXCEPT ![i] = s]
    /\ UNCHANGED <<text, reseen, old, edges, made, orphaned, pc, calls,
                   left>>

SoftForget(i) == Exists(i) /\ SetStatus(i, "deleted")

\* The node that supersedes i is there.
Replaced(i) == \E a \in Ids : <<a, i>> \in edges

\* restore asks nothing about the node.  It is called to bring back what
\* soft_forget or decay has hidden; RestoreReplaced = FALSE says that nobody
\* calls it for a node that has been replaced.
Restore(i) ==
    /\ Exists(i)
    /\ status[i] \in {"deleted", "archived"}
    /\ RestoreReplaced \/ ~Replaced(i)
    /\ SetStatus(i, "active")

\* Time passes for the oldest node that is not old.
Age ==
    /\ old < made /\ old < MaxOld
    /\ old' = old + 1
    /\ UNCHANGED <<text, status, reseen, edges, made, orphaned, pc, calls,
                   left>>

-----------------------------------------------------------------------------
(* run_decay.                                                              *)

\* Active, emitted once, and not touched for long.  (A node touched is in
\* reseen for good, so last_seen_at adds nothing.)
Cold == {i \in Recallable : i <= old /\ i \notin reseen}

\* One transaction.  run_decay goes on until a batch is not full, and starts
\* whenever the scheduler or somebody asks for it.
DecayBatch ==
    \E S \in SUBSET Cold :
        /\ Cardinality(S) <= Batch
        /\ Cardinality(S) < Batch => S = Cold
        /\ status' = [i \in Ids |-> IF i \in S THEN "archived" ELSE status[i]]
        /\ UNCHANGED <<text, reseen, old, edges, made, orphaned, pc, calls, left>>

-----------------------------------------------------------------------------
Next ==
    \/ \E c \in Clients, t \in Texts, S \in SUBSET Ids : Call(c, t, S)
    \/ \E c \in Clients :
          \/ FindNone(c) \/ FindDup(c) \/ Touch(c) \/ Upsert(c)
          \/ (\E b \in Ids : Supersede(c, b)) \/ Answer(c) \/ Abort(c)
    \/ \E i \in Ids : Forget(i) \/ SoftForget(i) \/ Restore(i)
    \/ Age \/ DecayBatch

Spec == Init /\ [][Next]_vars

-----------------------------------------------------------------------------
(* Properties.                                                             *)

\* "a corrected fact stops co-surfacing with the stale one" (README): of two
\* observations one of which supersedes the other, at most one is recalled.
NoCoSurfacing ==
    \A e \in edges : ~(e[1] \in Recallable /\ e[2] \in Recallable)

\* Nothing is superseded into the void: a superseded observation has been
\* replaced by a younger one, which is there unless somebody has forgotten it;
\* calls that die and nodes that vanish under a call make no exception.
SupersededIsReplaced ==
    \A b \in Ids :
        Exists(b) /\ status[b] = "superseded" =>
            b \in orphaned \/ \E a \in Ids : a > b /\ Exists(a) /\ <<a, b>> \in edges

\* What dedupe is for ("3000 duplicate rows are not" acceptable): a text has
\* no more nodes than there are clients to race between looking and writing;
\* with one client, one, whatever was superseded, archived or hidden before.
\* A blank text is not looked for, and may have any number.
CopiesBounded ==
    Dedupe => \A t \in Texts \ {Blank} :
        Cardinality(Copies(t)) + Cardinality(Pending(t)) <= Cardinality(Clients)

\* A call that returns with a new node which is still there has taken all it
\* was to replace out of recall.
AppliedInFull ==
    [][\A c \in Clients :
          Answer(c) /\ Exists(nid[c]) => olds[c] \cap Recallable = {}]_vars

\* "last-write-wins" (README): the same of every call that returns, deduped or
\* not, of what it was to replace with another text.
LastWriteWins ==
    [][\A c \in Clients :
          (Touch(c) \/ Answer(c)) /\ Exists(nid[c]) =>
              \A i \in olds[c] \cap Recallable : text[i] = want[c]]_vars

-----------------------------------------------------------------------------
(* What the memory implements.                                             *)

\* Seen as facts that correct each other, the nodes there are, those that are
\* recalled and the links behave as module Corrections promises: what comes
\* into recall is new, or was hidden and has never been replaced by a node
\* that is still there; and a node is replaced only by a younger one, in the
\* step that takes it out of recall.
There == {i \in Ids : Exists(i)}

Correcting == INSTANCE Corrections
    WITH Facts <- Ids, there <- There, shown <- Recallable, over <- edges

Corrects == Correcting!Spec

-----------------------------------------------------------------------------
(* The inductive invariants behind the safety properties.                  *)

\* Nodes are numbered in order, and calls know only nodes made so far.
MadeInv ==
    /\ \A i \in Ids : Exists(i) => i <= made
    /\ \A c \in Clients : nid[c] <= made
    /\ \A c \in Clients : \A b \in olds[c] : b <= made

\* A call has a text and supersedes nothing before it has made a younger node.
CallInv ==
    \A c \in Clients :
        /\ left[c] \subseteq olds[c]
        /\ pc[c] # "idle" => want[c] \in Texts
        /\ pc[c] # "supersede" => left[c] = olds[c]
        /\ pc[c] = "supersede" => \A b \in olds[c] : b < nid[c]

\* SUPERSEDES leads from a node to an older one that is out of recall.
EdgeInv ==
    \A a, b \in Ids : <<a, b>> \in edges =>
        /\ Exists(a) /\ Exists(b) /\ a > b
        /\ b \notin Recallable

\* What a call has worked off is linked to its node, while both are there.
AppliedInv ==
    \A c \in Clients : \A b \in olds[c] \ left[c] :
        Exists(nid[c]) /\ Exists(b) => <<nid[c], b>> \in edges

=============================================================================
