------------------------------ MODULE Corrections ------------------------------
(***************************************************************************)
(* What a memory promises in which facts are corrected ("a corrected fact  *)
(* stops co-surfacing with the stale one", README), with no statuses, no   *)
(* duplicates, no callers and no steps of theirs in it: facts are there,   *)
(* some of them are shown, and a fact may stand over the ones it corrects. *)
(* Facts are numbered as they are told.  Module Memory implements this,    *)
(* whichever calls overlap or die half way, as long as nobody asks for a   *)
(* corrected fact to be restored.                                          *)
(***************************************************************************)
EXTENDS Naturals

CONSTANT Facts  \* their numbers

VARIABLES there, shown, over

vars == <<there, shown, over>>

Init == there = {} /\ shown = {} /\ over = {}

\* A fact is told, younger than all that are there, and shown.
Tell(i) ==
    /\ \A j \in there : j < i
    /\ there' = there \cup {i} /\ shown' = shown \cup {i}
    /\ UNCHANGED over

\* A fact corrects an older one, which is hidden in the same step.
Correct(a, b) ==
    /\ {a, b} \subseteq there /\ b < a
    /\ over' = over \cup {<<a, b>>} /\ shown' = shown \ {b}
    /\ UNCHANGED there

\* Facts are hidden.
Hide == shown' \subseteq shown /\ UNCHANGED <<there, over>>

\* A fact is shown again, which nothing stands over.
Show(i) ==
    /\ i \in there /\ \A a \in there : <<a, i>> \notin over
    /\ shown' = shown \cup {i}
    /\ UNCHANGED <<there, over>>

\* A fact is gone, and so is what it stood for.
Forget(i) ==
    /\ i \in there
    /\ there' = there \ {i} /\ shown' = shown \ {i}
    /\ over' = {e \in over : e[1] # i /\ e[2] # i}

Next ==
    \/ Hide
    \/ \E i \in Facts : Tell(i) \/ Show(i) \/ Forget(i)
    \/ \E a, b \in Facts : Correct(a, b)

Spec == Init /\ [][Next]_vars

=============================================================================
