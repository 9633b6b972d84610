-------------------------------- MODULE Follow --------------------------------
(***************************************************************************)
(* What an index promises that goes by recorded hashes ("Re-runs that find *)
(* unchanged hashes are no-ops", README), with no graph, no statements and *)
(* no ingests in it: each file has a content on disk, one the index gives  *)
(* answers from, and one recorded as indexed.  Contents are numbered as    *)
(* they appear, 0 for none.  Module Ingest implements this, whatever is    *)
(* aborted where; then a record never vouches for what is not indexed, and *)
(* neither it nor what is indexed under it goes back to an older content.  *)
(***************************************************************************)
EXTENDS Naturals

CONSTANT Files

VARIABLES disk, indexed, recorded

vars == <<disk, indexed, recorded>>

Init ==
    /\ disk \in [Files -> Nat]
    /\ indexed = [f \in Files |-> 0] /\ recorded = [f \in Files |-> 0]

\* The record says that f needs no more indexing.
Settled(f) == disk[f] # 0 /\ recorded[f] = disk[f]

\* Files are written, with contents that were never recorded, or deleted.
Edit ==
    /\ disk' \in [Files -> Nat]
    /\ \A f \in Files : disk'[f] # disk[f] => disk'[f] = 0 \/ disk'[f] > recorded[f]
    /\ UNCHANGED <<indexed, recorded>>

\* Files that are not settled are indexed, from a content no older than the
\* one recorded, or dropped, or lie half indexed for a while.
Index ==
    /\ indexed' \in [Files -> Nat]
    /\ \A f \in Files : indexed'[f] # indexed[f] =>
          ~Settled(f) /\ (indexed'[f] = 0 \/ indexed'[f] >= recorded[f])
    /\ UNCHANGED <<disk, recorded>>

\* What is recorded is newer than what was, and indexed.
Record ==
    /\ recorded' \in [Files -> Nat]
    /\ \A f \in Files : recorded'[f] # recorded[f] =>
          recorded'[f] = indexed[f] /\ indexed[f] > recorded[f]
    /\ UNCHANGED <<disk, indexed>>

Next == Edit \/ Index \/ Record

Spec == Init /\ [][Next]_vars

=============================================================================
