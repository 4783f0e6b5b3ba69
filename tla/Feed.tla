-------------------------------- MODULE Feed --------------------------------
(***************************************************************************)
(* What incremental ingestion promises, with no jobs, pages, chunks or     *)
(* clock.  A frontier separates the records the pipeline will never look   *)
(* at again from those it still re-reads, and the frontier may pass a      *)
(* record only once the pipeline holds it, in raw or as a dead letter.     *)
(* Module Ingest implements this specification.                            *)
(***************************************************************************)
EXTENDS Integers

CONSTANT Record   \* pairs <<updated_at, reading_id>>

VARIABLES
  published,  \* records the upstream serves
  accounted,  \* records the pipeline holds
  frontier    \* lower bound of the next incremental read

vars == <<published, accounted, frontier>>

Init ==
  /\ published = {}
  /\ accounted = {}
  /\ frontier = 0

\* The upstream adds records, none of them behind the frontier.
Publish ==
  /\ published \subseteq published'
  /\ published' \subseteq Record
  /\ \A r \in published' \ published : r[1] >= frontier
  /\ UNCHANGED <<accounted, frontier>>

\* The pipeline takes hold of records that exist, for good.
Account ==
  /\ accounted \subseteq accounted'
  /\ accounted' \subseteq published
  /\ UNCHANGED <<published, frontier>>

\* The frontier moves anywhere, but over no record that is not held.
Move ==
  /\ frontier' \in Int
  /\ \A r \in published : r[1] < frontier' => r \in accounted
  /\ UNCHANGED <<published, accounted>>

Next == Publish \/ Account \/ Move

Spec == Init /\ [][Next]_vars
=============================================================================
