----------------------------- MODULE Promotion ------------------------------
(***************************************************************************)
(* Promotion of raw into core, with the foreign key and the join that      *)
(* order it: a meter needs its site, a reading needs its meter.            *)
(*                                                                         *)
(* Rows are landed under the batch id of the command that reads them:      *)
(* helios ingest, backfill and dlq replay land rows and promote nothing.   *)
(* Two kinds of job promote:                                               *)
(*   - a promoter promotes the whole of raw (helios promote);              *)
(*   - a runner lands rows and then promotes only its own batch (helios    *)
(*     run).                                                               *)
(* The reference sources and the readings are promoted by one transaction  *)
(* each, under READ COMMITTED: every statement reads a snapshot of its     *)
(* own, and what it writes meets whatever has been committed since.        *)
(*                                                                         *)
(* A row is <<entity, updated_at>>: a version of a site, a meter or a      *)
(* reading.  0 is the version of an entity that core does not hold.  The   *)
(* value of a reading in core is its register value times the multiplier   *)
(* of its meter, so core keeps the version of the meter it was computed    *)
(* with.                                                                   *)
(***************************************************************************)
EXTENDS Integers, FiniteSets

CONSTANTS
  Site, Meter, Reading,
  Parent,       \* the site of each meter, the meter of each reading
  Row,          \* every row the sources will ever deliver
  Promoter, Runner,
  Overlap,      \* two jobs may promote at once
  None, Old,    \* a row not landed; a row of no open run's batch
  MaxFailures   \* bound on the number of jobs that die

Entity == Site \cup Meter \cup Reading
Job == Promoter \cup Runner

ASSUME EntityAssumption ==
  /\ Site \cap Meter = {} /\ Site \cap Reading = {} /\ Meter \cap Reading = {}
  /\ Parent \in [Meter \cup Reading -> Site \cup Meter]
  /\ \A m \in Meter : Parent[m] \in Site
  /\ \A r \in Reading : Parent[r] \in Meter
  /\ Row \subseteq Entity \X (Nat \ {0})

ASSUME JobAssumption ==
  /\ Promoter \cap Runner = {}
  /\ Overlap \in BOOLEAN
  /\ None \notin Job /\ Old \notin Job /\ None # Old
  /\ MaxFailures \in Nat

VARIABLES
  raw,       \* raw.record: the batch each row landed in
  core,      \* the version of each entity that core holds
  factor,    \* the version of the meter each reading was multiplied with
  pc,        \* where each job is
  read,      \* what the statements of its open transaction have read
  started,   \* history: the rows in raw when a promoter began
  covered,   \* history: rows a full promotion was to bring into core
  failures   \* jobs that have died so far

vars == <<raw, core, factor, pc, read, started, covered, failures>>

Nothing == [rows |-> {}, meters |-> [m \in Meter |-> 0]]

Landed == {w \in Row : raw[w] # None}

\* The batch of a job that is over is no job's any more.
Closed(p) == [w \in Row |-> IF raw[w] = p THEN Old ELSE raw[w]]

-----------------------------------------------------------------------------
(* Ingestion.                                                              *)

\* A command that only ingests: a row that is in raw already keeps the batch it
\* first landed in.  Versions land in any order.
Deliver(w) ==
  /\ raw[w] = None
  /\ raw' = [raw EXCEPT ![w] = Old]
  /\ UNCHANGED <<core, factor, pc, read, started, covered, failures>>

BeginRun(p) ==
  /\ p \in Runner
  /\ pc[p] = "idle"
  /\ pc' = [pc EXCEPT ![p] = "ingest"]
  /\ UNCHANGED <<raw, core, factor, read, started, covered, failures>>

Land(p, w) ==
  /\ pc[p] = "ingest"
  /\ raw[w] = None
  /\ raw' = [raw EXCEPT ![w] = p]
  /\ UNCHANGED <<core, factor, pc, read, started, covered, failures>>

\* A source that fails does not keep the run from promoting: any part of the
\* rows may have landed.
EndIngest(p) ==
  /\ pc[p] = "ingest"
  /\ pc' = [pc EXCEPT ![p] = "reference"]
  /\ UNCHANGED <<raw, core, factor, read, started, covered, failures>>

-----------------------------------------------------------------------------
(* Promotion.                                                              *)

BeginPromote(p) ==
  /\ p \in Promoter
  /\ pc[p] = "idle"
  /\ pc' = [pc EXCEPT ![p] = "reference"]
  /\ started' = [started EXCEPT ![p] = Landed]
  /\ UNCHANGED <<raw, core, factor, read, covered, failures>>

ScopeOwnBatch(p) == {w \in Row : raw[w] = p}

\* batch_id, or the whole of raw when there is none.
Scope(p) == IF p \in Promoter THEN Landed ELSE {w \in Row : raw[w] = p}

\* DISTINCT ON: the freshest version of an entity among the rows in scope.
IsFreshest(rows, w) == w \in rows /\ \A v \in rows : v[1] = w[1] => v[2] <= w[2]

WinsUnguarded(rows, w) == IsFreshest(rows, w)

WinsIfNewer(rows, w) == IsFreshest(rows, w) /\ w[2] > core[w[1]]

\* ON CONFLICT DO UPDATE: only if it is not older than what core holds.
Wins(rows, w) == IsFreshest(rows, w) /\ w[2] >= core[w[1]]

\* The version each of the entities has after the upsert of these rows.
Upserted(entities, rows) ==
  [e \in Entity |->
     IF e \in entities /\ \E w \in rows : w[1] = e /\ Wins(rows, w)
     THEN (CHOOSE w \in rows : w[1] = e /\ Wins(rows, w))[2]
     ELSE core[e]]

\* Every meter that is promoted finds its site in core.
ReferencesHold(rows) ==
  \A w \in rows :
    w[1] \in Meter => Upserted(Site, rows)[Parent[w[1]]] # 0

Promoting == {p \in Job : pc[p] \in {"meters", "readings", "upsert"}}

\* The statement for the sites is the first of the transaction.
ReadSites(p) ==
  /\ pc[p] = "reference"
  /\ Overlap \/ Promoting = {}
  /\ read' = [read EXCEPT ![p] =
                [Nothing EXCEPT !.rows = {w \in Scope(p) : w[1] \in Site}]]
  /\ pc' = [pc EXCEPT ![p] = "meters"]
  /\ UNCHANGED <<raw, core, factor, started, covered, failures>>

\* The sites it read and the meters in raw by now.
References(p) == read[p].rows \cup {w \in Scope(p) : w[1] \in Meter}

\* The statement for the meters, and the commit.
PromoteReference(p) ==
  /\ pc[p] = "meters"
  /\ ReferencesHold(References(p))
  /\ core' = Upserted(Site \cup Meter, References(p))
  /\ pc' = [pc EXCEPT ![p] = "readings"]
  /\ read' = [read EXCEPT ![p] = Nothing]
  /\ UNCHANGED <<raw, factor, started, covered, failures>>

\* The end of a job, however it ends: its transaction is over and so is its
\* batch.
Leave(p) ==
  /\ pc' = [pc EXCEPT ![p] = "idle"]
  /\ raw' = Closed(p)
  /\ read' = [read EXCEPT ![p] = Nothing]
  /\ started' = [started EXCEPT ![p] = {}]

\* A foreign key that fails rolls the whole transaction back and ends the job.
RejectReference(p) ==
  /\ pc[p] = "meters"
  /\ ~ReferencesHold(References(p))
  /\ Leave(p)
  /\ UNCHANGED <<core, factor, covered, failures>>

WithoutJoin(rows) == {w \in rows : w[1] \in Reading}

\* The join with core.meter leaves out readings whose meter is unknown.
Joined(rows) == {w \in rows : w[1] \in Reading /\ core[Parent[w[1]]] # 0}

\* The statement for the readings joins raw with the meters of its snapshot.
ReadReadings(p) ==
  /\ pc[p] = "readings"
  /\ read' = [read EXCEPT ![p] = [rows   |-> Joined(Scope(p)),
                                 meters |-> [m \in Meter |-> core[m]]]]
  /\ pc' = [pc EXCEPT ![p] = "upsert"]
  /\ UNCHANGED <<raw, core, factor, started, covered, failures>>

\* It writes the products it computed over the readings core holds by then.
UpsertReadings(p) ==
  LET rows == read[p].rows
  IN  /\ pc[p] = "upsert"
      /\ core' = Upserted(Reading, rows)
      /\ factor' = [r \in Reading |->
                      IF \E w \in rows : w[1] = r /\ Wins(rows, w)
                      THEN read[p].meters[Parent[r]] ELSE factor[r]]
      /\ covered' = covered \cup started[p]
      /\ Leave(p)
      /\ UNCHANGED failures

\* A job dies between two transactions.
Fail(p) ==
  /\ pc[p] # "idle"
  /\ failures < MaxFailures
  /\ failures' = failures + 1
  /\ Leave(p)
  /\ UNCHANGED <<core, factor, covered>>

-----------------------------------------------------------------------------
(* The system.                                                             *)

Init ==
  /\ raw = [w \in Row |-> None]
  /\ core = [e \in Entity |-> 0]
  /\ factor = [r \in Reading |-> 0]
  /\ pc = [p \in Job |-> "idle"]
  /\ read = [p \in Job |-> Nothing]
  /\ started = [p \in Job |-> {}]
  /\ covered = {}
  /\ failures = 0

Promote(p) ==
  \/ ReadSites(p)
  \/ PromoteReference(p)
  \/ RejectReference(p)
  \/ ReadReadings(p)
  \/ UpsertReadings(p)

Next ==
  \/ \E w \in Row : Deliver(w)
  \/ \E p \in Job :
       \/ BeginRun(p)
       \/ \E w \in Row : Land(p, w)
       \/ EndIngest(p)
       \/ BeginPromote(p)
       \/ Promote(p)
       \/ Fail(p)

Spec == Init /\ [][Next]_vars

\* Every row is landed in the end, which is module Ingest's EventuallyAccounted;
\* the scheduler promotes the whole of raw again and again, and waits its turn;
\* a promotion that is not killed finishes.
FairSpec ==
  /\ Spec
  /\ \A w \in Row : WF_vars(Deliver(w))
  /\ \A p \in Promoter : WF_vars(BeginPromote(p)) /\ SF_vars(Promote(p))
  /\ \A p \in Runner : WF_vars(Promote(p))

-----------------------------------------------------------------------------
(* Properties.                                                             *)

\* Types, and what the foreign keys and the join keep: a meter in core has its
\* site there, a reading its meter.
TypeOK ==
  /\ raw \in [Row -> {None, Old} \cup Job]
  /\ core \in [Entity -> Nat]
  /\ factor \in [Reading -> Nat]
  /\ pc \in [Job -> {"idle", "ingest", "reference", "meters", "readings",
                   "upsert"}]
  /\ read \in [Job -> [rows : SUBSET Row, meters : [Meter -> Nat]]]
  /\ started \in [Job -> SUBSET Row]
  /\ covered \subseteq Row
  /\ failures \in Nat
  /\ \A e \in Meter \cup Reading : core[e] # 0 => core[Parent[e]] # 0

\* Replaying an old batch, or landing versions out of order, never rolls core
\* back to a superseded version.
NoRollback == [][\A e \in Entity : core'[e] >= core[e]]_vars

\* Core holds this row or a later version of its entity, and a reading was
\* multiplied with the multiplier its meter had by then, or a later one.
InCore(rows, w) ==
  LET parents == {v \in rows : v[1] = Parent[w[1]]}
  IN  \/ w[1] \notin Reading /\ core[w[1]] >= w[2]
      \/ w[1] \in Reading /\ parents = {}
      \/ /\ w[1] \in Reading
         /\ core[w[1]] >= w[2]
         /\ \A v \in parents : factor[w[1]] >= v[2]

\* A full promotion leaves nothing behind: whatever was in raw when it began
\* is in core, corrections and changed multipliers included, and stays there
\* whatever other jobs do meanwhile and later.
FullCovers == \A w \in covered : InCore(covered, w)

\* What full promotions owe core: the rows that were in raw when one of them
\* began, but for readings whose meter was not among those.
Owed ==
  {w \in covered : w[1] \in Reading => \E v \in covered : v[1] = Parent[w[1]]}

\* The abstract promise, with core as the layer over raw.
Promise == INSTANCE Layer WITH Key <- Entity, offered <- Landed, held <- core,
                               owed <- Owed

\* Promotion implements Layer: replays, corrections and batches promoted in any
\* order never roll core back to a superseded version, core holds no version
\* that did not land, and what a full promotion was to bring is in core or
\* overtaken from then on (promote_reference.sql:47, promote_readings.sql:52).
ImplementsLayer == Promise!Spec

\* The readings arrive in core whatever order reference data and telemetry come
\* in, even if a meter is landed long after its readings.
EventuallyInCore ==
  <>(\A w \in Row : w[1] \in Reading => core[w[1]] >= w[2])
=============================================================================
