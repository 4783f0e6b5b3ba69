----------------------------- MODULE DeadLetter -----------------------------
(***************************************************************************)
(* The dead-letter queue of one source: who parks records in it, how an    *)
(* entry is tried again, and when it leaves.                               *)
(*                                                                         *)
(* A job is one process of helios.  An ingest reads a window of the        *)
(* upstream and ends by writing its rejects to the queue; a replay lists   *)
(* pending entries, validates their payloads again, lands those that pass, *)
(* marks them resolved and writes the others back.  Each of these is a     *)
(* transaction of its own, and a process validates against the contract it *)
(* was started with.                                                       *)
(*                                                                         *)
(* A record is <<updated_at, reading>>: several records may be versions of *)
(* one reading.  The natural key is made of the raw text of the key        *)
(* fields, before they are validated, so a rejected record whose meter_id  *)
(* is empty has the key of every other such record of its instant: one key *)
(* may stand for several readings.                                         *)
(***************************************************************************)
EXTENDS Integers, FiniteSets, Sequences

CONSTANTS
  Record,       \* every record the upstream will ever hold
  KeyOf,        \* the natural key of each record
  NoKey,        \* the natural key that is empty: a record of a source with
                \* one key field (sites, meters, tariffs), and that one empty
  Contracts,    \* the records each deployed contract accepts, in order
  Job,          \* processes
  OneAtATime,   \* no two processes run at once
  MaxAttempts,  \* HELIOS_DLQ_MAX_ATTEMPTS
  Limit,        \* --limit of a replay
  MaxFailures   \* bound on the number of jobs that die

\* The names that records without a natural key are parked under.
Unkeyed == {"unkeyed"} \X Nat

ASSUME DeadLetterAssumption ==
  /\ \A r \in Record : r[1] \in Nat
  /\ \A r \in Record : IsFiniteSet({s \in Record : s[1] <= r[1]})
  /\ DOMAIN KeyOf = Record
  /\ \A r \in Record : KeyOf[r] \notin Unkeyed
  /\ Contracts \in Seq(SUBSET Record) /\ Contracts # <<>>
  /\ OneAtATime \in BOOLEAN
  /\ MaxAttempts \in Nat \ {0}
  /\ Limit \in Nat \ {0}
  /\ MaxFailures \in Nat

VARIABLES
  now,       \* the upstream's clock
  deployed,  \* index of the contract in force
  raw,       \* records in raw.record
  queue,     \* meta.dead_letter: natural key -> entry
  job,       \* the state of each process
  parked,    \* history: records whose rejection was committed
  failures   \* jobs that have died so far

vars == <<now, deployed, raw, queue, job, parked, failures>>

Environment == <<now, deployed>>
History == <<parked, failures>>

Key == {KeyOf[r] : r \in Record} \cup Unkeyed

Row == [key : Key, payload : Record]

\* An attempt count stops at MaxAttempts: only whether it has got there
\* matters.
Entry ==
  [payload : Record, attempts : 1 .. MaxAttempts,
   status : {"PENDING", "RESOLVED", "ABANDONED"}, first : Nat]

Idle == [pc |-> "idle", contract |-> {}, listed |-> <<>>, rows |-> <<>>,
         recovered |-> {}]

MayStart(p) ==
  /\ job[p].pc = "idle"
  /\ OneAtATime => \A q \in Job : job[q].pc = "idle"

Goes(p, state) == job' = [job EXCEPT ![p] = state]

-----------------------------------------------------------------------------
(* The environment.                                                        *)

\* Upstream records appear in the order of their updated_at.
Tick ==
  /\ \E r \in Record : r[1] > now
  /\ now' = now + 1
  /\ UNCHANGED <<deployed, raw, queue, job, History>>

\* A new version of helios with another contract.
Deploy ==
  /\ deployed < Len(Contracts)
  /\ deployed' = deployed + 1
  /\ UNCHANGED <<now, raw, queue, job, History>>

-----------------------------------------------------------------------------
(* The buffer and the queue.  Rows are indexed by naturals and are in the  *)
(* order of their indices.                                                 *)

\* DeadLetterBuffer.add: a record without a natural key is named by its place
\* in the buffer.
Buffered(records) ==
  [i \in DOMAIN records |->
     [key     |-> IF KeyOf[records[i]] = NoKey
                  THEN <<"unkeyed", Cardinality({j \in DOMAIN records : j < i})>>
                  ELSE KeyOf[records[i]],
      payload |-> records[i]]]

Keys(rows) == {rows[i].key : i \in DOMAIN rows}

RowsOf(rows, k) == {i \in DOMAIN rows : rows[i].key = k}

\* The last row of each key.
Latest(rows) ==
  {last \in [Keys(rows) -> DOMAIN rows] :
     \A k \in Keys(rows) :
       last[k] \in RowsOf(rows, k) /\ \A i \in RowsOf(rows, k) : i <= last[k]}

Earlier(k) == IF k \in DOMAIN queue THEN queue[k].attempts ELSE 0

AttemptsForgotten(rows, k) == IF Earlier(k) = 0 THEN 1 ELSE Earlier(k)

Attempts(rows, k) ==
  LET n == Earlier(k) + Cardinality(RowsOf(rows, k))
  IN  IF n <= MaxAttempts THEN n ELSE MaxAttempts

AbandonedOneLate(rows, k) ==
  IF Earlier(k) >= MaxAttempts THEN "ABANDONED" ELSE "PENDING"

OutOfRangeStatus(rows, k) ==
  IF Attempts(rows, k) >= MaxAttempts THEN "EXHAUSTED" ELSE "PENDING"

\* A row that is only inserted is pending whatever the budget.
StatusAfter(rows, k) ==
  IF /\ Attempts(rows, k) >= MaxAttempts
     /\ k \in DOMAIN queue \/ Cardinality(RowsOf(rows, k)) > 1
  THEN "ABANDONED" ELSE "PENDING"

UpsertFirstPayload(rows, last) ==
  [k \in DOMAIN queue \cup Keys(rows) |->
     IF k \notin Keys(rows) THEN queue[k]
     ELSE [payload  |-> IF k \in DOMAIN queue THEN queue[k].payload
                        ELSE rows[last[k]].payload,
           attempts |-> Attempts(rows, k),
           status   |-> StatusAfter(rows, k),
           first    |-> IF k \in DOMAIN queue THEN queue[k].first
                        ELSE Cardinality(DOMAIN queue)]]

\* INSERT ... ON CONFLICT DO UPDATE, row after row in one transaction: the
\* last row of a key leaves its payload and every row counts as an attempt.
Upsert(rows, last) ==
  [k \in DOMAIN queue \cup Keys(rows) |->
     IF k \notin Keys(rows) THEN queue[k]
     ELSE [payload  |-> rows[last[k]].payload,
           attempts |-> Attempts(rows, k),
           status   |-> StatusAfter(rows, k),
           first    |-> IF k \in DOMAIN queue THEN queue[k].first
                        ELSE Cardinality(DOMAIN queue)]]

\* The last transaction of an ingest and of a replay.
Flush(p) ==
  LET rows == job[p].rows
  IN  /\ job[p].pc = "flush"
      /\ \E last \in Latest(rows) : queue' = Upsert(rows, last)
      /\ parked' = parked \cup {rows[i].payload : i \in DOMAIN rows}
      /\ Goes(p, Idle)
      /\ UNCHANGED <<Environment, raw, failures>>

-----------------------------------------------------------------------------
(* An ingest run.                                                          *)

\* Records of one instant come in any order.
InFeedOrder(records) ==
  {s \in [1 .. Cardinality(records) -> records] :
     \A i, j \in DOMAIN s : i < j => s[i] # s[j] /\ s[i][1] <= s[j][1]}

\* A window of the upstream is read and validated; what passes is copied into
\* raw before the rejects are written.  Pages, chunks and the watermark are
\* module Ingest's: here any window may be read.
Ingest(p) ==
  /\ MayStart(p)
  /\ \E since \in 1 .. now :
       LET window == {r \in Record : since <= r[1] /\ r[1] <= now}
           passes == window \cap Contracts[deployed]
       IN  /\ raw' = raw \cup passes
           /\ \E rejects \in InFeedOrder(window \ passes) :
                Goes(p, [Idle EXCEPT !.pc = "flush",
                                     !.contract = Contracts[deployed],
                                     !.rows = Buffered(rejects)])
  /\ UNCHANGED <<Environment, queue, History>>

-----------------------------------------------------------------------------
(* A replay.                                                               *)

Pending == {k \in DOMAIN queue : queue[k].status = "PENDING"}

\* The order of list_pending: oldest failure first, ties anyhow.
OldestFirst(keys) ==
  {s \in [1 .. Cardinality(keys) -> keys] :
     \A i, j \in DOMAIN s : i < j =>
       s[i] # s[j] /\ queue[s[i]].first <= queue[s[j]].first}

\* list_pending; replay_dead_letters returns at once when nothing is pending.
List(p) ==
  /\ MayStart(p)
  /\ Pending # {}
  /\ \E order \in OldestFirst(Pending) :
       LET listed == {i \in DOMAIN order : i <= Limit}
       IN  Goes(p, [Idle EXCEPT
                      !.pc = "replay", !.contract = Contracts[deployed],
                      !.listed = [i \in listed |->
                                    [key     |-> order[i],
                                     payload |-> queue[order[i]].payload]]])
  /\ UNCHANGED <<Environment, raw, queue, History>>

ValidateResolvesAll(p) ==
  LET listed == job[p].listed
  IN  /\ job[p].pc = "replay"
      /\ raw' = raw \cup
           {listed[i].payload : i \in {j \in DOMAIN listed :
                                  listed[j].payload \in job[p].contract}}
      /\ Goes(p, [job[p] EXCEPT !.pc = "resolve",
                                !.recovered = Keys(listed)])
      /\ UNCHANGED <<Environment, queue, History>>

\* Every listed payload is validated again: what passes reaches raw when the
\* writer's context is left, what fails is buffered.
Validate(p) ==
  LET listed == job[p].listed
      passes == {i \in DOMAIN listed : listed[i].payload \in job[p].contract}
  IN  /\ job[p].pc = "replay"
      /\ raw' = raw \cup {listed[i].payload : i \in passes}
      /\ Goes(p, [job[p] EXCEPT
                    !.pc = "resolve",
                    !.rows = Buffered([i \in DOMAIN listed \ passes |->
                                         listed[i].payload]),
                    !.recovered = {listed[i].key : i \in passes}])
      /\ UNCHANGED <<Environment, queue, History>>

\* mark_resolved, by dlq_id: whatever the entry holds by now.
MarkResolved(p) ==
  /\ job[p].pc = "resolve"
  /\ queue' = [k \in DOMAIN queue |->
                 IF k \in job[p].recovered
                 THEN [queue[k] EXCEPT !.status = "RESOLVED"] ELSE queue[k]]
  /\ Goes(p, [job[p] EXCEPT !.pc = "flush"])
  /\ UNCHANGED <<Environment, raw, History>>

\* A process dies: its transactions stay, its memory is gone.
Fail(p) ==
  /\ job[p].pc # "idle"
  /\ failures < MaxFailures
  /\ failures' = failures + 1
  /\ Goes(p, Idle)
  /\ UNCHANGED <<Environment, raw, queue, parked>>

-----------------------------------------------------------------------------
(* The system.                                                             *)

Init ==
  /\ now = 0
  /\ deployed = 1
  /\ raw = {}
  /\ queue = [k \in {} |-> <<>>]
  /\ job = [p \in Job |-> Idle]
  /\ parked = {}
  /\ failures = 0

Step(p) == Validate(p) \/ MarkResolved(p) \/ Flush(p)

Next ==
  \/ Tick
  \/ Deploy
  \/ \E p \in Job : Ingest(p) \/ List(p) \/ Step(p) \/ Fail(p)

Spec == Init /\ [][Next]_vars

\* A process that is not killed finishes, and operators keep replaying while
\* something is pending.
FairSpec == Spec /\ \A p \in Job : WF_vars(Step(p)) /\ SF_vars(List(p))

-----------------------------------------------------------------------------
(* Properties.                                                             *)

RowsOK(rows) == DOMAIN rows \subseteq Nat /\ \A i \in DOMAIN rows : rows[i] \in Row

\* Types: what a job has listed and recovered is in the queue under a known key.
TypeOK ==
  /\ now \in Nat
  /\ deployed \in DOMAIN Contracts
  /\ raw \subseteq Record /\ parked \subseteq Record
  /\ DOMAIN queue \subseteq Key
  /\ \A k \in DOMAIN queue : queue[k] \in Entry
  /\ \A p \in Job :
       /\ job[p].pc \in {"idle", "replay", "resolve", "flush"}
       /\ job[p].contract \subseteq Record
       /\ RowsOK(job[p].listed) /\ RowsOK(job[p].rows)
       /\ job[p].recovered \subseteq DOMAIN queue
  /\ failures \in Nat

\* The entry of a key holds the latest of what was parked under it: a record
\* once parked has reached raw, or its own key has an entry, and that entry holds
\* a record of the key no older than it.  Where a key stands for one reading this
\* is the record or a later version of it.  Unkeyed records have no such entry.
Kept ==
  \A r \in parked :
    \/ r \in raw
    \/ KeyOf[r] = NoKey
    \/ /\ KeyOf[r] \in DOMAIN queue
       /\ KeyOf[queue[KeyOf[r]].payload] = KeyOf[r]
       /\ queue[KeyOf[r]].payload[1] >= r[1]

\* What the queue promises of a reading, and does not keep: a reading that was
\* parked has reached raw, or some entry holds that version or a later one.
\* (deadletter.py:12 "Every entry keeps the original payload")
ReadingKept ==
  \A r \in parked :
    \/ r \in raw
    \/ \E k \in DOMAIN queue :
         queue[k].payload[2] = r[2] /\ queue[k].payload[1] >= r[1]

\* RESOLVED is never a lie: what the entry holds is in raw, although landing
\* the payloads and marking the entries are two transactions.
ResolvedLanded ==
  \A k \in DOMAIN queue :
    queue[k].status = "RESOLVED" => queue[k].payload \in raw

\* The status follows the budget, whichever of ingest and replay spent it: an
\* abandoned entry has used it up, a pending one has not.  A budget of one
\* attempt is used up by an entry that is still pending.
BudgetDecides ==
  \A k \in DOMAIN queue :
    /\ queue[k].status = "ABANDONED" => queue[k].attempts = MaxAttempts
    /\ queue[k].status = "PENDING" => queue[k].attempts < MaxAttempts
                                      \/ MaxAttempts = 1

\* A poison record cannot loop forever: replays run out of entries.
PoisonEnds == <>[][\A p \in Job : ~List(p)]_vars
=============================================================================
