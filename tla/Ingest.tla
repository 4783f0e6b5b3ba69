------------------------------- MODULE Ingest -------------------------------
(***************************************************************************)
(* Incremental ingestion of one source into the raw layer.                 *)
(*                                                                         *)
(* A job is one call of ingest_source (src/helios/ingest/runner.py):       *)
(*                                                                         *)
(*   read the watermark -> walk the pages at or after the read position -> *)
(*   validate each record -> COPY the valid ones in chunks -> park the     *)
(*   rejected ones -> advance the watermark                                *)
(*                                                                         *)
(* Every step after the reads is a transaction of its own, so jobs of the  *)
(* scheduler and of an operator interleave between them, and a job that    *)
(* dies leaves exactly the transactions it had committed.                  *)
(*                                                                         *)
(* A record is the pair <<updated_at, reading_id>> that the upstream sorts *)
(* and paginates by; two versions of a reading are two records.  Instants  *)
(* are natural numbers and NULL, the instant of a watermark never set, is  *)
(* 0: below every instant, neutral for GREATEST, and as a lower bound the  *)
(* same as no bound.                                                       *)
(***************************************************************************)
EXTENDS Integers, FiniteSets

CONSTANTS
  Record,          \* every record the upstream will ever hold
  Valid,           \* the records that satisfy the source's contract
  Scheduler,       \* jobs the scheduler starts
  Operator,        \* jobs an operator starts from the command line
  BackfillFrom,    \* instants an operator may backfill from
  CarefulOperator, \* backfills start at or before the read position
  Grace,           \* late-arrival grace window
  Lag,             \* how long after its updated_at a record may appear
  RunSpan,         \* how long a job may take to read its pages
  PageSize,        \* records per page
  ChunkSize,       \* records per COPY chunk
  MaxNow,          \* bound on the upstream's clock
  MaxFailures      \* bound on the number of jobs that die

NULL == 0

Job == Scheduler \cup Operator

ASSUME RecordAssumption ==
  /\ Record \subseteq (Nat \ {0}) \X Nat
  /\ Valid \subseteq Record

ASSUME BoundAssumption ==
  /\ BackfillFrom \subseteq Nat
  /\ CarefulOperator \in BOOLEAN
  /\ Grace \in Nat
  /\ Lag \in Nat
  /\ RunSpan \in Nat
  /\ PageSize \in Nat \ {0}
  /\ ChunkSize \in Nat \ {0}
  /\ MaxNow \in Nat
  /\ MaxFailures \in Nat

VARIABLES
  now,        \* the upstream's clock
  visible,    \* records the upstream serves
  watermark,  \* meta.source_watermark.watermark_value
  raw,        \* records in raw.record
  parked,     \* records for which meta.dead_letter was written
  job,        \* the state of each ingest_source call
  failures    \* jobs that have died so far

vars == <<now, visible, watermark, raw, parked, job, failures>>

Max2(a, b) == IF a >= b THEN a ELSE b

\* The order the upstream sorts by: (updated_at, reading_id).
After(r, c) == r[1] > c[1] \/ (r[1] = c[1] /\ r[2] > c[2])

Idle ==
  [pc |-> "idle", since |-> NULL, start |-> 0, cursor |-> <<0, 0>>,
   page |-> {}, more |-> FALSE, buffer |-> {}, rejects |-> {}, seen |-> NULL]

JobState ==
  [pc      : {"idle", "fetch", "park", "advance"},
   since   : Int,             \* lower bound of the read
   start   : Nat,             \* when the watermark was read
   cursor  : Nat \X Nat,      \* next_cursor of the page read last
   page    : SUBSET Record,   \* records of that page not yet yielded
   more    : BOOLEAN,         \* another page has to be asked for
   buffer  : SUBSET Valid,    \* RawWriter's buffer
   rejects : SUBSET (Record \ Valid),  \* DeadLetterBuffer's rows
   seen    : Nat]             \* FetchResult.max_source_updated_at

-----------------------------------------------------------------------------
(* The upstream platform and its clock.                                    *)

\* A record becomes visible at its updated_at or up to Lag later: rows do not
\* become visible in the order they are stamped.
Publish(r) ==
  /\ r \notin visible
  /\ r[1] <= now
  /\ now <= r[1] + Lag
  /\ visible' = visible \cup {r}
  /\ UNCHANGED <<now, watermark, raw, parked, job, failures>>

\* A job reads its last page at most RunSpan after it read the watermark.
Tick ==
  /\ now < MaxNow
  /\ \A p \in Job : job[p].pc = "fetch" => now < job[p].start + RunSpan
  /\ now' = now + 1
  /\ UNCHANGED <<visible, watermark, raw, parked, job, failures>>

-----------------------------------------------------------------------------
(* One job.                                                                *)

ReadFromNoGrace(w) == w

\* Where the next read starts; NULL reads everything.
ReadFrom(w) == IF w = NULL THEN NULL ELSE w - Grace

Begin(p, from) ==
  /\ job[p].pc = "idle"
  /\ job' = [job EXCEPT ![p] =
               [Idle EXCEPT !.pc = "fetch", !.since = from,
                            !.start = now, !.more = TRUE]]
  /\ UNCHANGED <<now, visible, watermark, raw, parked, failures>>

\* A normal run reads from the watermark less the grace window.
Incremental(p) == Begin(p, ReadFrom(watermark))

\* ignore_watermark, and every run of a source that delivers snapshots.
Full(p) == Begin(p, NULL)

\* helios backfill --since t.
Backfill(p, t) ==
  /\ CarefulOperator => t <= ReadFrom(watermark)
  /\ Begin(p, t)

TieSkippingMatching(p) ==
  {r \in visible : r[1] >= job[p].since /\ r[1] > job[p].cursor[1]}

\* The records the upstream has left for the job: updated_since is inclusive,
\* the cursor is exclusive.
Matching(p) ==
  {r \in visible : r[1] >= job[p].since /\ After(r, job[p].cursor)}

AwaitsPage(p) ==
  /\ job[p].pc = "fetch"
  /\ job[p].page = {}
  /\ job[p].more

\* A full page with records behind it carries the cursor of its last record.
ReadPage(p) ==
  /\ AwaitsPage(p)
  /\ \E last \in Matching(p) :
       LET page == {r \in Matching(p) : ~After(r, last)}
       IN  /\ Cardinality(page) = PageSize
           /\ page # Matching(p)
           /\ job' = [job EXCEPT ![p] =
                        [@ EXCEPT !.page = page, !.cursor = last]]
  /\ UNCHANGED <<now, visible, watermark, raw, parked, failures>>

\* The last page has no next_cursor.
ReadLastPage(p) ==
  /\ AwaitsPage(p)
  /\ Cardinality(Matching(p)) <= PageSize
  /\ job' = [job EXCEPT ![p] =
               [@ EXCEPT !.page = Matching(p), !.more = FALSE]]
  /\ UNCHANGED <<now, visible, watermark, raw, parked, failures>>

IsNext(p, r) ==
  /\ job[p].pc = "fetch"
  /\ r \in job[p].page
  /\ \A s \in job[p].page : ~After(r, s)

\* The contract rejects the record: it is buffered for the dead-letter queue
\* and its updated_at is not observed.
Reject(p, r) ==
  /\ IsNext(p, r)
  /\ r \notin Valid
  /\ job' = [job EXCEPT ![p] =
               [@ EXCEPT !.page = job[p].page \ {r},
                         !.rejects = job[p].rejects \cup {r}]]
  /\ UNCHANGED <<now, visible, watermark, raw, parked, failures>>

AcceptUnvalidated(p, r) ==
  /\ IsNext(p, r)
  /\ job' = [job EXCEPT ![p] =
               [@ EXCEPT !.page = job[p].page \ {r},
                         !.seen = Max2(job[p].seen, r[1]),
                         !.buffer = job[p].buffer \cup {r}]]
  /\ UNCHANGED <<now, visible, watermark, raw, parked, failures>>

\* A valid record is observed and buffered; a chunk that fills up is written,
\* and commits on its own.
Accept(p, r) ==
  LET chunk == job[p].buffer \cup {r}
      full  == Cardinality(chunk) >= ChunkSize
  IN  /\ IsNext(p, r)
      /\ r \in Valid
      /\ raw' = IF full THEN raw \cup chunk ELSE raw
      /\ job' = [job EXCEPT ![p] =
                   [@ EXCEPT !.page = job[p].page \ {r},
                             !.seen = Max2(job[p].seen, r[1]),
                             !.buffer = IF full THEN {} ELSE chunk]]
      /\ UNCHANGED <<now, visible, watermark, parked, failures>>

EndOfFeedDropsChunk(p) ==
  /\ job[p].pc = "fetch"
  /\ job[p].page = {}
  /\ ~job[p].more
  /\ job' = [job EXCEPT ![p] = [@ EXCEPT !.pc = "park", !.buffer = {}]]
  /\ UNCHANGED <<now, visible, watermark, raw, parked, failures>>

\* Leaving the writer's context flushes the last, partial chunk.
EndOfFeed(p) ==
  /\ job[p].pc = "fetch"
  /\ job[p].page = {}
  /\ ~job[p].more
  /\ raw' = raw \cup job[p].buffer
  /\ job' = [job EXCEPT ![p] = [@ EXCEPT !.pc = "park", !.buffer = {}]]
  /\ UNCHANGED <<now, visible, watermark, parked, failures>>

Park(p) ==
  /\ job[p].pc = "park"
  /\ parked' = parked \cup job[p].rejects
  /\ job' = [job EXCEPT ![p] = [@ EXCEPT !.pc = "advance", !.rejects = {}]]
  /\ UNCHANGED <<now, visible, watermark, raw, failures>>

AdvanceWithoutGreatest(p) ==
  /\ job[p].pc = "advance"
  /\ watermark' = IF job[p].seen = NULL THEN watermark ELSE job[p].seen
  /\ job' = [job EXCEPT ![p] = Idle]
  /\ UNCHANGED <<now, visible, raw, parked, failures>>

AdvanceToClock(p) ==
  /\ job[p].pc = "advance"
  /\ watermark' = Max2(watermark, now)
  /\ job' = [job EXCEPT ![p] = Idle]
  /\ UNCHANGED <<now, visible, raw, parked, failures>>

\* Nothing observed leaves the watermark alone; otherwise GREATEST of the
\* stored and the observed instant.
Advance(p) ==
  /\ job[p].pc = "advance"
  /\ watermark' = IF job[p].seen = NULL THEN watermark
                  ELSE Max2(watermark, job[p].seen)
  /\ job' = [job EXCEPT ![p] = Idle]
  /\ UNCHANGED <<now, visible, raw, parked, failures>>

\* The job dies: a source that gives up, a failed transaction, a crash.
\* What it had committed stays; what it had buffered is gone.
Fail(p) ==
  /\ job[p].pc # "idle"
  /\ failures < MaxFailures
  /\ failures' = failures + 1
  /\ job' = [job EXCEPT ![p] = Idle]
  /\ UNCHANGED <<now, visible, watermark, raw, parked>>

\* helios reset-source, by hand.
ResetWatermark ==
  /\ Operator # {}
  /\ watermark # NULL
  /\ watermark' = NULL
  /\ UNCHANGED <<now, visible, raw, parked, job, failures>>

-----------------------------------------------------------------------------
(* The system.                                                             *)

Init ==
  /\ now = 0
  /\ visible = {}
  /\ watermark = NULL
  /\ raw = {}
  /\ parked = {}
  /\ job = [p \in Job |-> Idle]
  /\ failures = 0

Step(p) ==
  \/ ReadPage(p)
  \/ ReadLastPage(p)
  \/ \E r \in Record : Reject(p, r)
  \/ \E r \in Record : Accept(p, r)
  \/ EndOfFeed(p)
  \/ Park(p)
  \/ Advance(p)

Next ==
  \/ Tick
  \/ \E r \in Record : Publish(r)
  \/ \E p \in Job : Incremental(p)
  \/ \E p \in Operator : Full(p)
  \/ \E p \in Operator, t \in BackfillFrom : Backfill(p, t)
  \/ \E p \in Job : Step(p)
  \/ \E p \in Job : Fail(p)
  \/ ResetWatermark

Spec == Init /\ [][Next]_vars

\* The scheduler starts a run whenever the previous one is over and a run
\* that is not killed finishes.
FairSpec ==
  /\ Spec
  /\ \A p \in Scheduler : WF_vars(Incremental(p)) /\ WF_vars(Step(p))

-----------------------------------------------------------------------------
(* Properties.                                                             *)

\* Every variable has its type; what is buffered for raw passed the contract,
\* what is buffered for the dead-letter queue did not.
TypeOK ==
  /\ now \in Nat
  /\ visible \subseteq Record
  /\ watermark \in Nat
  /\ raw \subseteq Valid
  /\ parked \subseteq Record \ Valid
  /\ job \in [Job -> JobState]
  /\ failures \in Nat

Accounted == raw \cup parked

\* The abstract promise, with the read position as its frontier.
Promise == INSTANCE Feed WITH published <- visible, accounted <- Accounted,
                              frontier  <- ReadFrom(watermark)

\* Ingestion implements Feed: nothing held is given up, nothing is held that
\* the upstream did not serve, and the read position passes only records
\* that are held.
ImplementsFeed == Promise!Spec

\* Silent loss: the next run would start above a record the upstream serves
\* and the pipeline holds neither in raw nor in the dead-letter queue.
NoLoss ==
  \A r \in visible : r[1] < ReadFrom(watermark) => r \in Accounted

\* A record is accounted for from a job's point of view: it is held, or in the
\* job's memory, or still to be read by it, or was stamped at most Lag before
\* the job began.
Covers(p, r) ==
  \/ r \in Accounted
  \/ r \in job[p].page \cup job[p].buffer \cup job[p].rejects
  \/ job[p].pc = "fetch" /\ job[p].more /\ r \in Matching(p)
  \/ r[1] + Lag >= job[p].start

\* A job under way skips nothing: page boundaries, ties on updated_at, chunk
\* commits of its own and of other jobs lose no record the upstream serves.
JobCovers ==
  \A p \in Job : job[p].pc # "idle" => \A r \in visible : Covers(p, r)

\* The watermark is the updated_at of a record that has landed: never the
\* clock, never a record still in a buffer.
WatermarkLanded ==
  watermark # NULL => \E r \in raw : r[1] = watermark

\* Only an operator's reset winds the watermark back; a backfill of an old
\* window or a slow job that finishes last does not.
WatermarkMonotone ==
  [][watermark' >= watermark \/ ResetWatermark]_vars

\* Whatever fails, every record the upstream serves ends up in raw or in the
\* dead-letter queue.
EventuallyAccounted ==
  \A r \in Record : r \in visible ~> r \in Accounted
=============================================================================
