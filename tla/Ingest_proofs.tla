---------------------------- MODULE Ingest_proofs ----------------------------
(***************************************************************************)
(* Proofs about Ingest for every set of records and jobs and every bound.  *)
(*                                                                         *)
(* The argument for NoLoss: while a job is under way, a record the         *)
(* upstream serves is held, or is in the job's memory, or is still ahead   *)
(* of the job's cursor, or appeared after the job had begun (JobCovers).   *)
(* A record of the last kind was stamped at most Lag before the job began, *)
(* and no instant the job observes is later than RunSpan after it, so a    *)
(* watermark moved to such an instant leaves the record inside a grace     *)
(* window of Lag + RunSpan.                                                *)
(***************************************************************************)
EXTENDS Ingest, TLAPS

\* The parts of a record are naturals and its instant is not NULL.
LEMMA RecordParts ==
  ASSUME NEW r \in Record
  PROVE  r[1] \in Nat /\ r[1] > 0 /\ r[2] \in Nat /\ r \in Nat \X Nat
  BY RecordAssumption

\* The next read position is an instant, perhaps before the epoch.
LEMMA ReadFromType ==
  ASSUME NEW w \in Nat
  PROVE  ReadFrom(w) \in Int
  BY BoundAssumption DEF ReadFrom, NULL

\* A job that is not running is a job state.
LEMMA IdleType == Idle \in JobState
  BY DEF Idle, JobState, NULL

\* Beginning a job from an instant yields a job state.
LEMMA BeginType ==
  ASSUME TypeOK, NEW p \in Job, NEW from \in Int, Begin(p, from)
  PROVE  TypeOK'
  BY DEF Begin, TypeOK, JobState, Idle, NULL

\* A step of one job that leaves it in a job state keeps the others.
LEMMA JobUpdateType ==
  ASSUME TypeOK, NEW p \in Job, NEW s \in JobState,
         job' = [job EXCEPT ![p] = s]
  PROVE  job' \in [Job -> JobState]
  BY DEF TypeOK

\* Every step keeps the state well typed.
LEMMA TypeStep == TypeOK /\ [Next]_vars => TypeOK'
<1>. SUFFICES ASSUME TypeOK, [Next]_vars PROVE TypeOK'
  OBVIOUS
<1>1. CASE Tick
  BY <1>1 DEF Tick, TypeOK
<1>2. ASSUME NEW r \in Record, Publish(r) PROVE TypeOK'
  BY <1>2 DEF Publish, TypeOK
<1>3. ASSUME NEW p \in Job, Incremental(p) PROVE TypeOK'
  BY <1>3, BeginType, ReadFromType DEF Incremental, TypeOK
<1>4. ASSUME NEW p \in Operator, Full(p) PROVE TypeOK'
  BY <1>4, BeginType DEF Full, Job, NULL
<1>5. ASSUME NEW p \in Operator, NEW t \in BackfillFrom, Backfill(p, t)
      PROVE  TypeOK'
  BY <1>5, BeginType, BoundAssumption DEF Backfill, Job
<1>6. ASSUME NEW p \in Job, Step(p) PROVE TypeOK'
  <2>0. job[p] \in JobState
    BY DEF TypeOK
  <2>1. CASE ReadPage(p)
    <3>1. PICK last \in Matching(p) :
            job' = [job EXCEPT ![p] =
                      [@ EXCEPT !.page = {r \in Matching(p) : ~After(r, last)},
                                !.cursor = last]]
      BY <2>1 DEF ReadPage
    <3>2. last \in Nat \X Nat /\ Matching(p) \subseteq Record
      BY RecordParts DEF TypeOK, Matching
    <3>3. [job[p] EXCEPT !.page = {r \in Matching(p) : ~After(r, last)},
                         !.cursor = last] \in JobState
      BY <2>0, <3>2 DEF JobState
    <3> QED
      BY <2>1, <3>1, <3>3, JobUpdateType DEF ReadPage, TypeOK
  <2>2. CASE ReadLastPage(p)
    <3>1. Matching(p) \subseteq Record
      BY DEF TypeOK, Matching
    <3>2. [job[p] EXCEPT !.page = Matching(p), !.more = FALSE] \in JobState
      BY <2>0, <3>1 DEF JobState
    <3> QED
      BY <2>2, <3>2, JobUpdateType DEF ReadLastPage, TypeOK
  <2>3. ASSUME NEW r \in Record, Reject(p, r) PROVE TypeOK'
    <3>1. r \in Record \ Valid
      BY <2>3 DEF Reject
    <3> DEFINE s == [job[p] EXCEPT !.page = job[p].page \ {r},
                                   !.rejects = job[p].rejects \cup {r}]
    <3>2. s \in JobState
      BY <2>0, <3>1 DEF JobState
    <3>3. job' = [job EXCEPT ![p] = s]
      BY <2>3 DEF Reject
    <3> HIDE DEF s
    <3>4. job' \in [Job -> JobState]
      BY <3>2, <3>3, JobUpdateType
    <3> QED
      BY <2>3, <3>4 DEF Reject, TypeOK
  <2>4. ASSUME NEW r \in Record, Accept(p, r) PROVE TypeOK'
    <3> DEFINE chunk == job[p].buffer \cup {r}
               full  == Cardinality(chunk) >= ChunkSize
    <3>1. Max2(job[p].seen, r[1]) \in Nat
      BY <2>0, RecordParts DEF Max2, JobState
    <3>2. chunk \in SUBSET Valid
      BY <2>0, <2>4 DEF Accept, JobState
    <3>3. (IF full THEN {} ELSE chunk) \in SUBSET Valid
      BY <3>2
    <3> HIDE DEF chunk, full
    <3> DEFINE s == [job[p] EXCEPT !.page = job[p].page \ {r},
                                   !.seen = Max2(job[p].seen, r[1]),
                                   !.buffer = IF full THEN {} ELSE chunk]
    <3>4. s \in JobState
      BY <2>0, <3>1, <3>3 DEF JobState
    <3>5. job' = [job EXCEPT ![p] = s]
      BY <2>4 DEF Accept, chunk, full
    <3> HIDE DEF s
    <3>6. job' \in [Job -> JobState]
      BY <3>4, <3>5, JobUpdateType
    <3>7. raw' = raw \/ raw' = raw \cup chunk
      BY <2>4 DEF Accept, chunk, full
    <3> QED
      BY <2>4, <3>2, <3>6, <3>7, Zenon DEF Accept, TypeOK
  <2>5. CASE EndOfFeed(p)
    <3>1. [job[p] EXCEPT !.pc = "park", !.buffer = {}] \in JobState
      BY <2>0 DEF JobState
    <3>2. job[p].buffer \subseteq Valid
      BY <2>0 DEF JobState
    <3> QED
      BY <2>5, <3>1, <3>2, JobUpdateType DEF EndOfFeed, TypeOK
  <2>6. CASE Park(p)
    <3>1. [job[p] EXCEPT !.pc = "advance", !.rejects = {}] \in JobState
      BY <2>0 DEF JobState
    <3>2. job[p].rejects \subseteq Record \ Valid
      BY <2>0 DEF JobState
    <3> QED
      BY <2>6, <3>1, <3>2, JobUpdateType DEF Park, TypeOK
  <2>7. CASE Advance(p)
    <3>1. job[p].seen \in Nat
      BY <2>0 DEF JobState
    <3> QED
      BY <2>7, <3>1, IdleType, JobUpdateType DEF Advance, Max2, TypeOK
  <2> QED
    BY <1>6, <2>1, <2>2, <2>3, <2>4, <2>5, <2>6, <2>7 DEF Step
<1>7. ASSUME NEW p \in Job, Fail(p) PROVE TypeOK'
  BY <1>7, IdleType DEF Fail, TypeOK
<1>8. CASE ResetWatermark
  BY <1>8 DEF ResetWatermark, TypeOK, NULL
<1>9. CASE UNCHANGED vars
  BY <1>9 DEF vars, TypeOK
<1> QED
  BY <1>1, <1>2, <1>3, <1>4, <1>5, <1>6, <1>7, <1>8, <1>9 DEF Next

\* Ingest's state is well typed, and only records that passed the contract
\* reach raw while only rejected ones reach the dead-letter queue.
THEOREM TypeCorrect == Spec => []TypeOK
<1>1. Init => TypeOK
  BY IdleType DEF Init, TypeOK, NULL
<1>2. TypeOK /\ [Next]_vars => TypeOK'
  BY TypeStep
<1>. QED
  BY <1>1, <1>2, PTL DEF Spec
-----------------------------------------------------------------------------
(* The parts of the inductive invariant.                                   *)

\* The clock is ahead of every stamp and of the watermark.
ClockInv ==
  /\ watermark <= now
  /\ \A r \in visible : r[1] <= now

\* A job reads within RunSpan of its beginning and observes nothing later.
JobClock(p) ==
  job[p].pc # "idle" =>
    /\ job[p].start <= now
    /\ job[p].pc = "fetch" => now <= job[p].start + RunSpan
    /\ job[p].seen <= now
    /\ job[p].seen <= job[p].start + RunSpan

\* What a job remembers exists upstream, and is emptied phase by phase.
JobMemory(p) ==
  job[p].pc # "idle" =>
    /\ job[p].page \cup job[p].buffer \cup job[p].rejects \subseteq visible
    /\ job[p].pc # "fetch" => job[p].page = {} /\ job[p].buffer = {}
    /\ job[p].pc = "advance" => job[p].rejects = {}

\* The instant a job has observed is that of a record landed or buffered.
JobSeen(p) ==
  job[p].pc # "idle" /\ job[p].seen # NULL =>
    \E r \in raw \cup job[p].buffer : r[1] = job[p].seen

LandInv ==
  /\ TypeOK
  /\ Accounted \subseteq visible
  /\ ClockInv
  /\ \A p \in Job : JobClock(p) /\ JobMemory(p) /\ JobSeen(p)
  /\ WatermarkLanded

\* The operator backfills only from at or before the read position, and the
\* grace window is as long as a record may be late plus a job may read.
Disciplined == CarefulOperator /\ Lag + RunSpan <= Grace

IInv == LandInv /\ JobCovers /\ NoLoss

\* A step in which only the jobs' states change keeps what LandInv says of
\* the rest of the state.
LEMMA LandFrame ==
  ASSUME LandInv, TypeOK', UNCHANGED <<now, visible, watermark, raw, parked>>,
         \A q \in Job : (JobClock(q) /\ JobMemory(q) /\ JobSeen(q))'
  PROVE  LandInv'
  BY DEF LandInv, ClockInv, Accounted, WatermarkLanded

\* What LandInv says of a job whose own state a step leaves alone survives a
\* step that only adds to the shared state and lets no time pass.
LEMMA JobFrame ==
  ASSUME LandInv, NEW q \in Job, job'[q] = job[q],
         now' = now, visible \subseteq visible', raw \subseteq raw'
  PROVE  (JobClock(q) /\ JobMemory(q) /\ JobSeen(q))'
<1>1. JobClock(q) /\ JobMemory(q) /\ JobSeen(q)
  BY DEF LandInv
<1>2. JobClock(q)'
  BY <1>1 DEF JobClock
<1>3. JobMemory(q)'
  BY <1>1 DEF JobMemory
<1>4. JobSeen(q)'
  BY <1>1 DEF JobSeen, NULL
<1>. QED
  BY <1>2, <1>3, <1>4

\* LandInv says nothing of an idle job.
LEMMA JobIdle ==
  ASSUME NEW q \in Job, job'[q] = Idle
  PROVE  (JobClock(q) /\ JobMemory(q) /\ JobSeen(q))'
  BY DEF JobClock, JobMemory, JobSeen, Idle

\* Beginning a job keeps LandInv.
LEMMA LandBegin ==
  ASSUME LandInv, NEW p \in Job, NEW from \in Int, Begin(p, from)
  PROVE  LandInv'
<1>1. TypeOK'
  BY BeginType DEF LandInv
<1>2. UNCHANGED <<now, visible, watermark, raw, parked>>
  BY DEF Begin
<1>3. ASSUME NEW q \in Job PROVE (JobClock(q) /\ JobMemory(q) /\ JobSeen(q))'
  <2>1. CASE q # p
    <3>1. job'[q] = job[q]
      BY <2>1, <1>3 DEF Begin, LandInv, TypeOK
    <3>. QED
      BY <3>1, <1>2, JobFrame
  <2>2. CASE q = p
    <3>1. job'[p] = [Idle EXCEPT !.pc = "fetch", !.since = from,
                                 !.start = now, !.more = TRUE]
      BY DEF Begin, LandInv, TypeOK
    <3>2. now \in Nat /\ RunSpan \in Nat
      BY BoundAssumption DEF LandInv, TypeOK
    <3>. QED
      BY <2>2, <3>1, <3>2, <1>2
      DEF JobClock, JobMemory, JobSeen, Idle, NULL
  <2>. QED
    BY <2>1, <2>2
<1>. QED
  BY <1>1, <1>2, <1>3, LandFrame

\* Every step of a running job keeps LandInv.
LEMMA LandStep ==
  ASSUME LandInv, NEW p \in Job, Step(p)
  PROVE  LandInv'
<1>. USE BoundAssumption
<1>1. TypeOK /\ TypeOK'
  BY TypeStep DEF LandInv, Next
<1>2. now' = now /\ visible' = visible /\ raw \subseteq raw'
  BY DEF Step, ReadPage, ReadLastPage, Reject, Accept, EndOfFeed, Park, Advance
<1>3. ASSUME NEW q \in Job, q # p
      PROVE  (JobClock(q) /\ JobMemory(q) /\ JobSeen(q))'
  <2>1. job'[q] = job[q]
    BY <1>1, <1>3 DEF TypeOK, Step, ReadPage, ReadLastPage, Reject, Accept,
                      EndOfFeed, Park, Advance
  <2>. QED
    BY <2>1, <1>2, JobFrame
<1>4. /\ JobClock(p) /\ JobMemory(p) /\ JobSeen(p)
      /\ Accounted \subseteq visible
      /\ ClockInv
      /\ WatermarkLanded
      /\ now \in Nat
      /\ job[p] \in JobState
      /\ job \in [Job -> JobState]
  BY DEF LandInv, TypeOK
<1>5. CASE ReadPage(p)
  <2>1. PICK last \in Matching(p) :
          job' = [job EXCEPT ![p] =
                    [@ EXCEPT !.page = {r \in Matching(p) : ~After(r, last)},
                              !.cursor = last]]
    BY <1>5 DEF ReadPage
  <2>2. Matching(p) \subseteq visible
    BY DEF Matching
  <2>3. (JobClock(p) /\ JobMemory(p) /\ JobSeen(p))'
    BY <1>4, <1>5, <2>1, <2>2
    DEF ReadPage, AwaitsPage, JobClock, JobMemory, JobSeen, JobState
  <2>. QED
    BY <1>1, <1>3, <1>5, <2>3, LandFrame DEF ReadPage
<1>6. CASE ReadLastPage(p)
  <2>1. Matching(p) \subseteq visible
    BY DEF Matching
  <2>2. (JobClock(p) /\ JobMemory(p) /\ JobSeen(p))'
    BY <1>4, <1>6, <2>1
    DEF ReadLastPage, AwaitsPage, JobClock, JobMemory, JobSeen, JobState
  <2>. QED
    BY <1>1, <1>3, <1>6, <2>2, LandFrame DEF ReadLastPage
<1>7. ASSUME NEW r \in Record, Reject(p, r) PROVE LandInv'
  <2>1. r \in visible
    BY <1>4, <1>7 DEF Reject, IsNext, JobMemory
  <2>2. (JobClock(p) /\ JobMemory(p) /\ JobSeen(p))'
    BY <1>4, <1>7, <2>1
    DEF Reject, IsNext, JobClock, JobMemory, JobSeen, JobState
  <2>. QED
    BY <1>1, <1>3, <1>7, <2>2, LandFrame DEF Reject
<1>8. ASSUME NEW r \in Record, Accept(p, r) PROVE LandInv'
  <2> DEFINE chunk == job[p].buffer \cup {r}
             full  == Cardinality(chunk) >= ChunkSize
             s == [job[p] EXCEPT !.page = job[p].page \ {r},
                                 !.seen = Max2(job[p].seen, r[1]),
                                 !.buffer = IF full THEN {} ELSE chunk]
  <2>1. r \in visible /\ job[p].pc = "fetch"
    BY <1>4, <1>8 DEF Accept, IsNext, JobMemory
  <2>2. job'[p] = s
    BY <1>4, <1>8 DEF Accept
  <2>3. raw' = IF full THEN raw \cup chunk ELSE raw
    BY <1>8 DEF Accept
  <2>4. r[1] \in Nat /\ r[1] <= now /\ job[p].seen \in Nat
    BY <1>4, <2>1, RecordParts DEF ClockInv, JobState
  <2>5. chunk \subseteq visible
    BY <1>4, <2>1 DEF JobMemory
  <2>6. /\ s.pc = "fetch" /\ s.start = job[p].start
        /\ s.page = job[p].page \ {r} /\ s.rejects = job[p].rejects
        /\ s.seen = Max2(job[p].seen, r[1])
        /\ s.buffer = IF full THEN {} ELSE chunk
    BY <1>4, <2>1 DEF JobState
  <2> HIDE DEF chunk, full, s
  <2>7. JobClock(p)'
    BY <1>2, <1>4, <2>1, <2>2, <2>4, <2>6 DEF JobClock, JobState, Max2
  <2>8. JobMemory(p)'
    BY <1>2, <1>4, <2>1, <2>2, <2>5, <2>6 DEF JobMemory
  <2>9. JobSeen(p)'
    <3>1. chunk \subseteq raw' \cup s.buffer
      BY <2>3, <2>6
    <3>2. job[p].buffer \subseteq chunk /\ r \in chunk
      BY DEF chunk
    <3>3. CASE s.seen = r[1]
      BY <2>2, <3>1, <3>2, <3>3 DEF JobSeen
    <3>4. CASE s.seen = job[p].seen
      <4>1. SUFFICES ASSUME job[p].seen # NULL
                     PROVE  \E t \in raw' \cup s.buffer : t[1] = s.seen
        BY <2>2, <3>4 DEF JobSeen
      <4>2. \E t \in raw \cup job[p].buffer : t[1] = job[p].seen
        BY <1>4, <2>1, <4>1 DEF JobSeen
      <4>. QED
        BY <1>2, <3>1, <3>2, <3>4, <4>2
    <3>. QED
      BY <2>4, <2>6, <3>3, <3>4 DEF Max2
  <2>10. Accounted' \subseteq visible
    BY <1>4, <1>8, <2>3, <2>5 DEF Accept, Accounted
  <2>11. WatermarkLanded'
    BY <1>2, <1>4, <1>8 DEF Accept, WatermarkLanded
  <2>12. ClockInv'
    BY <1>2, <1>4, <1>8 DEF Accept, ClockInv
  <2>. QED
    BY <1>1, <1>2, <1>3, <2>7, <2>8, <2>9, <2>10, <2>11, <2>12 DEF LandInv
<1>9. CASE EndOfFeed(p)
  <2>1. raw' = raw \cup job[p].buffer
        /\ job'[p] = [job[p] EXCEPT !.pc = "park", !.buffer = {}]
    BY <1>4, <1>9 DEF EndOfFeed
  <2>2. (JobClock(p) /\ JobMemory(p) /\ JobSeen(p))'
    BY <1>2, <1>4, <1>9, <2>1
    DEF EndOfFeed, JobClock, JobMemory, JobSeen, JobState
  <2>3. (Accounted \subseteq visible /\ WatermarkLanded /\ ClockInv)'
    BY <1>2, <1>4, <1>9, <2>1
    DEF EndOfFeed, Accounted, JobMemory, WatermarkLanded, ClockInv
  <2>. QED
    BY <1>1, <1>2, <1>3, <2>2, <2>3 DEF LandInv
<1>10. CASE Park(p)
  <2>1. parked' = parked \cup job[p].rejects
        /\ job'[p] = [job[p] EXCEPT !.pc = "advance", !.rejects = {}]
    BY <1>4, <1>10 DEF Park
  <2>2. (JobClock(p) /\ JobMemory(p) /\ JobSeen(p))'
    BY <1>2, <1>4, <1>10, <2>1
    DEF Park, JobClock, JobMemory, JobSeen, JobState
  <2>3. (Accounted \subseteq visible /\ WatermarkLanded /\ ClockInv)'
    BY <1>2, <1>4, <1>10, <2>1
    DEF Park, Accounted, JobMemory, WatermarkLanded, ClockInv
  <2>. QED
    BY <1>1, <1>2, <1>3, <2>2, <2>3 DEF LandInv
<1>11. CASE Advance(p)
  <2>1. job'[p] = Idle
    BY <1>4, <1>11 DEF Advance
  <2>2. (JobClock(p) /\ JobMemory(p) /\ JobSeen(p))'
    BY <2>1, JobIdle
  <2>3. watermark' = watermark \/ watermark' = job[p].seen
    BY <1>11 DEF Advance, Max2
  <2>4. job[p].pc = "advance" /\ job[p].buffer = {}
    BY <1>4, <1>11 DEF Advance, JobMemory
  <2>5. ClockInv'
    BY <1>2, <1>4, <2>3, <2>4 DEF ClockInv, JobClock
  <2>6. raw' = raw /\ parked' = parked
    BY <1>11 DEF Advance
  <2>7. WatermarkLanded'
    BY <1>4, <2>3, <2>4, <2>6 DEF WatermarkLanded, JobSeen
  <2>8. Accounted' \subseteq visible'
    BY <1>2, <1>4, <2>6 DEF Accounted
  <2>. QED
    BY <1>1, <1>3, <2>2, <2>5, <2>7, <2>8 DEF LandInv
<1>. QED
  BY <1>5, <1>6, <1>7, <1>8, <1>9, <1>10, <1>11 DEF Step

LEMMA LandNext == LandInv /\ [Next]_vars => LandInv'
<1>. SUFFICES ASSUME LandInv, [Next]_vars PROVE LandInv'
  OBVIOUS
<1>. USE BoundAssumption
<1>0. TypeOK /\ TypeOK'
  BY TypeStep DEF LandInv
<1>1. CASE Tick
  <2>1. now \in Nat /\ now' = now + 1 /\ now <= now'
    BY <1>0, <1>1 DEF Tick, TypeOK
  <2>2. UNCHANGED <<visible, watermark, raw, parked, job>>
    BY <1>1 DEF Tick
  <2>3. ASSUME NEW q \in Job PROVE (JobClock(q) /\ JobMemory(q) /\ JobSeen(q))'
    <3>1. job[q] \in JobState /\ JobClock(q) /\ JobMemory(q) /\ JobSeen(q)
      BY <1>0 DEF LandInv, TypeOK
    <3>2. JobClock(q)'
      BY <1>1, <2>1, <2>2, <3>1 DEF Tick, JobClock, JobState
    <3>. QED
      BY <2>2, <3>1, <3>2 DEF JobMemory, JobSeen
  <2>4. ClockInv'
    <3>1. \A r \in visible : r[1] \in Nat
      BY <1>0, RecordParts DEF TypeOK
    <3>. QED
      BY <1>0, <2>1, <2>2, <3>1 DEF LandInv, ClockInv, TypeOK
  <2>. QED
    BY <1>0, <2>2, <2>3, <2>4 DEF LandInv, Accounted, WatermarkLanded
<1>2. ASSUME NEW r \in Record, Publish(r) PROVE LandInv'
  <2>1. ASSUME NEW q \in Job PROVE (JobClock(q) /\ JobMemory(q) /\ JobSeen(q))'
    BY <1>2, JobFrame DEF Publish
  <2>. QED
    BY <1>0, <1>2, <2>1
    DEF Publish, LandInv, ClockInv, Accounted, WatermarkLanded
<1>3. ASSUME NEW p \in Job, Incremental(p) PROVE LandInv'
  BY <1>0, <1>3, LandBegin, ReadFromType DEF Incremental, TypeOK
<1>4. ASSUME NEW p \in Operator, Full(p) PROVE LandInv'
  BY <1>4, LandBegin DEF Full, Job, NULL
<1>5. ASSUME NEW p \in Operator, NEW t \in BackfillFrom, Backfill(p, t)
      PROVE  LandInv'
  BY <1>5, LandBegin DEF Backfill, Job
<1>6. ASSUME NEW p \in Job, Step(p) PROVE LandInv'
  BY <1>6, LandStep
<1>7. ASSUME NEW p \in Job, Fail(p) PROVE LandInv'
  <2>1. job'[p] = Idle /\ \A q \in Job : q # p => job'[q] = job[q]
    BY <1>0, <1>7 DEF Fail, TypeOK
  <2>2. ASSUME NEW q \in Job PROVE (JobClock(q) /\ JobMemory(q) /\ JobSeen(q))'
    <3>1. now' = now /\ visible' = visible /\ raw' = raw
      BY <1>7 DEF Fail
    <3>. QED
      BY <2>1, <3>1, JobIdle, JobFrame
  <2>. QED
    BY <1>0, <1>7, <2>2, LandFrame DEF Fail
<1>8. CASE ResetWatermark
  <2>1. ASSUME NEW q \in Job PROVE (JobClock(q) /\ JobMemory(q) /\ JobSeen(q))'
    BY <1>8, JobFrame DEF ResetWatermark
  <2>. QED
    BY <1>0, <1>8, <2>1
    DEF ResetWatermark, LandInv, ClockInv, TypeOK, Accounted, WatermarkLanded,
        NULL
<1>9. CASE UNCHANGED vars
  <2>1. ASSUME NEW q \in Job PROVE (JobClock(q) /\ JobMemory(q) /\ JobSeen(q))'
    BY <1>9, JobFrame DEF vars
  <2>. QED
    BY <1>0, <1>9, <2>1, LandFrame DEF vars
<1>. QED
  BY <1>1, <1>2, <1>3, <1>4, <1>5, <1>6, <1>7, <1>8, <1>9 DEF Next

LEMMA LandInvariant == Spec => []LandInv
<1>1. Init => LandInv
  BY IdleType
  DEF Init, LandInv, TypeOK, Accounted, ClockInv, JobClock, JobMemory, JobSeen,
      WatermarkLanded, Idle, NULL
<1>2. LandInv /\ [Next]_vars => LandInv'
  BY LandNext
<1>. QED
  BY <1>1, <1>2, PTL DEF Spec

\* The watermark is never ahead of the data: it is the instant of a record in
\* raw, whatever jobs interleave, fail or are backfills.
THEOREM WatermarkIsLanded == Spec => []WatermarkLanded
<1>1. LandInv => WatermarkLanded
  BY DEF LandInv
<1>. QED
  BY <1>1, LandInvariant, PTL

\* Only a reset winds the watermark back.
THEOREM WatermarkIsMonotone == Spec => WatermarkMonotone
<1>1. TypeOK /\ [Next]_vars => [watermark' >= watermark \/ ResetWatermark]_vars
  <2>. SUFFICES ASSUME TypeOK, Next
                PROVE  watermark' >= watermark \/ ResetWatermark
    OBVIOUS
  <2>1. watermark \in Nat
    BY DEF TypeOK
  <2>2. CASE \E p \in Job : Step(p)
    <3>1. PICK p \in Job : Step(p)
      BY <2>2
    <3>2. CASE Advance(p)
      <4>1. job[p].seen \in Nat
        BY DEF TypeOK, JobState
      <4>. QED
        BY <2>1, <3>2, <4>1 DEF Advance, Max2
    <3>3. CASE ~Advance(p)
      <4>1. watermark' = watermark
        BY <3>1, <3>3
        DEF Step, ReadPage, ReadLastPage, Reject, Accept, EndOfFeed, Park
      <4>. QED
        BY <2>1, <4>1
    <3>. QED
      BY <3>2, <3>3
  <2>3. CASE ~ (\E p \in Job : Step(p)) /\ ~ResetWatermark
    <3>1. watermark' = watermark
      BY <2>3
      DEF Next, Tick, Publish, Incremental, Full, Backfill, Begin, Fail
    <3>. QED
      BY <2>1, <3>1
  <2>. QED
    BY <2>2, <2>3
<1>. QED
  BY <1>1, TypeCorrect, PTL DEF Spec, WatermarkMonotone

-----------------------------------------------------------------------------
(* Nothing is lost behind the read position.                               *)

\* A job whose own state a step leaves alone still covers what it covered.
LEMMA CoverFrame ==
  ASSUME NEW q \in Job, job'[q] = job[q], visible \subseteq visible',
         Accounted \subseteq Accounted', NEW r \in visible, Covers(q, r)
  PROVE  Covers(q, r)'
  BY DEF Covers, Matching

\* A job that begins at or before the read position covers every record.
LEMMA CoverBegin ==
  ASSUME TypeOK, JobCovers, NoLoss, NEW p \in Job, NEW from \in Int,
         Begin(p, from),
         \A r \in visible : r[1] < from => r \in Accounted
  PROVE  JobCovers' /\ NoLoss'
<1>1. UNCHANGED <<visible, watermark, raw, parked>>
  BY DEF Begin
<1>2. Accounted' = Accounted
  BY <1>1 DEF Accounted
<1>3. NoLoss'
  BY <1>1, <1>2 DEF NoLoss
<1>4. ASSUME NEW q \in Job, job'[q].pc # "idle", NEW r \in visible
      PROVE  Covers(q, r)'
  <2>1. CASE q # p
    <3>1. job'[q] = job[q]
      BY <2>1 DEF Begin, TypeOK
    <3>. QED
      BY <1>1, <1>2, <1>4, <3>1, CoverFrame DEF JobCovers
  <2>2. CASE q = p
    <3>1. job'[p] = [Idle EXCEPT !.pc = "fetch", !.since = from,
                                 !.start = now, !.more = TRUE]
      BY DEF Begin, TypeOK
    <3>2. r[1] \in Nat /\ r[1] > 0
      BY RecordParts DEF TypeOK
    <3>3. After(r, <<0, 0>>)
      BY <3>2 DEF After
    <3>4. CASE r[1] < from
      BY <1>2, <3>4 DEF Covers
    <3>5. CASE r[1] >= from
      BY <1>1, <2>2, <3>1, <3>3, <3>5 DEF Covers, Matching, Idle
    <3>. QED
      BY <3>2, <3>4, <3>5
  <2>. QED
    BY <2>1, <2>2
<1>. QED
  BY <1>1, <1>3, <1>4 DEF JobCovers

\* Every step of a running job keeps every record covered and loses none.
LEMMA CoverStep ==
  ASSUME Disciplined, LandInv, JobCovers, NoLoss, NEW p \in Job, Step(p)
  PROVE  JobCovers' /\ NoLoss'
<1>. USE BoundAssumption
<1>1. /\ job[p] \in JobState
      /\ job \in [Job -> JobState]
      /\ watermark \in Nat
      /\ visible \subseteq Record
      /\ JobClock(p) /\ JobMemory(p)
  BY DEF LandInv, TypeOK
<1>2. visible' = visible /\ now' = now /\ Accounted \subseteq Accounted'
  BY DEF Step, ReadPage, ReadLastPage, Reject, Accept, EndOfFeed, Park,
         Advance, Accounted
<1>3. job[p].pc # "idle"
  BY DEF Step, ReadPage, ReadLastPage, AwaitsPage, Reject, Accept, IsNext,
         EndOfFeed, Park, Advance
<1>4. ASSUME NEW q \in Job, q # p, job'[q].pc # "idle", NEW r \in visible
      PROVE  Covers(q, r)'
  <2>1. job'[q] = job[q]
    BY <1>1, <1>4 DEF Step, ReadPage, ReadLastPage, Reject, Accept,
                      EndOfFeed, Park, Advance
  <2>. QED
    BY <1>2, <1>4, <2>1, CoverFrame DEF JobCovers
<1>5. ASSUME NEW r \in visible PROVE Covers(p, r)
  BY <1>3 DEF JobCovers
<1>6. ASSUME ~Advance(p), NEW r \in visible
      PROVE  Covers(p, r)'
  <2>1. CASE ReadPage(p)
    <3>1. PICK last \in Matching(p) :
            job'[p] = [job[p] EXCEPT
                         !.page = {t \in Matching(p) : ~After(t, last)},
                         !.cursor = last]
      BY <1>1, <2>1 DEF ReadPage
    <3>2. job[p].pc = "fetch" /\ job[p].page = {} /\ job[p].more
      BY <2>1 DEF ReadPage, AwaitsPage
    <3>3. /\ job'[p].page = {t \in Matching(p) : ~After(t, last)}
          /\ job'[p].cursor = last
          /\ job'[p].pc = "fetch" /\ job'[p].more
          /\ job'[p].buffer = job[p].buffer
          /\ job'[p].rejects = job[p].rejects
          /\ job'[p].since = job[p].since
          /\ job'[p].start = job[p].start
      BY <1>1, <3>1, <3>2 DEF JobState
    <3>4. CASE r \in Matching(p)
      BY <1>2, <3>3, <3>4 DEF Covers, Matching
    <3>5. CASE r \notin Matching(p)
      BY <1>2, <1>5, <3>2, <3>3, <3>5 DEF Covers
    <3>. QED
      BY <3>4, <3>5
  <2>2. CASE ReadLastPage(p)
    <3>1. job[p].page = {}
      BY <2>2 DEF ReadLastPage, AwaitsPage
    <3>2. /\ job'[p].page = Matching(p)
          /\ job'[p].buffer = job[p].buffer
          /\ job'[p].rejects = job[p].rejects
          /\ job'[p].start = job[p].start
      BY <1>1, <2>2 DEF ReadLastPage, JobState
    <3>. QED
      BY <1>2, <1>5, <3>1, <3>2 DEF Covers
  <2>3. ASSUME NEW t \in Record, Reject(p, t) PROVE Covers(p, r)'
    <3>1. /\ job'[p].page = job[p].page \ {t}
          /\ job'[p].buffer = job[p].buffer
          /\ job'[p].rejects = job[p].rejects \cup {t}
          /\ job'[p].pc = job[p].pc /\ job'[p].more = job[p].more
          /\ job'[p].since = job[p].since /\ job'[p].cursor = job[p].cursor
          /\ job'[p].start = job[p].start
      BY <1>1, <2>3 DEF Reject, JobState
    <3>. QED
      BY <1>2, <1>5, <3>1 DEF Covers, Matching
  <2>4. ASSUME NEW t \in Record, Accept(p, t) PROVE Covers(p, r)'
    <3> DEFINE chunk == job[p].buffer \cup {t}
               full  == Cardinality(chunk) >= ChunkSize
    <3>1. /\ job'[p].page = job[p].page \ {t}
          /\ job'[p].buffer = IF full THEN {} ELSE chunk
          /\ job'[p].rejects = job[p].rejects
          /\ job'[p].pc = job[p].pc /\ job'[p].more = job[p].more
          /\ job'[p].since = job[p].since /\ job'[p].cursor = job[p].cursor
          /\ job'[p].start = job[p].start
      BY <1>1, <2>4 DEF Accept, JobState
    <3>2. raw' = IF full THEN raw \cup chunk ELSE raw
      BY <2>4 DEF Accept
    <3>3. job[p].buffer \subseteq chunk /\ t \in chunk
      OBVIOUS
    <3> HIDE DEF chunk, full
    <3>4. chunk \subseteq job'[p].buffer \cup Accounted'
      BY <3>1, <3>2 DEF Accounted
    <3>. QED
      BY <1>2, <1>5, <3>1, <3>3, <3>4 DEF Covers, Matching
  <2>5. CASE EndOfFeed(p)
    <3>1. /\ job'[p].rejects = job[p].rejects
          /\ job'[p].start = job[p].start
          /\ job[p].page = {} /\ ~job[p].more
          /\ raw' = raw \cup job[p].buffer
      BY <1>1, <2>5 DEF EndOfFeed, JobState
    <3>. QED
      BY <1>2, <1>5, <3>1 DEF Covers, Accounted
  <2>6. CASE Park(p)
    <3>1. /\ job'[p].start = job[p].start
          /\ job[p].page = {} /\ job[p].buffer = {}
          /\ parked' = parked \cup job[p].rejects
          /\ job[p].pc # "fetch"
      BY <1>1, <2>6 DEF Park, JobState, JobMemory
    <3>. QED
      BY <1>2, <1>5, <3>1 DEF Covers, Accounted
  <2>. QED
    BY <1>6, <2>1, <2>2, <2>3, <2>4, <2>5, <2>6 DEF Step
<1>7. CASE Advance(p)
  <2>1. job'[p] = Idle
    BY <1>1, <1>7 DEF Advance
  <2>2. JobCovers'
    <3>1. job'[p].pc = "idle"
      BY <2>1 DEF Idle
    <3>. QED
      BY <1>2, <1>4, <3>1 DEF JobCovers
  <2>3. Accounted' = Accounted
    BY <1>7 DEF Advance, Accounted
  <2>4. \/ watermark' = watermark
        \/ watermark' = job[p].seen /\ job[p].seen # NULL
    BY <1>7 DEF Advance, Max2
  <2>5. CASE watermark' = watermark
    BY <1>2, <2>2, <2>3, <2>5 DEF NoLoss
  <2>6. CASE watermark' = job[p].seen /\ job[p].seen # NULL
    <3>1. ASSUME NEW r \in visible, r[1] < ReadFrom(watermark')
          PROVE  r \in Accounted
      <4>1. r[1] \in Nat /\ job[p].seen \in Nat /\ job[p].start \in Nat
        BY <1>1, RecordParts DEF JobState
      <4>2. r[1] < job[p].seen - Grace
        BY <2>6, <3>1 DEF ReadFrom, NULL
      <4>3. job[p].seen <= job[p].start + RunSpan /\ Lag + RunSpan <= Grace
        BY <1>1, <1>3 DEF JobClock, Disciplined
      <4>4. ~(r[1] + Lag >= job[p].start)
        BY <4>1, <4>2, <4>3
      <4>5. job[p].page = {} /\ job[p].buffer = {} /\ job[p].rejects = {}
            /\ job[p].pc # "fetch"
        BY <1>1, <1>7 DEF Advance, JobMemory
      <4>. QED
        BY <1>5, <4>4, <4>5 DEF Covers
    <3>. QED
      BY <1>2, <2>2, <2>3, <3>1 DEF NoLoss
  <2>. QED
    BY <2>2, <2>4, <2>5, <2>6
<1>8. CASE ~Advance(p)
  <2>1. watermark' = watermark
    BY <1>8
    DEF Step, ReadPage, ReadLastPage, Reject, Accept, EndOfFeed, Park
  <2>2. NoLoss'
    BY <1>2, <2>1 DEF NoLoss
  <2>3. JobCovers'
    BY <1>2, <1>4, <1>6, <1>8 DEF JobCovers
  <2>. QED
    BY <2>2, <2>3
<1>. QED
  BY <1>7, <1>8

\* Every step of the system does.
LEMMA CoverNext ==
  ASSUME Disciplined, LandInv, JobCovers, NoLoss, [Next]_vars
  PROVE  JobCovers' /\ NoLoss'
<1>. USE BoundAssumption
<1>1. TypeOK /\ ClockInv
  BY DEF LandInv
<1>2. ASSUME visible' = visible, watermark' = watermark,
             Accounted' = Accounted,
             \A q \in Job : job'[q] = job[q] \/ job'[q] = Idle
      PROVE  JobCovers' /\ NoLoss'
  <2>1. ASSUME NEW q \in Job, job'[q].pc # "idle", NEW r \in visible
        PROVE  Covers(q, r)'
    <3>1. job'[q] = job[q]
      BY <1>2, <2>1 DEF Idle
    <3>. QED
      BY <1>2, <2>1, <3>1, CoverFrame DEF JobCovers
  <2>2. NoLoss'
    BY <1>2 DEF NoLoss
  <2>. QED
    BY <1>2, <2>1, <2>2 DEF JobCovers
<1>3. CASE Tick
  BY <1>2, <1>3 DEF Tick, Accounted
<1>4. ASSUME NEW r \in Record, Publish(r) PROVE JobCovers' /\ NoLoss'
  <2>1. /\ job' = job /\ watermark' = watermark /\ Accounted' = Accounted
        /\ visible' = visible \cup {r}
        /\ now <= r[1] + Lag
    BY <1>4 DEF Publish, Accounted
  <2>2. r[1] \in Nat /\ r[1] > 0 /\ now \in Nat /\ watermark \in Nat
    BY <1>1, RecordParts DEF TypeOK
  <2>3. ~(r[1] < ReadFrom(watermark))
    BY <1>1, <2>1, <2>2 DEF ClockInv, ReadFrom, NULL, Disciplined
  <2>4. NoLoss'
    BY <2>1, <2>3 DEF NoLoss
  <2>5. ASSUME NEW q \in Job, job'[q].pc # "idle", NEW t \in visible'
        PROVE  Covers(q, t)'
    <3>1. CASE t \in visible
      <4>1. Covers(q, t)
        BY <2>1, <2>5, <3>1 DEF JobCovers
      <4>. QED
        BY <2>1, <3>1, <4>1, CoverFrame
    <3>2. CASE t = r
      <4>1. job[q] \in JobState /\ job[q].start <= now
        BY <1>1, <2>1, <2>5 DEF TypeOK, LandInv, JobClock
      <4>. QED
        BY <2>1, <2>2, <3>2, <4>1 DEF Covers, JobState
    <3>. QED
      BY <2>1, <3>1, <3>2
  <2>. QED
    BY <2>4, <2>5 DEF JobCovers
<1>5. ASSUME NEW p \in Job, Incremental(p) PROVE JobCovers' /\ NoLoss'
  <2>1. ReadFrom(watermark) \in Int
    BY <1>1, ReadFromType DEF TypeOK
  <2>. QED
    BY <1>1, <1>5, <2>1, CoverBegin DEF Incremental, NoLoss
<1>6. ASSUME NEW p \in Operator, Full(p) PROVE JobCovers' /\ NoLoss'
  <2>1. \A r \in visible : ~(r[1] < NULL)
    BY <1>1, RecordParts DEF TypeOK, NULL
  <2>. QED
    BY <1>1, <1>6, <2>1, CoverBegin DEF Full, Job, NULL
<1>7. ASSUME NEW p \in Operator, NEW t \in BackfillFrom, Backfill(p, t)
      PROVE  JobCovers' /\ NoLoss'
  <2>1. t \in Int /\ t <= ReadFrom(watermark) /\ ReadFrom(watermark) \in Int
    BY <1>1, <1>7, ReadFromType DEF Backfill, Disciplined, TypeOK
  <2>2. \A r \in visible : r[1] \in Nat
    BY <1>1, RecordParts DEF TypeOK
  <2>3. \A r \in visible : r[1] < t => r \in Accounted
    BY <2>1, <2>2 DEF NoLoss
  <2>. QED
    BY <1>1, <1>7, <2>1, <2>3, CoverBegin DEF Backfill, Job
<1>8. ASSUME NEW p \in Job, Step(p) PROVE JobCovers' /\ NoLoss'
  BY <1>8, CoverStep
<1>9. ASSUME NEW p \in Job, Fail(p) PROVE JobCovers' /\ NoLoss'
  BY <1>1, <1>2, <1>9 DEF Fail, Accounted, TypeOK
<1>10. CASE ResetWatermark
  <2>1. \A r \in visible : ~(r[1] < NULL)
    BY <1>1, RecordParts DEF TypeOK, NULL
  <2>2. NoLoss'
    BY <1>10, <2>1 DEF ResetWatermark, NoLoss, ReadFrom
  <2>3. job' = job /\ visible' = visible /\ Accounted' = Accounted
    BY <1>10 DEF ResetWatermark, Accounted
  <2>4. JobCovers'
    BY <2>3, CoverFrame DEF JobCovers
  <2>. QED
    BY <2>2, <2>4
<1>11. CASE UNCHANGED vars
  BY <1>2, <1>11 DEF vars, Accounted
<1>. QED
  BY <1>3, <1>4, <1>5, <1>6, <1>7, <1>8, <1>9, <1>10, <1>11 DEF Next

\* IInv is inductive.
LEMMA CoverInvariant ==
  ASSUME Disciplined
  PROVE  Spec => []IInv
<1>1. Init => IInv
  <2>. SUFFICES ASSUME Init PROVE IInv
    OBVIOUS
  <2>1. LandInv
    BY IdleType
    DEF Init, LandInv, TypeOK, Accounted, ClockInv, JobClock, JobMemory,
        JobSeen, WatermarkLanded, Idle, NULL
  <2>2. JobCovers /\ NoLoss
    BY DEF Init, JobCovers, NoLoss, Idle
  <2>. QED
    BY <2>1, <2>2 DEF IInv
<1>2. IInv /\ [Next]_vars => IInv'
  BY LandNext, CoverNext DEF IInv
<1>. QED
  BY <1>1, <1>2, PTL DEF Spec

\* No record is lost silently: when operators backfill only from at or before
\* the read position and the grace window is at least Lag + RunSpan, the read
\* position passes only records held in raw or in the dead-letter queue.
THEOREM NoSilentLoss ==
  ASSUME Disciplined
  PROVE  Spec => []NoLoss
<1>1. IInv => NoLoss
  BY DEF IInv
<1>. QED
  BY <1>1, CoverInvariant, PTL

\* Under the same conditions no running job skips a record.
THEOREM NothingSkipped ==
  ASSUME Disciplined
  PROVE  Spec => []JobCovers
<1>1. IInv => JobCovers
  BY DEF IInv
<1>. QED
  BY <1>1, CoverInvariant, PTL

-----------------------------------------------------------------------------
(* Ingest implements Feed.                                                 *)

\* A step of ingestion is a step of the abstract feed, or none.
LEMMA FeedStep ==
  ASSUME IInv, IInv', [Next]_vars
  PROVE  [Promise!Next]_(Promise!vars)
<1>. USE BoundAssumption
<1>1. /\ TypeOK /\ TypeOK' /\ Accounted \subseteq visible
      /\ (Accounted \subseteq visible)' /\ NoLoss'
  BY DEF IInv, LandInv
<1>2. CASE visible' = visible /\ watermark' = watermark
           /\ Accounted \subseteq Accounted'
  BY <1>1, <1>2 DEF Promise!Next, Promise!Account
<1>3. CASE visible' = visible /\ Accounted' = Accounted
  <2>1. ReadFrom(watermark') \in Int
    BY <1>1, ReadFromType DEF TypeOK
  <2>. QED
    BY <1>1, <1>3, <2>1 DEF Promise!Next, Promise!Move, NoLoss
<1>4. ASSUME NEW r \in Record, Publish(r)
      PROVE  Promise!Next
  <2>1. /\ r \notin visible /\ visible' = visible \cup {r}
        /\ watermark' = watermark /\ Accounted' = Accounted
    BY <1>4 DEF Publish, Accounted
  <2>2. ~(r[1] < ReadFrom(watermark))
    BY <1>1, <2>1 DEF NoLoss
  <2>3. r[1] \in Nat /\ ReadFrom(watermark) \in Int
    BY <1>1, RecordParts, ReadFromType DEF TypeOK
  <2>4. r[1] >= ReadFrom(watermark)
    BY <2>2, <2>3
  <2>5. visible' \subseteq Record
    BY <1>1 DEF TypeOK
  <2>. QED
    BY <2>1, <2>4, <2>5 DEF Promise!Next, Promise!Publish
<1>5. ASSUME NEW p \in Job, Step(p)
      PROVE  [Promise!Next]_(Promise!vars)
  <2>1. CASE Advance(p)
    BY <1>3, <2>1 DEF Advance, Accounted
  <2>2. CASE ~Advance(p)
    BY <1>2, <1>5, <2>2
    DEF Step, ReadPage, ReadLastPage, Reject, Accept, EndOfFeed, Park,
        Accounted
  <2>. QED
    BY <2>1, <2>2
<1>6. CASE ~(\E r \in Record : Publish(r)) /\ ~(\E p \in Job : Step(p))
  <2>1. visible' = visible /\ Accounted' = Accounted
    BY <1>6 DEF Next, Tick, Incremental, Full, Backfill, Begin, Fail,
                ResetWatermark, vars, Accounted
  <2>. QED
    BY <1>3, <2>1
<1>. QED
  BY <1>4, <1>5, <1>6

\* Under the conditions of NoSilentLoss ingestion keeps the whole promise of
\* Feed: nothing held is given up, nothing is invented, and the frontier
\* passes no record that is not held.
THEOREM IngestImplementsFeed ==
  ASSUME Disciplined
  PROVE  Spec => ImplementsFeed
<1>1. Init => Promise!Init
  BY DEF Init, Promise!Init, Accounted, ReadFrom, NULL
<1>2. IInv /\ IInv' /\ [Next]_vars => [Promise!Next]_(Promise!vars)
  BY FeedStep
<1>. QED
  BY <1>1, <1>2, CoverInvariant, PTL DEF Spec, ImplementsFeed, Promise!Spec
=============================================================================
