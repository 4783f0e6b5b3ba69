---------------------------- MODULE Fetch_proofs ----------------------------
(***************************************************************************)
(* Proofs about the store and the walk over its pages, for every feed,     *)
(* number of threads, page size and retry budget.                          *)
(*                                                                         *)
(* CacheCoherent and ServedFresh are not inductive.  The cache is stamped  *)
(* with a time taken before the file was opened, so it can only seem older *)
(* than it is; and while a thread loads, under the lock, the cache stays   *)
(* out of date, so that no request can decide to take it and then find the *)
(* load of an older file in its place.                                     *)
(*                                                                         *)
(* NothingTwice and NothingSkipped need that a page is the beginning of    *)
(* what is left, in order, so that its last record is a cursor that leaves *)
(* no other behind (Sorted, PageIs); and that every version a page can be  *)
(* cut from, in the file, the cache or a thread, has the records that were *)
(* there all along (SightInv).                                             *)
(***************************************************************************)
EXTENDS Fetch, FiniteSetTheorems, SequenceTheorems, WellFoundedInduction,
        TLAPS

Loading(t) == thread[t].pc \in {"open", "keep"}

\* What the request of a thread knows about the file and the cache.
ThreadInv(t) ==
  /\ thread[t].mtime <= disk.mtime
  /\ thread[t].began <= disk.mtime
  /\ Loading(t) => lock = {t} /\ ~Current
  /\ thread[t].pc = "keep" =>
       /\ thread[t].mtime <= thread[t].got.version
       /\ disk.exists /\ thread[t].mtime = disk.mtime
            => thread[t].got.rows = disk.rows
  /\ thread[t].op = "page" =>
       /\ thread[t].pc \in {"check", "take", "lock", "open", "keep"}
            => disk.exists
       /\ thread[t].pc = "take"
            => cache = NoRecords \/ cache.version >= thread[t].began
       /\ thread[t].pc = "keep" => thread[t].got.version >= thread[t].began
  /\ thread[t].pc = "reply" /\ thread[t].status = 200
       => thread[t].got.version >= thread[t].began

\* A load that is about to replace the cache is as fresh as any request that
\* has decided to take it.
LoadsFreshEnough ==
  \A t, u \in Thread :
    thread[t].op = "page" /\ thread[t].pc = "take" /\ thread[u].pc = "keep"
      => thread[u].got.version >= thread[t].began

CacheInv ==
  /\ stamp <= disk.mtime
  /\ cache # NoRecords => cache.version >= stamp
  /\ CacheCoherent

StoreInv ==
  /\ StoreTypeOK
  /\ CacheInv
  /\ LoadsFreshEnough
  /\ \A t \in Thread : ThreadInv(t)

\* The client of a page has its answer, or is gone.
Release(t) ==
  /\ Becomes(t, Free) \/ Abandon(t)
  /\ UNCHANGED <<disk, cache, stamp, lock>>

StoreStep ==
  \/ FileStep
  \/ \E t \in Thread : ThreadStep(t)
  \/ \E t \in Thread, op \in {"page", "other", "reload"} : Accept(t, op)
  \/ \E t \in Thread : Release(t)
  \/ Restart
  \/ UNCHANGED storeVars

-----------------------------------------------------------------------------
\* The names of operations and places, and the codes of answers.
LEMMA Names ==
  /\ "none" \in Op /\ "page" \in Op /\ "other" \in Op /\ "reload" \in Op
  /\ "free" \in Pc /\ "available" \in Pc /\ "check" \in Pc /\ "take" \in Pc
  /\ "lock" \in Pc /\ "open" \in Pc /\ "keep" \in Pc /\ "reset" \in Pc
  /\ "reply" \in Pc
  /\ 0 \in Status /\ 200 \in Status /\ 400 \in Status /\ 429 \in Status
  /\ 500 \in Status /\ 503 \in Status
  BY DEF Op, Pc, Status

\* An idle thread is in a state of a request, and no cache is a cache.
LEMMA FreeType ==
  /\ Free \in RequestState
  /\ Free.pc = "free" /\ Free.mtime = 0 /\ Free.began = 0
  /\ NoRecords \in Records
  BY DEF Free, NoRecords, RequestState, Records, Op, Pc, Status

\* Only the request of one thread changes.
LEMMA Update ==
  ASSUME StoreTypeOK, NEW t \in Thread, NEW s \in RequestState, Becomes(t, s)
  PROVE  /\ thread' \in [Thread -> RequestState]
         /\ thread'[t] = s
         /\ \A u \in Thread : u # t => thread'[u] = thread[u]
  BY DEF Becomes, StoreTypeOK

\* A change leaves the file well typed and newer than before.
LEMMA Changed ==
  ASSUME StoreTypeOK, NEW file \in FileState, Changes(file)
  PROVE  /\ StoreTypeOK'
         /\ disk'.mtime = disk.mtime + 1
         /\ disk'.exists = file.exists
         /\ UNCHANGED <<cache, stamp, lock, thread>>
  BY DEF Changes, StoreTypeOK, FileState, RequestState

\* A file that is there stays there.
LEMMA FileChange ==
  ASSUME StoreTypeOK, FileStep
  PROVE  /\ StoreTypeOK'
         /\ disk'.mtime = disk.mtime + 1
         /\ disk.exists => disk'.exists
         /\ UNCHANGED <<cache, stamp, lock, thread>>
<1>0. disk \in FileState
  BY DEF StoreTypeOK
<1>1. ASSUME NEW r \in Record, AppendRecord(r)
      PROVE  \E file \in FileState :
               (disk.exists => file.exists) /\ Changes(file)
  <2> DEFINE file == [disk EXCEPT !.rows = @ \cup {r}, !.goal = @ \cup {r}]
  <2>1. file \in FileState /\ file.exists = disk.exists
    BY <1>0 DEF FileState
  <2>2. Changes(file)
    BY <1>1 DEF AppendRecord
  <2> QED
    BY <2>1, <2>2
<1>2. ASSUME NEW d \in Dataset, StartWrite(d)
      PROVE  \E file \in FileState :
               (disk.exists => file.exists) /\ Changes(file)
  <2> DEFINE file == [disk EXCEPT !.exists = TRUE, !.rows = {}, !.goal = d]
  <2>1. file \in FileState /\ file.exists
    BY <1>0, StoreAssumption DEF FileState
  <2>2. Changes(file)
    BY <1>2 DEF StartWrite
  <2> QED
    BY <2>1, <2>2
<1>3. ASSUME NEW p \in SUBSET Record, NEW torn \in BOOLEAN, Write(p, torn)
      PROVE  \E file \in FileState :
               (disk.exists => file.exists) /\ Changes(file)
  <2> DEFINE file == [disk EXCEPT !.rows = p, !.torn = torn]
  <2>1. file \in FileState /\ file.exists = disk.exists
    BY <1>0 DEF FileState
  <2>2. Changes(file)
    BY <1>3 DEF Write
  <2> QED
    BY <2>1, <2>2
<1>4. \E file \in FileState : (disk.exists => file.exists) /\ Changes(file)
  BY <1>1, <1>2, <1>3 DEF FileStep
<1>5. PICK file \in FileState : (disk.exists => file.exists) /\ Changes(file)
  BY <1>4
<1> QED
  BY <1>5, Changed

\* A change of the file makes every cache and every load under way outdated.
LEMMA FileKeepsInv ==
  ASSUME StoreInv, FileStep
  PROVE  StoreInv'
<1>1. StoreTypeOK /\ CacheInv /\ LoadsFreshEnough /\ \A t \in Thread : ThreadInv(t)
  BY DEF StoreInv
<1>2. /\ StoreTypeOK'
      /\ disk'.mtime = disk.mtime + 1
      /\ disk.exists => disk'.exists
      /\ UNCHANGED <<cache, stamp, lock, thread>>
  BY <1>1, FileChange
<1>3. disk.mtime \in Nat /\ stamp \in Nat
  BY <1>1 DEF StoreTypeOK, FileState
<1>4. CacheInv'
  BY <1>1, <1>2, <1>3 DEF CacheInv, CacheCoherent, NoRecords
<1>5. LoadsFreshEnough'
  BY <1>1, <1>2 DEF LoadsFreshEnough
<1>6. ASSUME NEW t \in Thread PROVE ThreadInv(t)'
  <2>1. ThreadInv(t) /\ thread[t].mtime \in Nat /\ thread[t].began \in Nat
    BY <1>1 DEF StoreTypeOK, RequestState
  <2>2. ~Current => ~Current'
    BY <1>1, <1>2, <1>3 DEF Current, FileMtime, CacheInv, NoRecords
  <2> QED
    BY <1>2, <1>3, <2>1, <2>2 DEF ThreadInv, Loading, NoRecords
<1> QED
  BY <1>2, <1>4, <1>5, <1>6 DEF StoreInv

\* A step of one thread that touches nothing else.
LEMMA ThreadMoves ==
  ASSUME StoreInv, NEW t \in Thread, NEW s \in RequestState, Becomes(t, s),
         UNCHANGED <<disk, cache, stamp, lock>>,
         ThreadInv(t)',
         s.op = "page" /\ s.pc = "take" =>
           \A u \in Thread :
             thread[u].pc = "keep" => thread[u].got.version >= s.began,
         s.pc = "keep" =>
           \A u \in Thread :
             thread[u].op = "page" /\ thread[u].pc = "take"
               => s.got.version >= thread[u].began
  PROVE  StoreInv'
<1>1. StoreTypeOK /\ CacheInv /\ LoadsFreshEnough /\ \A u \in Thread : ThreadInv(u)
  BY DEF StoreInv
<1>2. /\ thread' \in [Thread -> RequestState]
      /\ thread'[t] = s
      /\ \A u \in Thread : u # t => thread'[u] = thread[u]
  BY <1>1, Update
<1>3. StoreTypeOK'
  BY <1>1, <1>2 DEF StoreTypeOK
<1>4. CacheInv'
  BY <1>1 DEF CacheInv, CacheCoherent, NoRecords
<1>5. LoadsFreshEnough'
  BY <1>1, <1>2 DEF LoadsFreshEnough
<1>6. ASSUME NEW u \in Thread, u # t PROVE ThreadInv(u)'
  <2>1. ThreadInv(u) /\ thread'[u] = thread[u] /\ (Current' <=> Current)
    BY <1>1, <1>2, <1>6 DEF Current, FileMtime, NoRecords
  <2> QED
    BY <2>1 DEF ThreadInv, Loading, NoRecords
<1> QED
  BY <1>3, <1>4, <1>5, <1>6 DEF StoreInv

\* A thread that is idle, or waits for its client, keeps every promise.
LEMMA Quiet ==
  ASSUME StoreInv, NEW t \in Thread, NEW s \in RequestState, Becomes(t, s),
         UNCHANGED disk,
         s.pc \in {"free", "available", "check", "reset", "reply"},
         s.mtime <= disk.mtime, s.began <= disk.mtime,
         s.op = "page" /\ s.pc = "check" => disk.exists,
         s.pc = "reply" /\ s.status = 200 => s.got.version >= s.began
  PROVE  ThreadInv(t)'
<1>1. thread'[t] = s
  BY Update DEF StoreInv
<1> QED
  BY <1>1 DEF ThreadInv, Loading

\* A quiet thread may move as it likes.
LEMMA QuietMove ==
  ASSUME StoreInv, NEW t \in Thread, NEW s \in RequestState, Becomes(t, s),
         UNCHANGED <<disk, cache, stamp, lock>>,
         s.pc \in {"free", "available", "check", "reset", "reply"},
         s.mtime <= disk.mtime, s.began <= disk.mtime,
         s.op = "page" /\ s.pc = "check" => disk.exists,
         s.pc = "reply" /\ s.status = 200 => s.got.version >= s.began
  PROVE  StoreInv'
  BY Quiet, ThreadMoves

\* An answer is what the client of a page waits for, or the end of a request.
LEMMA AnswerType ==
  ASSUME StoreTypeOK, NEW t \in Thread,
         NEW status \in Status,
         NEW got \in Records,
         Answers(t, status, got)
  PROVE  \E s \in RequestState :
           /\ Becomes(t, s)
           /\ s.pc \in {"free", "reply"} /\ s.mtime = 0
           /\ s.began \in {0, thread[t].began}
           /\ s.pc = "reply" => thread[t].op = "page" /\ s.status = status
                                /\ s.got = got /\ s.began = thread[t].began
<1> DEFINE s == [thread[t] EXCEPT !.pc = "reply", !.status = status,
                                  !.got = got, !.mtime = 0]
<1>1. CASE thread[t].op = "page"
  <2>0. "reply" \in Pc /\ thread[t] \in RequestState
    BY Names DEF StoreTypeOK
  <2>1. s \in RequestState /\ s.pc = "reply" /\ s.mtime = 0 /\ s.status = status
        /\ s.got = got /\ s.began = thread[t].began
    BY <2>0 DEF RequestState
  <2>2. Becomes(t, s)
    BY <1>1 DEF Answers
  <2> QED
    BY <1>1, <2>1, <2>2
<1>2. CASE thread[t].op # "page"
  <2>1. Becomes(t, Free)
    BY <1>2, Zenon DEF Answers
  <2> QED
    BY <2>1, FreeType
<1> QED
  BY <1>1, <1>2

\* An answer that leaves file, cache and lock alone, and is as fresh as its
\* request, is safe.
LEMMA AnswerKeepsInv ==
  ASSUME StoreInv, NEW t \in Thread,
         NEW status \in Status,
         NEW got \in Records,
         Answers(t, status, got),
         UNCHANGED <<disk, cache, stamp, lock>>,
         thread[t].op = "page" /\ status = 200
           => got.version >= thread[t].began
  PROVE  StoreInv'
<1>1. StoreTypeOK /\ ThreadInv(t)
  BY DEF StoreInv
<1>2. PICK s \in RequestState :
        /\ Becomes(t, s)
        /\ s.pc \in {"free", "reply"} /\ s.mtime = 0
        /\ s.began \in {0, thread[t].began}
        /\ s.pc = "reply" => thread[t].op = "page" /\ s.status = status
                             /\ s.got = got /\ s.began = thread[t].began
  BY <1>1, AnswerType
<1>3. disk.mtime \in Nat /\ thread[t].began \in Nat
  BY <1>1 DEF StoreTypeOK, FileState, RequestState
<1>4. s.mtime <= disk.mtime /\ s.began <= disk.mtime
  BY <1>1, <1>2, <1>3 DEF ThreadInv
<1> QED
  BY <1>2, <1>4, QuietMove

\* What a thread does without the lock and without touching the cache.
LEMMA UnlockedKeepsInv ==
  ASSUME StoreInv, NEW t \in Thread,
         \/ \E op \in {"page", "other", "reload"} : Accept(t, op)
         \/ \E status \in {429, 503} : MaybeFail(t, status)
         \/ Available(t)
         \/ Check(t)
         \/ Take(t)
         \/ Release(t)
  PROVE  StoreInv'
<1>1. /\ StoreTypeOK /\ CacheInv /\ ThreadInv(t)
      /\ \A u \in Thread : ThreadInv(u)
  BY DEF StoreInv
<1>2. /\ disk.mtime \in Nat /\ stamp \in Nat /\ thread[t] \in RequestState
      /\ cache \in Records
  BY <1>1 DEF StoreTypeOK, FileState
<1>3. thread[t].mtime <= disk.mtime /\ thread[t].began <= disk.mtime
  BY <1>1 DEF ThreadInv
<1>4. ASSUME NEW op \in {"page", "other", "reload"}, Accept(t, op)
      PROVE  StoreInv'
  <2>1. CASE op = "page"
    <3> DEFINE s == [Free EXCEPT !.op = op, !.pc = "available",
                                 !.began = disk.mtime]
    <3>0. op \in Op /\ "available" \in Pc
      BY Names, <2>1
    <3>1. s \in RequestState /\ s.pc = "available" /\ s.mtime = 0
          /\ s.began = disk.mtime
      BY <1>2, <3>0, FreeType DEF RequestState
    <3>2. Becomes(t, s) /\ UNCHANGED <<disk, cache, stamp, lock>>
      BY <1>4, <2>1, Zenon DEF Accept
    <3> HIDE DEF s
    <3> QED
      BY <1>2, <3>1, <3>2, QuietMove
  <2>2. CASE op = "other"
    <3> DEFINE s == [Free EXCEPT !.op = op, !.pc = "check"]
    <3>0. op \in Op /\ "check" \in Pc
      BY Names, <2>2
    <3>1. s \in RequestState /\ s.pc = "check" /\ s.mtime = 0 /\ s.began = 0
          /\ s.op = "other"
      BY <1>2, <2>2, <3>0, FreeType DEF RequestState
    <3>2. Becomes(t, s) /\ UNCHANGED <<disk, cache, stamp, lock>>
      BY <1>4, <2>2, Zenon DEF Accept
    <3> HIDE DEF s
    <3> QED
      BY <1>2, <3>1, <3>2, QuietMove
  <2>3. CASE op = "reload"
    <3> DEFINE s == [Free EXCEPT !.op = op, !.pc = "reset"]
    <3>0. op \in Op /\ "reset" \in Pc
      BY Names, <2>3
    <3>1. s \in RequestState /\ s.pc = "reset" /\ s.mtime = 0 /\ s.began = 0
      BY <1>2, <3>0, FreeType DEF RequestState
    <3>2. Becomes(t, s) /\ UNCHANGED <<disk, cache, stamp, lock>>
      BY <1>4, <2>3, Zenon DEF Accept
    <3> HIDE DEF s
    <3> QED
      BY <1>2, <3>1, <3>2, QuietMove
  <2> QED
    BY <2>1, <2>2, <2>3
<1>5. ASSUME NEW status \in {429, 503}, MaybeFail(t, status) PROVE StoreInv'
  BY <1>5, FreeType, Names, AnswerKeepsInv DEF MaybeFail
<1>6. CASE Available(t)
  <2>1. CASE disk.exists
    <3> DEFINE s == [thread[t] EXCEPT !.pc = "check"]
    <3>0. "check" \in Pc
      BY Names
    <3>1. s \in RequestState /\ s.pc = "check" /\ s.mtime = thread[t].mtime
          /\ s.began = thread[t].began
      BY <1>2, <3>0 DEF RequestState
    <3>2. Becomes(t, s) /\ UNCHANGED <<disk, cache, stamp, lock>>
      BY <1>6, <2>1 DEF Available, Moves
    <3> QED
      BY <1>3, <2>1, <3>1, <3>2, QuietMove
  <2>2. CASE ~disk.exists
    BY <1>6, <2>2, FreeType, Names, AnswerKeepsInv DEF Available
  <2> QED
    BY <2>1, <2>2
<1>7. CASE Check(t)
  <2> DEFINE s == [thread[t] EXCEPT !.pc = IF Current THEN "take" ELSE "lock"]
  <2>0. (IF Current THEN "take" ELSE "lock") \in Pc
    BY Names
  <2>1. /\ s \in RequestState /\ s.mtime = thread[t].mtime
        /\ s.began = thread[t].began /\ s.op = thread[t].op
        /\ s.pc = (IF Current THEN "take" ELSE "lock")
    BY <1>2, <2>0 DEF RequestState
  <2>2. Becomes(t, s) /\ UNCHANGED <<disk, cache, stamp, lock>>
    BY <1>7 DEF Check, Moves
  <2>3. thread'[t] = s
    BY <1>1, <2>1, <2>2, Update
  <2> HIDE DEF s
  <2>4. thread[t].op = "page" => disk.exists
    BY <1>1, <1>7 DEF Check, ThreadInv
  <2>5. thread[t].op = "page" /\ Current => cache.version >= thread[t].began
    BY <1>1, <1>2, <1>3, <2>4 DEF Current, FileMtime, CacheInv, RequestState,
           Records
  <2>6. ThreadInv(t)'
    BY <1>1, <2>1, <2>2, <2>3, <2>4, <2>5 DEF ThreadInv, Loading, NoRecords
  <2>7. Current => \A u \in Thread : thread[u].pc # "keep"
    BY <1>1 DEF ThreadInv, Loading
  <2> QED
    BY <2>1, <2>2, <2>6, <2>7, ThreadMoves
<1>8. CASE Take(t)
  <2>1. thread[t].op = "page" /\ cache # NoRecords
          => cache.version >= thread[t].began
    BY <1>1, <1>8 DEF Take, ThreadInv
  <2> QED
    BY <1>2, <1>8, <2>1, Names, AnswerKeepsInv DEF Take
<1>9. CASE Release(t)
  <2>1. CASE Becomes(t, Free)
    BY <1>2, <1>9, <2>1, FreeType, QuietMove DEF Release
  <2>2. CASE thread[t].pc # "reply" /\ Abandon(t)
    <3> DEFINE s == [thread[t] EXCEPT !.op = "other", !.began = 0]
    <3>0. "other" \in Op
      BY Names
    <3>1. /\ s \in RequestState /\ s.op = "other" /\ s.began = 0
          /\ s.pc = thread[t].pc /\ s.mtime = thread[t].mtime
          /\ s.got = thread[t].got
      BY <1>2, <3>0 DEF RequestState
    <3>2. Becomes(t, s) /\ UNCHANGED <<disk, cache, stamp, lock>>
      BY <1>9, <2>2 DEF Release, Abandon
    <3>3. thread'[t] = s
      BY <1>1, <3>1, <3>2, Update
    <3> HIDE DEF s
    <3>4. Current' <=> Current
      BY <3>2 DEF Current, FileMtime, NoRecords
    <3>5. ThreadInv(t)'
      BY <1>1, <1>2, <2>2, <3>1, <3>2, <3>3, <3>4
      DEF ThreadInv, Loading, NoRecords
    <3> QED
      BY <1>1, <3>1, <3>2, <3>5, ThreadMoves DEF LoadsFreshEnough, StoreInv
  <2> QED
    BY <1>9, <2>1, <2>2 DEF Release, Abandon
<1> QED
  BY <1>4, <1>5, <1>6, <1>7, <1>8, <1>9

\* A step of the only thread that may hold the lock, which may give the lock
\* up and put another cache in place.
LEMMA HolderMoves ==
  ASSUME StoreInv, NEW t \in Thread, NEW s \in RequestState, Becomes(t, s),
         UNCHANGED disk,
         cache' \in Records, stamp' \in Nat, lock' \in SUBSET Thread,
         CacheInv', ThreadInv(t)',
         s.pc \notin {"take", "keep"},
         \A u \in Thread : u # t =>
           /\ ~Loading(u)
           /\ thread[u].op = "page" /\ thread[u].pc = "take"
                => cache' = NoRecords \/ cache'.version >= thread[u].began
  PROVE  StoreInv'
<1>1. StoreTypeOK /\ \A u \in Thread : ThreadInv(u)
  BY DEF StoreInv
<1>2. /\ thread' \in [Thread -> RequestState]
      /\ thread'[t] = s
      /\ \A u \in Thread : u # t => thread'[u] = thread[u]
  BY <1>1, Update
<1>3. StoreTypeOK'
  BY <1>1, <1>2 DEF StoreTypeOK
<1>4. LoadsFreshEnough'
  BY <1>2 DEF LoadsFreshEnough, Loading
<1>5. ASSUME NEW u \in Thread, u # t PROVE ThreadInv(u)'
  BY <1>1, <1>2, <1>5 DEF ThreadInv, Loading, NoRecords
<1> QED
  BY <1>3, <1>4, <1>5 DEF StoreInv

\* No thread but the holder of the lock is loading.
LEMMA OneLoads ==
  ASSUME StoreInv, NEW t \in Thread, lock = {} \/ Loading(t)
  PROVE  \A u \in Thread : u # t => ~Loading(u)
  BY DEF StoreInv, ThreadInv

\* What a thread does with the lock.
LEMMA LockedKeepsInv ==
  ASSUME StoreInv, NEW t \in Thread,
         \/ Lock(t) \/ OpenMissing(t) \/ OpenTorn(t) \/ Load(t) \/ Keep(t)
         \/ Reset(t)
  PROVE  StoreInv'
<1>1. /\ StoreTypeOK /\ CacheInv /\ LoadsFreshEnough
      /\ \A u \in Thread : ThreadInv(u)
  BY DEF StoreInv
<1>2. /\ disk.mtime \in Nat /\ stamp \in Nat /\ thread[t] \in RequestState
      /\ disk.rows \in SUBSET Record /\ lock \in SUBSET Thread
      /\ cache \in Records
  BY <1>1 DEF StoreTypeOK, FileState
<1>3. /\ thread[t].mtime <= disk.mtime /\ thread[t].began <= disk.mtime
      /\ thread[t].mtime \in Nat /\ thread[t].began \in Nat
      /\ thread[t].got \in Records
  BY <1>1, <1>2 DEF ThreadInv, RequestState
<1>4. ASSUME NEW u \in Thread
      PROVE  /\ thread[u].began \in Nat /\ thread[u].began <= disk.mtime
             /\ thread[u].op = "page" /\ thread[u].pc = "take"
                  => cache = NoRecords \/ cache.version >= thread[u].began
  BY <1>1 DEF StoreTypeOK, ThreadInv, RequestState
<1>5. CASE Lock(t) /\ Current
  <2>1. Answers(t, 200, cache) /\ UNCHANGED <<disk, cache, stamp, lock>>
        /\ thread[t].pc = "lock"
    BY <1>5 DEF Lock
  <2>2. thread[t].op = "page" => disk.exists
    BY <1>1, <2>1 DEF ThreadInv
  <2>3. thread[t].op = "page" => cache.version >= thread[t].began
    BY <1>1, <1>2, <1>3, <1>5, <2>2 DEF Current, FileMtime, CacheInv, Records
  <2>4. 200 \in Status
    BY Names
  <2> QED
    BY <1>2, <2>1, <2>3, <2>4, AnswerKeepsInv
<1>6. CASE Lock(t) /\ ~Current
  <2> DEFINE s == [thread[t] EXCEPT !.pc = "open", !.mtime = FileMtime]
  <2>1. /\ Becomes(t, s) /\ lock' = {t} /\ UNCHANGED <<disk, cache, stamp>>
        /\ lock = {} /\ thread[t].pc = "lock"
    BY <1>6 DEF Lock
  <2>2. "open" \in Pc /\ FileMtime \in Nat /\ FileMtime <= disk.mtime
    BY <1>2, Names DEF FileMtime
  <2>3. /\ s \in RequestState /\ s.pc = "open" /\ s.mtime = FileMtime
        /\ s.op = thread[t].op /\ s.began = thread[t].began
    BY <1>2, <2>2 DEF RequestState
  <2>4. thread'[t] = s
    BY <1>1, <2>1, <2>3, Update
  <2> HIDE DEF s
  <2>5. ~Current' /\ CacheInv'
    BY <1>1, <1>6, <2>1
    DEF Current, FileMtime, NoRecords, CacheInv, CacheCoherent
  <2>6. ThreadInv(t)'
    BY <1>1, <1>3, <2>1, <2>2, <2>3, <2>4, <2>5 DEF ThreadInv, Loading
  <2>7. lock' \in SUBSET Thread /\ cache' \in Records /\ stamp' \in Nat
        /\ s.pc \notin {"take", "keep"}
    BY <1>2, <2>1, <2>3
  <2>8. \A u \in Thread : u # t =>
           /\ ~Loading(u)
           /\ thread[u].op = "page" /\ thread[u].pc = "take"
                => cache' = NoRecords \/ cache'.version >= thread[u].began
    BY <1>4, <2>1, OneLoads DEF NoRecords
  <2> QED
    BY <2>1, <2>3, <2>5, <2>6, <2>7, <2>8, HolderMoves
<1>7. CASE Load(t)
  <2> DEFINE got == [version |-> disk.mtime, rows |-> disk.rows]
             s == [thread[t] EXCEPT !.pc = "keep", !.got = got]
  <2>1. /\ Becomes(t, s) /\ UNCHANGED <<disk, cache, stamp, lock>>
        /\ thread[t].pc = "open"
    BY <1>7 DEF Load
  <2>2. "keep" \in Pc /\ got \in Records /\ got.version = disk.mtime
        /\ got.rows = disk.rows
    BY <1>2, Names DEF Records
  <2> HIDE DEF got
  <2>3. /\ s \in RequestState /\ s.pc = "keep" /\ s.mtime = thread[t].mtime
        /\ s.op = thread[t].op /\ s.began = thread[t].began /\ s.got = got
    BY <1>2, <2>2 DEF RequestState
  <2>4. thread'[t] = s
    BY <1>1, <2>1, <2>3, Update
  <2> HIDE DEF s
  <2>5. Current' <=> Current
    BY <2>1 DEF Current, FileMtime, NoRecords
  <2>6. ThreadInv(t)'
    BY <1>1, <1>3, <2>1, <2>2, <2>3, <2>4, <2>5 DEF ThreadInv, Loading
  <2> QED
    BY <1>4, <2>1, <2>2, <2>3, <2>6, ThreadMoves
<1>8. ASSUME NEW status \in Status, NEW got \in Records,
             Answers(t, status, got), UNCHANGED disk, Loading(t),
             cache' \in Records, stamp' \in Nat, lock' = {}, CacheInv',
             status = 200 /\ thread[t].op = "page"
               => got.version >= thread[t].began,
             \A u \in Thread :
               thread[u].op = "page" /\ thread[u].pc = "take"
                 => cache' = NoRecords \/ cache'.version >= thread[u].began
      PROVE  StoreInv'
  <2>1. PICK s \in RequestState :
          /\ Becomes(t, s)
          /\ s.pc \in {"free", "reply"} /\ s.mtime = 0
          /\ s.began \in {0, thread[t].began}
          /\ s.pc = "reply" => thread[t].op = "page" /\ s.status = status
                               /\ s.got = got /\ s.began = thread[t].began
    BY <1>1, <1>8, AnswerType
  <2>2. s.mtime <= disk.mtime /\ s.began <= disk.mtime
    BY <1>2, <1>3, <2>1
  <2>3. ThreadInv(t)'
    BY <1>8, <2>1, <2>2, Quiet
  <2>4. \A u \in Thread : u # t => ~Loading(u)
    BY <1>8, OneLoads
  <2> QED
    BY <1>8, <2>1, <2>3, <2>4, HolderMoves
<1>9. CASE OpenMissing(t)
  <2> DEFINE nothing == [version |-> disk.mtime, rows |-> {}]
  <2>1. /\ cache' = nothing /\ Answers(t, 200, nothing) /\ lock' = {}
        /\ UNCHANGED <<disk, stamp>> /\ thread[t].pc = "open" /\ ~disk.exists
    BY <1>9 DEF OpenMissing
  <2>2. nothing \in Records /\ nothing.version = disk.mtime /\ 200 \in Status
    BY <1>2, Names DEF Records
  <2> HIDE DEF nothing
  <2>3. CacheInv'
    BY <1>1, <2>1, <2>2 DEF CacheInv, CacheCoherent
  <2>4. Loading(t)
    BY <2>1 DEF Loading
  <2> QED
    BY <1>2, <1>3, <1>4, <1>8, <2>1, <2>2, <2>3, <2>4
<1>10. CASE OpenTorn(t)
  <2>1. /\ Answers(t, ErrorStatus(t), NoRecords) /\ lock' = {}
        /\ UNCHANGED <<disk, cache, stamp>> /\ Loading(t)
    BY <1>10 DEF OpenTorn, Loading
  <2>2. ErrorStatus(t) \in Status /\ ErrorStatus(t) # 200
    BY Names DEF ErrorStatus
  <2>3. CacheInv'
    BY <1>1, <2>1 DEF CacheInv, CacheCoherent, NoRecords
  <2>4. cache' = NoRecords <=> cache = NoRecords
    BY <2>1
  <2> QED
    BY <1>2, <1>4, <1>8, <2>1, <2>2, <2>3, <2>4, FreeType
<1>11. CASE Keep(t)
  <2>1. /\ Answers(t, 200, thread[t].got) /\ lock' = {} /\ UNCHANGED disk
        /\ cache' = thread[t].got /\ stamp' = thread[t].mtime
        /\ thread[t].pc = "keep"
    BY <1>11 DEF Keep
  <2>2. Loading(t) /\ 200 \in Status
    BY <2>1, Names DEF Loading
  <2>3. CacheInv'
    BY <1>1, <1>3, <2>1 DEF CacheInv, CacheCoherent, ThreadInv
  <2>4. thread[t].op = "page" => thread[t].got.version >= thread[t].began
    BY <1>1, <2>1 DEF ThreadInv
  <2>5. \A u \in Thread :
          thread[u].op = "page" /\ thread[u].pc = "take"
            => cache'.version >= thread[u].began
    BY <1>1, <2>1 DEF LoadsFreshEnough
  <2> QED
    BY <1>3, <1>8, <2>1, <2>2, <2>3, <2>4, <2>5
<1>12. CASE Reset(t)
  <2> DEFINE s == [thread[t] EXCEPT !.pc = "check", !.op = "other"]
  <2>1. /\ Becomes(t, s) /\ lock = {} /\ UNCHANGED <<disk, lock>>
        /\ cache' = NoRecords /\ stamp' = 0
    BY <1>12 DEF Reset
  <2>2. "check" \in Pc /\ "other" \in Op
    BY Names
  <2>3. /\ s \in RequestState /\ s.pc = "check" /\ s.mtime = thread[t].mtime
        /\ s.op = "other" /\ s.began = thread[t].began
    BY <1>2, <2>2 DEF RequestState
  <2> HIDE DEF s
  <2>4. ThreadInv(t)'
    BY <1>3, <2>1, <2>3, Quiet
  <2>5. CacheInv'
    BY <1>2, <2>1 DEF CacheInv, CacheCoherent, NoRecords
  <2>6. \A u \in Thread : u # t => ~Loading(u)
    BY <2>1, OneLoads
  <2>7. cache' = NoRecords /\ cache' \in Records /\ stamp' \in Nat
        /\ lock' \in SUBSET Thread /\ s.pc \notin {"take", "keep"}
    BY <1>2, <2>1, <2>3, FreeType DEF NoRecords
  <2> QED
    BY <2>1, <2>3, <2>4, <2>5, <2>6, <2>7, HolderMoves
<1> QED
  BY <1>5, <1>6, <1>7, <1>9, <1>10, <1>11, <1>12

\* A restart forgets everything but the file.
LEMMA RestartKeepsInv ==
  ASSUME StoreInv, Restart
  PROVE  StoreInv'
<1>1. disk \in FileState /\ disk.mtime \in Nat
  BY DEF StoreInv, StoreTypeOK, FileState
<1>2. thread' = [t \in Thread |-> Free] /\ cache' = NoRecords /\ stamp' = 0
      /\ lock' = {} /\ disk' = disk
  BY DEF Restart
<1>3. StoreTypeOK'
  BY <1>1, <1>2, FreeType DEF StoreTypeOK
<1>4. CacheInv'
  BY <1>1, <1>2 DEF CacheInv, CacheCoherent, NoRecords
<1>5. \A t \in Thread : thread'[t] = Free
  BY <1>2
<1>6. LoadsFreshEnough'
  BY <1>5, FreeType DEF LoadsFreshEnough
<1>7. ASSUME NEW t \in Thread PROVE ThreadInv(t)'
  <2>1. Free.op = "none"
    BY DEF Free
  <2> QED
    BY <1>1, <1>2, <1>5, <2>1, FreeType DEF ThreadInv, Loading
<1> QED
  BY <1>3, <1>4, <1>6, <1>7 DEF StoreInv

\* Nothing happens to the store.
LEMMA StutterKeepsInv ==
  ASSUME StoreInv, UNCHANGED storeVars
  PROVE  StoreInv'
  BY DEF StoreInv, storeVars, StoreTypeOK, CacheInv, CacheCoherent, NoRecords,
         LoadsFreshEnough, ThreadInv, Loading, Current, FileMtime

\* The store keeps its invariant whatever its file, threads and clients do.
LEMMA StoreKeepsInv == StoreInv /\ StoreStep => StoreInv'
<1> SUFFICES ASSUME StoreInv, StoreStep PROVE StoreInv'
  OBVIOUS
<1>1. ASSUME NEW t \in Thread, ThreadStep(t) PROVE StoreInv'
  <2>1. CASE \/ \E status \in {429, 503} : MaybeFail(t, status)
             \/ Available(t) \/ Check(t) \/ Take(t)
    BY <2>1, UnlockedKeepsInv
  <2>2. CASE \/ Lock(t) \/ OpenMissing(t) \/ OpenTorn(t) \/ Load(t)
             \/ Keep(t) \/ Reset(t)
    BY <2>2, LockedKeepsInv
  <2> QED
    BY <1>1, <2>1, <2>2 DEF ThreadStep
<1> QED
  BY <1>1, FileKeepsInv, UnlockedKeepsInv, RestartKeepsInv, StutterKeepsInv
  DEF StoreStep

-----------------------------------------------------------------------------
(* The walk.                                                               *)

Places == {"ask", "wait", "done", "exhausted", "failed"}

\* The shape of the client's state, whatever its cursor is.
ClientShape ==
  client \in [pc : Places, thread : SUBSET Thread, cursor : {client.cursor},
              attempt : Nat, slept : Nat]

\* A page is asked for as long as attempts are left, and every attempt but the
\* last is followed by at most one sleep of at most the cap.
BudgetInv ==
  /\ client.attempt <= MaxAttempts
  /\ client.slept <= (MaxAttempts - 1) * MaxDelay
  /\ client.pc = "ask" =>
       /\ client.attempt < MaxAttempts
       /\ client.slept <= client.attempt * MaxDelay
  /\ client.pc = "wait" =>
       /\ client.attempt > 0
       /\ client.slept <= (client.attempt - 1) * MaxDelay

ClientInv == ClientShape /\ BudgetInv

\* More attempts leave room for more sleep.
LEMMA MoreAttempts ==
  ASSUME NEW a \in Nat, NEW b \in Nat, NEW c \in Nat, a <= b
  PROVE  a * c <= b * c
  OBVIOUS

\* One more attempt leaves room for one more sleep.
LEMMA OneMore ==
  ASSUME NEW a \in Nat \ {0}, NEW c \in Nat
  PROVE  a * c = (a - 1) * c + c
  OBVIOUS

\* No delay is longer than the cap.
LEMMA DelayBound ==
  ASSUME NEW attempt, NEW told \in SUBSET Nat, NEW d \in Delays(attempt, told)
  PROVE  d \in Nat /\ d <= MaxDelay
<1>1. MaxDelay \in Nat
  BY FetchAssumption
<1>2. CASE told = {}
  BY <1>1, <1>2 DEF Delays, Backoff
<1>3. CASE told # {}
  <2>1. PICK n \in told : d = IF n < MaxDelay THEN n ELSE MaxDelay
    BY <1>3 DEF Delays
  <2> QED
    BY <1>1, <2>1
<1> QED
  BY <1>2, <1>3

\* A failure that is retried keeps to the budget.
LEMMA TransientKeepsInv ==
  ASSUME ClientInv, client.pc = "wait", NEW told \in SUBSET Nat,
         Transient(told)
  PROVE  ClientInv'
<1>1. MaxDelay \in Nat /\ MaxAttempts \in Nat \ {0}
  BY FetchAssumption
<1>2. /\ client.attempt \in Nat /\ client.slept \in Nat
      /\ client.attempt > 0 /\ client.attempt <= MaxAttempts
      /\ client.slept <= (client.attempt - 1) * MaxDelay
      /\ client.slept <= (MaxAttempts - 1) * MaxDelay
  BY DEF ClientInv, ClientShape, BudgetInv
<1>3. CASE client.attempt = MaxAttempts
  <2>0. "exhausted" \in Places
    BY DEF Places
  <2>1. client' = [client EXCEPT !.pc = "exhausted", !.thread = {}]
    BY <1>3 DEF Transient
  <2>2. ClientShape' /\ client'.pc = "exhausted"
        /\ client'.attempt = client.attempt /\ client'.slept = client.slept
    BY <2>0, <2>1 DEF ClientInv, ClientShape
  <2> QED
    BY <1>2, <2>2 DEF ClientInv, BudgetInv
<1>4. CASE client.attempt # MaxAttempts
  <2>0. "ask" \in Places
    BY DEF Places
  <2>1. PICK d \in Delays(client.attempt, told) :
          client' = [client EXCEPT !.pc = "ask", !.thread = {},
                                   !.slept = client.slept + d]
    BY <1>4 DEF Transient
  <2>2. d \in Nat /\ d <= MaxDelay
    BY DelayBound
  <2> DEFINE slept == client.slept + d
  <2>8. slept \in Nat /\ client' = [client EXCEPT !.pc = "ask", !.thread = {},
                                                 !.slept = slept]
    BY <1>2, <2>1, <2>2
  <2> HIDE DEF slept
  <2>9. ClientShape' /\ client'.pc = "ask"
        /\ client'.attempt = client.attempt /\ client'.slept = slept
    BY <2>0, <2>8 DEF ClientInv, ClientShape
  <2>3. ClientShape' /\ client'.pc = "ask"
        /\ client'.attempt = client.attempt
        /\ client'.slept = client.slept + d
    BY <2>9 DEF slept
  <2>4. client.slept + d <= client.attempt * MaxDelay
    <3>1. client.attempt * MaxDelay = (client.attempt - 1) * MaxDelay + MaxDelay
      BY <1>1, <1>2, OneMore
    <3>2. client.attempt * MaxDelay \in Int
          /\ (client.attempt - 1) * MaxDelay \in Int
      BY <1>1, <1>2
    <3> QED
      BY <1>1, <1>2, <2>2, <3>1, <3>2
  <2>5. client.attempt <= MaxAttempts - 1 /\ MaxAttempts - 1 \in Nat
    BY <1>1, <1>2, <1>4
  <2>6. client.attempt * MaxDelay <= (MaxAttempts - 1) * MaxDelay
    BY <1>1, <1>2, <2>5, MoreAttempts
  <2>7. client'.slept <= (MaxAttempts - 1) * MaxDelay
    <3>1. client.attempt * MaxDelay \in Int
          /\ (MaxAttempts - 1) * MaxDelay \in Int
      BY <1>1, <1>2
    <3> QED
      BY <1>2, <2>2, <2>3, <2>4, <2>6, <3>1
  <2> QED
    BY <1>1, <1>2, <2>3, <2>4, <2>5, <2>7 DEF ClientInv, BudgetInv
<1> QED
  BY <1>3, <1>4

\* Every step of the client keeps to the budget.
LEMMA ClientKeepsInv == ClientInv /\ [Next]_vars => ClientInv'
<1> SUFFICES ASSUME ClientInv, [Next]_vars PROVE ClientInv'
  OBVIOUS
<1>0. MaxDelay \in Nat /\ MaxAttempts \in Nat \ {0} /\ RetryAfter \subseteq Nat
  BY FetchAssumption
<1>1. CASE Ask
  <2>0. "wait" \in Places
    BY DEF Places
  <2>1. client.attempt \in Nat /\ client.slept \in Nat /\ client.pc = "ask"
        /\ client.attempt < MaxAttempts
        /\ client.slept <= client.attempt * MaxDelay
        /\ client.slept <= (MaxAttempts - 1) * MaxDelay
    BY <1>1 DEF Ask, ClientInv, ClientShape, BudgetInv
  <2> DEFINE n == client.attempt + 1
  <2>2. n \in Nat /\ n > 0 /\ n <= MaxAttempts /\ n - 1 = client.attempt
    BY <1>0, <2>1
  <2>3. client' = [client EXCEPT !.pc = "wait", !.attempt = n]
    BY <1>1 DEF Ask
  <2> HIDE DEF n
  <2>4. ClientShape' /\ client'.pc = "wait" /\ client'.attempt = n
        /\ client'.slept = client.slept
    BY <2>0, <2>2, <2>3 DEF ClientInv, ClientShape
  <2> QED
    BY <2>1, <2>2, <2>4 DEF ClientInv, BudgetInv
<1>2. CASE Lose
  BY <1>2, TransientKeepsInv DEF Lose
<1>3. ASSUME NEW t \in Thread, Reach(t) PROVE ClientInv'
  <2>1. client' = [client EXCEPT !.thread = {t}]
    BY <1>3 DEF Reach
  <2>2. ClientShape' /\ client'.pc = client.pc /\ client'.slept = client.slept
        /\ client'.attempt = client.attempt
    BY <2>1 DEF ClientInv, ClientShape
  <2> QED
    BY <2>2 DEF ClientInv, BudgetInv
<1>4. ASSUME NEW t \in Thread, Receive(t) PROVE ClientInv'
  <2> DEFINE left == Matching(thread[t].got.rows, client.cursor)
             page == FirstPage(left)
             pc == IF page = left THEN "done" ELSE "ask"
             cursor == IF page = left THEN client.cursor
                       ELSE Last(InOrder(page))
  <2>0. pc \in Places /\ pc \in {"done", "ask"}
    BY DEF Places
  <2>1. client' = [client EXCEPT !.pc = pc, !.thread = {}, !.attempt = 0,
                                 !.slept = 0, !.cursor = cursor]
    BY <1>4 DEF Receive
  <2> HIDE DEF pc, cursor
  <2>2. ClientShape' /\ client'.pc = pc /\ client'.slept = 0
        /\ client'.attempt = 0
    BY <2>0, <2>1 DEF ClientInv, ClientShape
  <2>3. 0 <= (MaxAttempts - 1) * MaxDelay /\ 0 <= 0 * MaxDelay
    BY <1>0, MoreAttempts
  <2> QED
    BY <1>0, <2>0, <2>2, <2>3 DEF ClientInv, BudgetInv
<1>5. ASSUME NEW t \in Thread, Retry(t) PROVE ClientInv'
  <2>1. client.pc = "wait"
    BY <1>5 DEF Retry, Answered
  <2>2. CASE Transient({})
    BY <2>1, <2>2, TransientKeepsInv
  <2>3. ASSUME NEW s \in RetryAfter, Transient({s}) PROVE ClientInv'
    <3>1. {s} \in SUBSET Nat
      BY <1>0
    <3> QED
      BY <2>1, <2>3, <3>1, TransientKeepsInv
  <2>4. Transient({}) \/ \E s \in RetryAfter : Transient({s})
    BY <1>5, Zenon DEF Retry
  <2> QED
    BY <2>2, <2>3, <2>4
<1>6. ASSUME NEW t \in Thread, Refuse(t) PROVE ClientInv'
  <2>0. "failed" \in Places
    BY DEF Places
  <2>1. client' = [client EXCEPT !.pc = "failed", !.thread = {}]
    BY <1>6 DEF Refuse
  <2>2. ClientShape' /\ client'.pc = "failed" /\ client'.slept = client.slept
        /\ client'.attempt = client.attempt
    BY <2>0, <2>1 DEF ClientInv, ClientShape
  <2> QED
    BY <2>2 DEF ClientInv, BudgetInv
<1>7. CASE ServerDies
  <2>1. client' = [client EXCEPT !.thread = {}]
    BY <1>7 DEF ServerDies
  <2>2. ClientShape' /\ client'.pc = client.pc /\ client'.slept = client.slept
        /\ client'.attempt = client.attempt
    BY <2>1 DEF ClientInv, ClientShape
  <2> QED
    BY <2>2 DEF ClientInv, BudgetInv
<1>8. CASE UNCHANGED client
  BY <1>8 DEF ClientInv, ClientShape, BudgetInv
<1> QED
  BY <1>1, <1>2, <1>3, <1>4, <1>5, <1>6, <1>7, <1>8
  DEF Next, vars, FileChanges, ClientAnswer, Serve, Other

\* Every step of the walk is a step of the store.
LEMMA NextIsStoreStep == ClientInv /\ [Next]_vars => StoreStep
<1> SUFFICES ASSUME ClientInv, [Next]_vars PROVE StoreStep
  OBVIOUS
<1>1. client.thread \subseteq Thread
  BY DEF ClientInv, ClientShape
<1>2. CASE Ask \/ UNCHANGED vars
  BY <1>2 DEF Ask, vars, StoreStep, storeVars
<1>3. CASE Lose
  BY <1>1, <1>3 DEF Lose, Release, StoreStep, storeVars
<1>4. ASSUME NEW t \in Thread, Reach(t) PROVE StoreStep
  BY <1>4 DEF Reach, StoreStep
<1>5. ASSUME NEW t \in Thread, ClientAnswer(t) PROVE StoreStep
  BY <1>5 DEF ClientAnswer, Receive, Retry, Refuse, Release, StoreStep
<1>6. ASSUME NEW t \in Thread, Serve(t) PROVE StoreStep
  BY <1>6 DEF Serve, StoreStep
<1>7. ASSUME NEW t \in Thread, Other(t) PROVE StoreStep
  BY <1>7 DEF Other, StoreStep
<1>8. CASE ServerDies
  BY <1>8 DEF ServerDies, StoreStep
<1>9. CASE FileChanges
  BY <1>9 DEF FileChanges, StoreStep
<1> QED
  BY <1>2, <1>3, <1>4, <1>5, <1>6, <1>7, <1>8, <1>9 DEF Next

FetchInv == StoreInv /\ ClientInv

\* The invariant holds in the beginning ...
LEMMA FetchInit == Init => FetchInv
<1> SUFFICES ASSUME Init PROVE FetchInv
  OBVIOUS
<1>0. disk \in FileState /\ disk.mtime = 1
  <2>1. CASE disk = [exists |-> FALSE, mtime |-> 1, rows |-> {}, goal |-> {},
                     torn |-> FALSE]
    BY <2>1 DEF FileState
  <2>2. ASSUME NEW d \in Dataset,
               disk = [exists |-> TRUE, mtime |-> 1, rows |-> d, goal |-> d,
                       torn |-> FALSE]
        PROVE  disk \in FileState /\ disk.mtime = 1
    BY <2>2, StoreAssumption DEF FileState
  <2> QED
    BY <2>1, <2>2 DEF Init, StoreInit
<1>1. /\ cache = NoRecords /\ stamp = 0 /\ lock = {}
      /\ thread = [t \in Thread |-> Free]
      /\ disk \in FileState /\ disk.mtime = 1
  BY <1>0 DEF Init, StoreInit
<1>2. StoreTypeOK
  BY <1>1, FreeType DEF StoreTypeOK
<1>3. CacheInv
  BY <1>1 DEF CacheInv, CacheCoherent
<1>4. \A t \in Thread : thread[t] = Free /\ Free.op = "none"
  BY <1>1 DEF Free
<1>5. LoadsFreshEnough
  BY <1>4 DEF LoadsFreshEnough
<1>6. \A t \in Thread : ThreadInv(t)
  BY <1>1, <1>4, FreeType DEF ThreadInv, Loading
<1>7. MaxDelay \in Nat /\ MaxAttempts \in Nat \ {0}
  BY FetchAssumption
<1>8. 0 <= (MaxAttempts - 1) * MaxDelay /\ 0 <= 0 * MaxDelay
  BY <1>7, MoreAttempts
<1>9. ClientInv
  BY <1>7, <1>8 DEF Init, ClientInv, ClientShape, BudgetInv, Places
<1> QED
  BY <1>2, <1>3, <1>5, <1>6, <1>9 DEF FetchInv, StoreInv

\* ... and every step keeps it.
LEMMA FetchStep == FetchInv /\ [Next]_vars => FetchInv'
  BY StoreKeepsInv, NextIsStoreStep, ClientKeepsInv DEF FetchInv

\* So it is an invariant.
LEMMA FetchInvariant == Spec => []FetchInv
  BY FetchInit, FetchStep, PTL DEF Spec

\* A cache that is taken for current holds what the file holds, for every
\* number of threads, reloads, restarts and rewrites of the file.
THEOREM CacheIsCoherent == Spec => []CacheCoherent
<1>1. FetchInv => CacheCoherent
  BY DEF FetchInv, StoreInv, CacheInv
<1> QED
  BY <1>1, FetchInvariant, PTL

\* No request is answered from a file older than the request.
THEOREM AnswersAreFresh == Spec => []ServedFresh
<1>1. FetchInv => ServedFresh
  BY DEF FetchInv, StoreInv, ThreadInv, ServedFresh
<1> QED
  BY <1>1, FetchInvariant, PTL

\* A page costs no more requests and no more sleep than the retry policy says,
\* for every policy and whatever the server answers.
THEOREM PageIsBounded == Spec => []PageBounded
<1>1. FetchInv => PageBounded
  BY DEF FetchInv, ClientInv, BudgetInv, PageBounded
<1> QED
  BY <1>1, FetchInvariant, PTL

-----------------------------------------------------------------------------
(* Pages.                                                                  *)

LEMMA LeastRecord ==
  ASSUME NEW S \in SUBSET Nat, S # {}
  PROVE  \E x \in S : \A y \in S : x <= y
<1>1. PICK x \in S : \A y \in S : ~ (<<y, x>> \in OpToRel(<, Nat))
  BY NatLessThanWellFounded, WFMin
<1>2. \A y \in S : ~(y < x)
  BY <1>1 DEF OpToRel
<1> QED
  BY <1>2

\* Ranks are counts, and they grow with the records.
LEMMA RankGrows ==
  ASSUME NEW rows \in SUBSET Nat
  PROVE  /\ \A r \in rows : Rank(rows, r) \in Nat
         /\ \A r, s \in rows : r < s => Rank(rows, r) < Rank(rows, s)
<1> DEFINE Below(r) == {s \in rows : s < r}
<1>1. ASSUME NEW r \in rows
      PROVE  IsFiniteSet(Below(r)) /\ Cardinality(Below(r)) \in Nat
  <2>0. r \in Nat /\ \A s \in rows : s \in Nat
    OBVIOUS
  <2>1. Below(r) \in SUBSET Nat /\ \A s \in Below(r) : s <= r
    <3>1. \A s \in rows : s < r => s <= r
      BY <2>0
    <3> QED
      BY <2>0, <3>1
  <2>2. IsFiniteSet(Below(r))
    BY <2>0, <2>1, FS_BoundedSetOfNaturals
  <2> QED
    BY <2>2, FS_CardinalityType
<1>2. ASSUME NEW r \in rows, NEW s \in rows, r < s
      PROVE  Cardinality(Below(r)) < Cardinality(Below(s))
  <2>0. r \in Nat /\ s \in Nat /\ \A x \in rows : x \in Nat
    OBVIOUS
  <2>1. Below(r) \in SUBSET Below(s) /\ r \in Below(s) /\ r \notin Below(r)
    <3>1. \A x \in rows : x < r => x < s
      BY <1>2, <2>0
    <3>2. ~(r < r)
      BY <2>0
    <3> QED
      BY <1>2, <3>1, <3>2
  <2>2. /\ Cardinality(Below(r)) <= Cardinality(Below(s))
        /\ Cardinality(Below(s)) = Cardinality(Below(r)) => Below(s) = Below(r)
    BY <1>1, <2>1, FS_Subset
  <2>3. Below(s) # Below(r)
    BY <2>1
  <2> HIDE DEF Below
  <2> QED
    BY <1>1, <2>2, <2>3
<1> QED
  BY <1>1, <1>2 DEF Rank

\* The ranks of finitely many records are exactly 0 .. their number - 1.
LEMMA RanksAreAll ==
  ASSUME NEW rows \in SUBSET Nat, IsFiniteSet(rows)
  PROVE  /\ Cardinality(rows) \in Nat
         /\ \A r \in rows : Rank(rows, r) \in 0 .. Cardinality(rows) - 1
         /\ \A n \in 0 .. Cardinality(rows) - 1 :
              \E r \in rows : Rank(rows, r) = n
<1> DEFINE n == Cardinality(rows)
           f == [r \in rows |-> Rank(rows, r)]
<1>1. n \in Nat
  BY FS_CardinalityType
<1>2. \A r \in rows : Rank(rows, r) \in Nat
  BY RankGrows
<1>3. ASSUME NEW r \in rows PROVE Rank(rows, r) < n
  <2> DEFINE below == {s \in rows : s < r}
  <2>1. below \in SUBSET rows /\ r \in rows /\ r \notin below
    OBVIOUS
  <2>2. Cardinality(below) <= n /\ (n = Cardinality(below) => rows = below)
    BY <2>1, FS_Subset
  <2>3. rows # below
    BY <2>1
  <2> HIDE DEF below, n
  <2>4. Cardinality(below) \in Nat
    BY <1>2 DEF Rank, below
  <2>5. Cardinality(below) < n
    BY <1>1, <2>2, <2>3, <2>4
  <2> QED
    BY <2>5 DEF Rank, below
<1>4. f \in [rows -> 0 .. n - 1]
  <2> HIDE DEF n
  <2>1. \A r \in rows : Rank(rows, r) \in 0 .. n - 1
    BY <1>1, <1>2, <1>3
  <2> QED
    BY <2>1
<1>5. \A r, s \in rows : f[r] = f[s] => r = s
  <2>1. \A r, s \in rows : r < s \/ s < r \/ r = s
    OBVIOUS
  <2> QED
    BY <1>2, <2>1, RankGrows
<1>6. f \in Injection(rows, 0 .. n - 1)
  BY <1>4, <1>5 DEF Injection, IsInjective
<1>7. IsFiniteSet(0 .. n - 1) /\ Cardinality(0 .. n - 1) = n
  <2> HIDE DEF n
  <2>1. n - 1 \in Int /\ 0 \in Int
    BY <1>1
  <2>2. /\ IsFiniteSet(0 .. n - 1)
        /\ Cardinality(0 .. n - 1) = IF 0 > n - 1 THEN 0 ELSE (n - 1) - 0 + 1
    BY <2>1, FS_Interval
  <2> QED
    BY <1>1, <2>2
<1>8. f \in Surjection(rows, 0 .. n - 1)
  BY <1>6, <1>7, FS_Injection
<1>9. \A k \in 0 .. n - 1 : \E r \in rows : f[r] = k
  BY <1>8 DEF Surjection
<1> QED
  BY <1>1, <1>4, <1>9

\* Sorting returns the records, each once and in order.
LEMMA Sorted ==
  ASSUME NEW rows \in SUBSET Nat, IsFiniteSet(rows)
  PROVE  /\ InOrder(rows) \in Seq(rows)
         /\ Len(InOrder(rows)) = Cardinality(rows)
         /\ \A i, j \in DOMAIN InOrder(rows) :
              i < j => InOrder(rows)[i] < InOrder(rows)[j]
         /\ \A r \in rows : \E i \in DOMAIN InOrder(rows) : InOrder(rows)[i] = r
<1> DEFINE n == Cardinality(rows)
           s == InOrder(rows)
<1>1. /\ n \in Nat
      /\ \A r \in rows : Rank(rows, r) \in 0 .. n - 1
      /\ \A k \in 0 .. n - 1 : \E r \in rows : Rank(rows, r) = k
  BY RanksAreAll
<1>2. s = [i \in 1 .. n |-> CHOOSE r \in rows : Rank(rows, r) = i - 1]
  BY DEF InOrder
<1> HIDE DEF n, s
<1>3. ASSUME NEW i \in 1 .. n
      PROVE  s[i] \in rows /\ Rank(rows, s[i]) = i - 1
  <2>1. i - 1 \in 0 .. n - 1
    BY <1>1
  <2>2. \E r \in rows : Rank(rows, r) = i - 1
    BY <1>1, <2>1
  <2> QED
    BY <1>2, <2>2
<1>4. s \in [1 .. n -> rows] /\ DOMAIN s = 1 .. n
  BY <1>2, <1>3
<1>5. s \in Seq(rows) /\ Len(s) = n
  BY <1>1, <1>4
<1>6. ASSUME NEW i \in 1 .. n, NEW j \in 1 .. n, i < j PROVE s[i] < s[j]
  <2>1. /\ s[i] \in rows /\ s[j] \in rows
        /\ Rank(rows, s[i]) = i - 1 /\ Rank(rows, s[j]) = j - 1
    BY <1>3
  <2>2. s[i] \in Nat /\ s[j] \in Nat
    BY <2>1
  <2>3. s[j] < s[i] => j - 1 < i - 1
    BY <2>1, RankGrows
  <2>4. s[i] = s[j] => i - 1 = j - 1
    BY <2>1
  <2> QED
    BY <1>6, <2>2, <2>3, <2>4
<1>7. ASSUME NEW r \in rows PROVE \E i \in 1 .. n : s[i] = r
  <2> DEFINE i == Rank(rows, r) + 1
  <2>1. i \in 1 .. n /\ i - 1 = Rank(rows, r)
    BY <1>1
  <2>2. s[i] \in rows /\ Rank(rows, s[i]) = Rank(rows, r)
    BY <1>3, <2>1
  <2>3. Rank(rows, r) \in Nat
    BY <1>1
  <2>4. \A x \in rows : Rank(rows, x) = Rank(rows, r) => ~(x < r) /\ ~(r < x)
    BY <2>3, RankGrows
  <2>5. r \in Nat /\ s[i] \in Nat
    BY <2>2
  <2>6. s[i] = r
    BY <2>2, <2>4, <2>5
  <2> QED
    BY <2>1, <2>6
<1> QED
  BY <1>4, <1>5, <1>6, <1>7 DEF s, n

\* The last of the records in order is the greatest.
LEMMA LastIsGreatest ==
  ASSUME NEW rows \in SUBSET Nat, IsFiniteSet(rows), rows # {}
  PROVE  /\ Last(InOrder(rows)) \in rows
         /\ \A r \in rows : r <= Last(InOrder(rows))
<1> DEFINE s == InOrder(rows)
           n == Len(s)
<1>1. /\ s \in Seq(rows)
      /\ \A i, j \in DOMAIN s : i < j => s[i] < s[j]
      /\ \A r \in rows : \E i \in DOMAIN s : s[i] = r
  BY Sorted
<1> HIDE DEF s
<1>2. n \in Nat /\ DOMAIN s = 1 .. n /\ s \in [1 .. n -> rows]
  BY <1>1
<1> HIDE DEF n
<1>3. \E i \in 1 .. n : TRUE
  BY <1>1, <1>2
<1>4. n \in 1 .. n
  BY <1>2, <1>3
<1>5. s[n] \in rows
  BY <1>2, <1>4
<1>6. ASSUME NEW r \in rows PROVE r <= s[n]
  <2>1. PICK i \in 1 .. n : s[i] = r
    BY <1>1, <1>2
  <2>2. i = n \/ i < n
    BY <1>2
  <2>3. r \in Nat /\ s[n] \in Nat
    BY <1>5
  <2>4. i < n => s[i] < s[n]
    BY <1>1, <1>2, <1>4
  <2> QED
    BY <2>1, <2>2, <2>3, <2>4
<1> QED
  BY <1>5, <1>6 DEF Last, s, n

\* A page is a finite beginning of what is left, and empty only if all is.
LEMMA PageIs ==
  ASSUME NEW left \in SUBSET Nat
  PROVE  /\ FirstPage(left) \in SUBSET left
         /\ IsFiniteSet(FirstPage(left))
         /\ left # {} => FirstPage(left) # {}
         /\ \A r \in left, s \in FirstPage(left) :
              r <= s => r \in FirstPage(left)
<1> DEFINE page == FirstPage(left)
           f == [r \in page |-> Rank(left, r)]
<1>0. PageSize \in Nat /\ PageSize > 0
  BY FetchAssumption
<1>1. /\ \A r \in left : Rank(left, r) \in Nat
      /\ \A r, s \in left : r < s => Rank(left, r) < Rank(left, s)
  BY RankGrows
<1>2. /\ page \in SUBSET left
      /\ \A r \in left : r \in page <=> Rank(left, r) < PageSize
  BY DEF FirstPage
<1>3. \A r, s \in left : r \in Nat /\ (r < s \/ s < r \/ r = s)
  <2> TAKE r, s \in left
  <2>1. r \in Nat /\ s \in Nat
    OBVIOUS
  <2> QED
    BY <2>1
<1> HIDE DEF page
<1>4. IsFiniteSet(page)
  <2>1. f \in [page -> 0 .. PageSize - 1]
    BY <1>0, <1>1, <1>2
  <2>2. \A r, s \in page : f[r] = f[s] => r = s
    <3> TAKE r, s \in page
    <3>1. r \in left /\ s \in left
      BY <1>2
    <3>2. Rank(left, r) = Rank(left, s) => ~(r < s) /\ ~(s < r)
      BY <1>1, <3>1
    <3> QED
      BY <1>3, <3>1, <3>2
  <2>3. f \in Injection(page, 0 .. PageSize - 1)
    BY <2>1, <2>2 DEF Injection, IsInjective
  <2>4. IsFiniteSet(0 .. PageSize - 1)
    BY <1>0, FS_Interval
  <2> QED
    BY <2>3, <2>4, FS_Injection
<1>5. ASSUME left # {} PROVE page # {}
  <2>1. PICK r \in left : \A s \in left : r <= s
    BY <1>5, LeastRecord
  <2>2. {s \in left : s < r} = {}
    <3>1. \A s \in left : ~(s < r)
      BY <1>3, <2>1
    <3> QED
      BY <3>1
  <2>3. Rank(left, r) = 0
    BY <2>2, FS_EmptySet DEF Rank
  <2> QED
    BY <1>0, <1>2, <2>3
<1>6. ASSUME NEW r \in left, NEW s \in page, r <= s PROVE r \in page
  <2>1. s \in left /\ Rank(left, s) < PageSize
    BY <1>2
  <2>2. r < s \/ r = s
    BY <1>3, <1>6, <2>1
  <2>3. r < s => Rank(left, r) < Rank(left, s)
    BY <1>1, <2>1
  <2>4. Rank(left, r) \in Nat /\ Rank(left, s) \in Nat
    BY <1>1, <2>1
  <2>5. r < s => Rank(left, r) < PageSize
    BY <1>0, <2>1, <2>3, <2>4
  <2> QED
    BY <1>2, <2>1, <2>2, <2>5
<1> QED
  BY <1>2, <1>4, <1>5, <1>6 DEF page

Increasing(s) == \A i, j \in DOMAIN s : i < j => s[i] < s[j]

\* Records that come after all others may be put behind them.
LEMMA ConcatInOrder ==
  ASSUME NEW s \in Seq(Record), NEW u \in Seq(Record),
         Increasing(s), Increasing(u),
         \A i \in DOMAIN s, j \in DOMAIN u : s[i] < u[j]
  PROVE  /\ s \o u \in Seq(Record)
         /\ Increasing(s \o u)
         /\ Range(s \o u) = Range(s) \cup Range(u)
<1> DEFINE w == s \o u
           m == Len(s)
           n == Len(u)
<1>1. /\ m \in Nat /\ n \in Nat /\ DOMAIN s = 1 .. m /\ DOMAIN u = 1 .. n
      /\ w \in Seq(Record) /\ Len(w) = m + n
  BY ConcatProperties
<1>2. \A i \in 1 .. m + n : w[i] = IF i <= m THEN s[i] ELSE u[i - m]
  BY ConcatProperties
<1> HIDE DEF w, m, n
<1>3. DOMAIN w = 1 .. m + n
  BY <1>1
<1>4. ASSUME NEW i \in 1 .. m + n, NEW j \in 1 .. m + n, i < j
      PROVE  w[i] < w[j]
  <2>1. CASE j <= m
    <3>1. i \in 1 .. m /\ j \in 1 .. m /\ i <= m
      BY <1>1, <1>4, <2>1
    <3> QED
      BY <1>1, <1>2, <1>4, <2>1, <3>1 DEF Increasing
  <2>2. CASE i <= m /\ ~(j <= m)
    <3>1. i \in 1 .. m /\ j - m \in 1 .. n
      BY <1>1, <2>2
    <3>2. w[i] = s[i] /\ w[j] = u[j - m]
      BY <1>2, <2>2
    <3> QED
      BY <1>1, <3>1, <3>2
  <2>3. CASE ~(i <= m)
    <3>1. i - m \in 1 .. n /\ j - m \in 1 .. n /\ i - m < j - m /\ ~(j <= m)
      BY <1>1, <1>4, <2>3
    <3>2. w[i] = u[i - m] /\ w[j] = u[j - m]
      BY <1>2, <2>3, <3>1
    <3> QED
      BY <1>1, <3>1, <3>2 DEF Increasing
  <2> QED
    BY <2>1, <2>2, <2>3
<1>5. Range(w) \subseteq Range(s) \cup Range(u)
  <2>1. ASSUME NEW i \in 1 .. m + n
        PROVE  \/ i \in 1 .. m /\ w[i] = s[i]
               \/ i - m \in 1 .. n /\ w[i] = u[i - m]
    BY <1>1, <1>2
  <2> QED
    BY <1>1, <1>3, <2>1 DEF Range
<1>6. Range(s) \subseteq Range(w)
  <2>1. ASSUME NEW i \in 1 .. m PROVE i \in 1 .. m + n /\ w[i] = s[i]
    BY <1>1, <1>2
  <2> QED
    BY <1>1, <1>3, <2>1 DEF Range
<1>7. Range(u) \subseteq Range(w)
  <2>1. ASSUME NEW i \in 1 .. n PROVE i + m \in 1 .. m + n /\ w[i + m] = u[i]
    <3>1. PICK j \in 1 .. m + n : j = i + m /\ ~(j <= m) /\ j - m = i
      BY <1>1
    <3>2. w[j] = u[j - m]
      BY <1>2, <3>1
    <3> QED
      BY <3>1, <3>2
  <2> QED
    BY <1>1, <1>3, <2>1 DEF Range
<1> QED
  BY <1>1, <1>3, <1>4, <1>5, <1>6, <1>7 DEF Increasing, w

-----------------------------------------------------------------------------
(* What the walk sees of the records that were there all along.            *)

\* The thread t has loaded the file, or answers with records.
Shows(request) ==
  request.pc = "keep" \/ (request.pc = "reply" /\ request.status = 200)

\* They are in the file, in the cache, and in what was loaded or answered: the
\* versions of all of these are no older than the walk.
SightInv ==
  /\ ~disk.exists => disk.rows = {} /\ disk.goal = {}
  /\ throughout \subseteq disk.rows
  /\ cache # NoRecords => throughout \subseteq cache.rows
  /\ \A t \in Thread :
       Shows(thread[t]) => throughout \subseteq thread[t].got.rows

\* After any change the file is there.
LEMMA FileThere ==
  ASSUME StoreTypeOK, SightInv, FileStep
  PROVE  disk'.exists
<1>0. disk \in FileState
  BY DEF StoreTypeOK
<1>1. CASE disk.exists
  BY <1>1, FileChange
<1>2. CASE ~disk.exists
  <2>1. PICK d \in Dataset : StartWrite(d)
    BY <1>2 DEF FileStep, AppendRecord, Write, SightInv
  <2> DEFINE file == [disk EXCEPT !.exists = TRUE, !.rows = {}, !.goal = d]
  <2>2. file \in FileState /\ file.exists
    BY <1>0, StoreAssumption DEF FileState
  <2>3. Changes(file)
    BY <2>1 DEF StartWrite
  <2> QED
    BY <2>2, <2>3, Changed
<1> QED
  BY <1>1, <1>2

\* A step of one thread, which may renew or drop the cache.
LEMMA SightOfOne ==
  ASSUME StoreTypeOK, SightInv, NEW t \in Thread, NEW s \in RequestState,
         Becomes(t, s), UNCHANGED disk,
         throughout' \subseteq throughout, throughout' \subseteq disk'.rows,
         cache' # NoRecords =>
           cache' = cache \/ throughout \subseteq cache'.rows,
         Shows(s) => throughout \subseteq s.got.rows
  PROVE  SightInv'
<1>1. /\ thread'[t] = s
      /\ \A u \in Thread : u # t => thread'[u] = thread[u]
  BY Update
<1>2. \A u \in Thread :
        Shows(thread'[u]) => throughout' \subseteq thread'[u].got.rows
  BY <1>1 DEF SightInv
<1>3. cache' # NoRecords => throughout' \subseteq cache'.rows
  BY DEF SightInv
<1> QED
  BY <1>2, <1>3 DEF SightInv, NoRecords, Shows

\* So does an answer.
LEMMA SightOfAnswer ==
  ASSUME StoreTypeOK, SightInv, NEW t \in Thread,
         NEW status \in Status, NEW got \in Records,
         Answers(t, status, got), UNCHANGED disk,
         throughout' \subseteq throughout, throughout' \subseteq disk'.rows,
         cache' # NoRecords =>
           cache' = cache \/ throughout \subseteq cache'.rows,
         status = 200 => throughout \subseteq got.rows
  PROVE  SightInv'
<1>1. PICK s \in RequestState :
        /\ Becomes(t, s)
        /\ s.pc \in {"free", "reply"} /\ s.mtime = 0
        /\ s.began \in {0, thread[t].began}
        /\ s.pc = "reply" => thread[t].op = "page" /\ s.status = status
                             /\ s.got = got /\ s.began = thread[t].began
  BY AnswerType
<1>2. Shows(s) => throughout \subseteq s.got.rows
  BY <1>1 DEF Shows
<1> QED
  BY <1>1, <1>2, SightOfOne

\* A thread that loads or answers does so from the file or from the cache.
LEMMA SightOfThread ==
  ASSUME StoreTypeOK, SightInv, NEW t \in Thread, ThreadStep(t),
         throughout' \subseteq throughout, throughout' \subseteq disk'.rows
  PROVE  SightInv'
<1>0. /\ disk \in FileState /\ cache \in Records
      /\ thread[t] \in RequestState /\ thread[t].got \in Records
  BY DEF StoreTypeOK, RequestState
<1>00. /\ throughout \subseteq disk.rows
       /\ cache # NoRecords => throughout \subseteq cache.rows
       /\ Shows(thread[t]) => throughout \subseteq thread[t].got.rows
       /\ ~disk.exists => throughout = {}
  BY DEF SightInv
<1>1. ASSUME NEW status \in {429, 503}, MaybeFail(t, status) PROVE SightInv'
  <2>1. status \in Status /\ NoRecords \in Records
    BY Names, FreeType
  <2> QED
    BY <1>1, <2>1, SightOfAnswer DEF MaybeFail
<1>2. ASSUME NEW pc \in Pc, pc \notin {"keep", "reply"}, Moves(t, pc),
             UNCHANGED <<disk, cache>>
      PROVE  SightInv'
  <2> DEFINE s == [thread[t] EXCEPT !.pc = pc]
  <2>1. s \in RequestState /\ ~Shows(s) /\ Becomes(t, s)
    BY <1>0, <1>2 DEF RequestState, Shows, Moves
  <2> HIDE DEF s
  <2> QED
    BY <1>2, <2>1, SightOfOne
<1>3. CASE Available(t)
  <2>1. CASE disk.exists
    BY <1>2, <1>3, <2>1, Names DEF Available
  <2>2. CASE ~disk.exists
    <3>1. Answers(t, 503, NoRecords) /\ UNCHANGED <<disk, cache>>
      BY <1>3, <2>2 DEF Available
    <3> QED
      BY <3>1, Names, FreeType, SightOfAnswer
  <2> QED
    BY <2>1, <2>2
<1>4. CASE Check(t)
  <2> DEFINE pc == IF Current THEN "take" ELSE "lock"
  <2>1. pc \in Pc /\ pc \notin {"keep", "reply"}
    BY Names
  <2>2. Moves(t, pc) /\ UNCHANGED <<disk, cache>>
    BY <1>4 DEF Check
  <2> HIDE DEF pc
  <2> QED
    BY <1>2, <2>1, <2>2
<1>5. CASE Take(t)
  <2> DEFINE status == IF cache = NoRecords THEN 500 ELSE 200
  <2>1. status \in Status /\ (status = 200 => throughout \subseteq cache.rows)
    BY <1>00, Names
  <2>2. Answers(t, status, cache) /\ UNCHANGED <<disk, cache>>
    BY <1>5 DEF Take
  <2> HIDE DEF status
  <2> QED
    BY <1>0, <2>1, <2>2, SightOfAnswer
<1>6. CASE Lock(t)
  <2>1. CASE Current
    <3>1. /\ Answers(t, 200, cache) /\ UNCHANGED <<disk, cache>>
          /\ throughout \subseteq cache.rows
      BY <1>00, <1>6, <2>1 DEF Lock, Current
    <3> QED
      BY <1>0, <3>1, Names, SightOfAnswer
  <2>2. CASE ~Current
    <3> DEFINE s == [thread[t] EXCEPT !.pc = "open", !.mtime = FileMtime]
    <3>0. "open" \in Pc /\ thread[t] \in RequestState
      BY <1>0, Names
    <3>1. FileMtime \in Nat
      BY <1>0 DEF FileMtime, FileState
    <3>2. s \in RequestState /\ ~Shows(s)
      BY <3>0, <3>1 DEF RequestState, Shows
    <3>3. Becomes(t, s) /\ UNCHANGED <<disk, cache>>
      BY <1>6, <2>2 DEF Lock
    <3> HIDE DEF s
    <3> QED
      BY <3>2, <3>3, SightOfOne
  <2> QED
    BY <2>1, <2>2
<1>7. CASE OpenMissing(t)
  <2> DEFINE nothing == [version |-> disk.mtime, rows |-> {}]
  <2>1. nothing \in Records /\ nothing.rows = {}
    BY <1>0 DEF Records, FileState
  <2>2. /\ cache' = nothing /\ Answers(t, 200, nothing) /\ UNCHANGED disk
        /\ throughout = {}
    BY <1>00, <1>7 DEF OpenMissing
  <2> HIDE DEF nothing
  <2>3. throughout \subseteq cache'.rows /\ throughout \subseteq nothing.rows
    BY <2>2
  <2> QED
    BY <2>1, <2>2, <2>3, Names, SightOfAnswer
<1>8. CASE OpenTorn(t)
  <2>1. ErrorStatus(t) \in Status /\ ErrorStatus(t) # 200
    BY Names DEF ErrorStatus
  <2>2. Answers(t, ErrorStatus(t), NoRecords) /\ UNCHANGED <<disk, cache>>
    BY <1>8 DEF OpenTorn
  <2> QED
    BY <2>1, <2>2, FreeType, SightOfAnswer
<1>9. CASE Load(t)
  <2> DEFINE got == [version |-> disk.mtime, rows |-> disk.rows]
  <2>1. got \in Records /\ got.rows = disk.rows
    BY <1>0 DEF Records, FileState
  <2>2. /\ Becomes(t, [thread[t] EXCEPT !.pc = "keep", !.got = got])
        /\ UNCHANGED <<disk, cache>>
    BY <1>9 DEF Load
  <2> HIDE DEF got
  <2> DEFINE s == [thread[t] EXCEPT !.pc = "keep", !.got = got]
  <2>3. s \in RequestState /\ s.got = got
    <3>1. "keep" \in Pc /\ thread[t] \in RequestState
      BY <1>0, Names
    <3> QED
      BY <2>1, <3>1 DEF RequestState
  <2>4. Becomes(t, s)
    BY <2>2
  <2> HIDE DEF s
  <2>5. throughout \subseteq s.got.rows
    BY <1>00, <2>1, <2>3
  <2> QED
    BY <2>2, <2>3, <2>4, <2>5, SightOfOne
<1>10. CASE Keep(t)
  <2>1. /\ cache' = thread[t].got /\ Answers(t, 200, thread[t].got)
        /\ UNCHANGED disk /\ throughout \subseteq thread[t].got.rows
    BY <1>00, <1>10 DEF Keep, Shows
  <2>2. throughout \subseteq cache'.rows
    BY <2>1
  <2> QED
    BY <1>0, <2>1, <2>2, Names, SightOfAnswer
<1>11. CASE Reset(t)
  <2> DEFINE s == [thread[t] EXCEPT !.pc = "check", !.op = "other"]
  <2>0. "check" \in Pc /\ "other" \in Op /\ thread[t] \in RequestState
    BY <1>0, Names
  <2>1. Becomes(t, s) /\ UNCHANGED disk /\ cache' = NoRecords
    BY <1>11 DEF Reset
  <2>2. s \in RequestState /\ ~Shows(s)
    BY <2>0 DEF RequestState, Shows
  <2> HIDE DEF s
  <2> QED
    BY <2>1, <2>2, SightOfOne
<1> QED
  BY <1>1, <1>3, <1>4, <1>5, <1>6, <1>7, <1>8, <1>9, <1>10, <1>11
  DEF ThreadStep

\* What holds of the store's steps holds of the walk's: only a change of the
\* file takes from what was there all along.
LEMMA SightStep ==
  ASSUME StoreTypeOK, SightInv, ClientInv, [Next]_vars
  PROVE  SightInv' /\ throughout' \subseteq throughout
<1>1. CASE FileChanges
  <2>1. FileStep /\ throughout' = throughout \cap disk'.rows
    BY <1>1 DEF FileChanges
  <2>2. disk'.exists /\ UNCHANGED <<cache, thread>>
    BY <2>1, FileThere, FileChange
  <2> QED
    BY <2>1, <2>2 DEF SightInv, NoRecords, Shows
<1>2. CASE ~FileChanges
  <2>1. throughout' = throughout
    BY <1>2 DEF Next, vars, Ask, Lose, ServerDies, ClientAnswer, Receive, Retry,
           Refuse, Reach, Serve, Other
  <2>2. disk' = disk
    <3>1. ASSUME NEW t \in Thread, ThreadStep(t) PROVE disk' = disk
      BY <3>1 DEF ThreadStep, MaybeFail, Available, Check, Take, Lock,
             OpenMissing, OpenTorn, Load, Keep, Reset
    <3>2. ASSUME NEW t \in Thread, NEW op, Accept(t, op) PROVE disk' = disk
      BY <3>2 DEF Accept
    <3>3. ASSUME NEW t \in Thread, ClientAnswer(t) PROVE disk' = disk
      BY <3>3 DEF ClientAnswer, Receive, Retry, Refuse
    <3>4. Ask \/ Lose \/ UNCHANGED vars => disk' = disk
      BY DEF Ask, Lose, vars
    <3>5. ServerDies => disk' = disk
      BY DEF ServerDies, Restart
    <3>6. ASSUME NEW t \in Thread, Reach(t) \/ Serve(t) \/ Other(t)
          PROVE  disk' = disk
      BY <3>1, <3>2, <3>6 DEF Reach, Serve, Other
    <3> QED
      BY <1>2, <3>3, <3>4, <3>5, <3>6 DEF Next
  <2>3. throughout' \subseteq disk'.rows
    BY <2>1, <2>2 DEF SightInv
  <2>4. CASE UNCHANGED <<cache, thread>>
    BY <2>1, <2>2, <2>4 DEF SightInv, NoRecords, Shows
  <2>5. ASSUME NEW t \in Thread, ThreadStep(t) PROVE SightInv'
    BY <2>1, <2>3, <2>5, SightOfThread
  <2>6. ASSUME NEW t \in Thread, NEW op \in {"page", "other", "reload"},
               Accept(t, op)
        PROVE  SightInv'
    <3> DEFINE s == CASE op = "page"   -> [Free EXCEPT !.op = op,
                                             !.pc = "available",
                                             !.began = disk.mtime]
                      [] op = "other"  -> [Free EXCEPT !.op = op, !.pc = "check"]
                      [] op = "reload" -> [Free EXCEPT !.op = op, !.pc = "reset"]
    <3>0. op \in Op /\ disk.mtime \in Nat
      BY Names DEF StoreTypeOK, FileState
    <3>1. s \in RequestState /\ ~Shows(s)
      <4>1. PICK r \in RequestState : r = Free
        BY FreeType
      <4>2. ASSUME NEW pc \in Pc, pc \notin {"keep", "reply"}, NEW n \in Nat
            PROVE  /\ [r EXCEPT !.op = op, !.pc = pc] \in RequestState
                   /\ [r EXCEPT !.op = op, !.pc = pc, !.began = n] \in RequestState
                   /\ ~Shows([r EXCEPT !.op = op, !.pc = pc])
                   /\ ~Shows([r EXCEPT !.op = op, !.pc = pc, !.began = n])
        BY <3>0, <4>2 DEF RequestState, Shows
      <4>3. CASE op = "page"
        <5>1. s = [r EXCEPT !.op = op, !.pc = "available", !.began = disk.mtime]
          BY <4>1, <4>3
        <5> QED
          BY <3>0, <4>2, <5>1, Names
      <4>4. CASE op = "other"
        <5>1. s = [r EXCEPT !.op = op, !.pc = "check"]
          BY <4>1, <4>4
        <5> QED
          BY <4>2, <5>1, Names
      <4>5. CASE op = "reload"
        <5>1. s = [r EXCEPT !.op = op, !.pc = "reset"]
          BY <4>1, <4>5
        <5> QED
          BY <4>2, <5>1, Names
      <4> QED
        BY <4>3, <4>4, <4>5
    <3>2. Becomes(t, s) /\ UNCHANGED cache
      BY <2>6 DEF Accept
    <3> HIDE DEF s
    <3> QED
      BY <2>1, <2>2, <2>3, <3>1, <3>2, SightOfOne
  <2>7. ASSUME NEW t \in Thread, Becomes(t, Free), UNCHANGED cache
        PROVE  SightInv'
    <3>1. ~Shows(Free)
      BY DEF Shows, Free
    <3> QED
      BY <2>1, <2>2, <2>3, <2>7, <3>1, FreeType, SightOfOne
  <2>8. ASSUME NEW t \in Thread, thread[t].pc # "reply", Abandon(t),
               UNCHANGED cache
        PROVE  SightInv'
    <3> DEFINE s == [thread[t] EXCEPT !.op = "other", !.began = 0]
    <3>0. "other" \in Op /\ thread[t] \in RequestState
      BY Names DEF StoreTypeOK
    <3>1. s \in RequestState /\ s.pc = thread[t].pc /\ s.got = thread[t].got
      BY <3>0 DEF RequestState
    <3>2. Becomes(t, s)
      BY <2>8 DEF Abandon
    <3> HIDE DEF s
    <3>3. Shows(s) => throughout \subseteq s.got.rows
      BY <2>8, <3>1 DEF Shows, SightInv
    <3> QED
      BY <2>1, <2>2, <2>3, <2>8, <3>1, <3>2, <3>3, SightOfOne
  <2>9. CASE ServerDies
    <3>1. thread' = [t \in Thread |-> Free] /\ cache' = NoRecords
      BY <2>9 DEF ServerDies, Restart
    <3>2. \A t \in Thread : ~Shows(thread'[t])
      BY <3>1, FreeType DEF Shows
    <3> QED
      BY <2>1, <2>2, <3>1, <3>2 DEF SightInv, NoRecords, Shows
  <2>10. CASE Ask \/ UNCHANGED vars
    BY <2>4, <2>10 DEF Ask, vars
  <2>11. CASE Lose
    <3>1. client.thread \subseteq Thread
      BY DEF ClientInv, ClientShape
    <3>2. UNCHANGED cache /\ (UNCHANGED thread \/ \E t \in Thread : Abandon(t))
      BY <2>11, <3>1 DEF Lose
    <3>3. ASSUME NEW t \in Thread, Abandon(t) PROVE SightInv'
      <4>1. thread[t].pc = "reply" => Becomes(t, Free)
        BY <3>3 DEF Abandon
      <4> QED
        BY <2>7, <2>8, <3>2, <3>3, <4>1
    <3> QED
      BY <2>1, <2>4, <3>2, <3>3
  <2>12. ASSUME NEW t \in Thread, ClientAnswer(t) PROVE SightInv'
    BY <2>7, <2>12 DEF ClientAnswer, Receive, Retry, Refuse
  <2>13. ASSUME NEW t \in Thread, Reach(t) \/ Serve(t) \/ Other(t)
         PROVE  SightInv'
    BY <2>5, <2>6, <2>13 DEF Reach, Serve, Other
  <2> QED
    BY <1>2, <2>1, <2>9, <2>10, <2>11, <2>12, <2>13 DEF Next
<1> QED
  BY <1>1, <1>2

-----------------------------------------------------------------------------
(* What the walk has yielded.                                              *)

ReadInv ==
  /\ yielded \in Seq(Record)
  /\ client.cursor \in Nat
  /\ Increasing(yielded)
  /\ client.pc \in {"ask", "wait"} =>
       \A i \in DOMAIN yielded : yielded[i] <= client.cursor
  /\ \A r \in throughout : Instant[r] >= Since
  /\ NothingSkipped

\* A walk that yields nothing stays as it is.
LEMMA ReadStays ==
  ASSUME ReadInv, UNCHANGED yielded, client'.cursor = client.cursor,
         client'.pc # "done" \/ client.pc = "done",
         client'.pc \in {"ask", "wait"} => client.pc \in {"ask", "wait"},
         throughout' \subseteq throughout
  PROVE  ReadInv'
  BY DEF ReadInv, NothingSkipped, Increasing

\* A page takes the walk past the records it yields, and past no other that
\* was there all along.
LEMMA ReadReceive ==
  ASSUME StoreTypeOK, ClientInv, SightInv, ReadInv, NEW t \in Thread, Receive(t)
  PROVE  ReadInv'
<1> DEFINE rows == thread[t].got.rows
           left == Matching(rows, client.cursor)
           page == FirstPage(left)
           s    == InOrder(page)
<1>1. /\ client.pc = "wait" /\ thread[t].pc = "reply" /\ thread[t].status = 200
      /\ yielded' = yielded \o s /\ throughout' = throughout
      /\ client' = [client EXCEPT
                      !.pc = IF page = left THEN "done" ELSE "ask",
                      !.thread = {}, !.attempt = 0, !.slept = 0,
                      !.cursor = IF page = left THEN @ ELSE Last(s)]
  BY DEF Receive, Answered
<1>2. /\ throughout \subseteq rows /\ rows \subseteq Record
      /\ client.cursor \in Nat
  <2>1. thread[t] \in RequestState
    BY DEF StoreTypeOK
  <2> QED
    BY <1>1, <2>1 DEF SightInv, Shows, RequestState, Records, ReadInv
<1>3. \A r \in Record : r \in Nat
  BY StoreAssumption
<1>4. /\ left \in SUBSET Nat /\ left \subseteq Record
      /\ \A r \in left : r > client.cursor
      /\ \A r \in throughout : r > client.cursor => r \in left
  BY <1>2, <1>3 DEF Matching, ReadInv
<1> HIDE DEF rows, left
<1>5. /\ page \in SUBSET left /\ IsFiniteSet(page)
      /\ left # {} => page # {}
      /\ \A r \in left, x \in page : r <= x => r \in page
  BY <1>4, PageIs
<1>6. page \in SUBSET Nat /\ page \subseteq Record
  BY <1>4, <1>5
<1> HIDE DEF page
<1>7. /\ s \in Seq(page) /\ Increasing(s)
      /\ \A r \in page : \E i \in DOMAIN s : s[i] = r
  BY <1>5, <1>6, Sorted DEF Increasing
<1>8. page # {} => Last(s) \in page /\ \A r \in page : r <= Last(s)
  BY <1>5, <1>6, LastIsGreatest
<1> HIDE DEF s
<1>9. /\ s \in Seq(Record) /\ \A i \in DOMAIN s : s[i] \in page
      /\ Range(s) = page
  <2>1. \A i \in DOMAIN s : s[i] \in page
    BY <1>7
  <2>2. Len(s) \in Nat /\ s \in [1 .. Len(s) -> page]
    BY <1>7
  <2>3. s \in [1 .. Len(s) -> Record]
    BY <1>6, <2>2
  <2>4. s \in Seq(Record)
    BY <2>2, <2>3
  <2> QED
    BY <1>7, <2>1, <2>4 DEF Range
<1>10. /\ yielded \in Seq(Record) /\ Increasing(yielded)
       /\ \A i \in DOMAIN yielded :
            yielded[i] \in Record /\ yielded[i] <= client.cursor
  BY <1>1 DEF ReadInv
<1>11. \A i \in DOMAIN yielded, j \in DOMAIN s : yielded[i] < s[j]
  <2> TAKE i \in DOMAIN yielded, j \in DOMAIN s
  <2>1. s[j] > client.cursor /\ yielded[i] <= client.cursor
    BY <1>4, <1>5, <1>9, <1>10
  <2>2. s[j] \in Nat /\ yielded[i] \in Nat
    BY <1>3, <1>6, <1>9, <1>10
  <2> QED
    BY <1>2, <2>1, <2>2
<1>12. /\ yielded' \in Seq(Record) /\ Increasing(yielded')
       /\ Range(yielded') = Range(yielded) \cup page
  BY <1>1, <1>7, <1>9, <1>10, <1>11, ConcatInOrder
<1>13. CASE page = left
  <2>1. client'.pc = "done" /\ client'.cursor = client.cursor
    BY <1>1, <1>13 DEF ClientInv, ClientShape
  <2>2. \A r \in throughout : r <= client.cursor \/ r \in page
    <3> TAKE r \in throughout
    <3>1. r \in Nat
      BY <1>2, <1>3
    <3> QED
      BY <1>2, <1>4, <1>13, <3>1
  <2>3. NothingSkipped'
    BY <1>1, <1>12, <2>2 DEF ReadInv, NothingSkipped
  <2> QED
    BY <1>1, <1>2, <1>12, <2>1, <2>3 DEF ReadInv
<1>14. CASE page # left
  <2>1. client'.pc = "ask" /\ client'.cursor = Last(s)
    BY <1>1, <1>14 DEF ClientInv, ClientShape
  <2>2. Last(s) \in page /\ Last(s) \in left /\ Last(s) \in Nat
    BY <1>4, <1>5, <1>8, <1>14
  <2>3. \A r \in throughout :
          r <= Last(s) => r <= client.cursor \/ r \in page
    <3> TAKE r \in throughout
    <3>1. r \in Nat
      BY <1>2, <1>3
    <3> QED
      BY <1>2, <1>4, <1>5, <2>2, <3>1
  <2>4. NothingSkipped'
    BY <1>1, <1>12, <2>1, <2>3 DEF ReadInv, NothingSkipped
  <2>5. \A r \in Range(yielded) \cup page : r <= Last(s)
    <3>1. \A r \in page : r <= Last(s)
      BY <1>8, <2>2
    <3>2. ASSUME NEW i \in DOMAIN yielded PROVE yielded[i] <= Last(s)
      <4>1. yielded[i] \in Nat /\ yielded[i] <= client.cursor
            /\ Last(s) > client.cursor
        BY <1>3, <1>4, <1>10, <2>2
      <4> QED
        BY <1>2, <2>2, <4>1
    <3> QED
      BY <3>1, <3>2 DEF Range
  <2>6. \A i \in DOMAIN yielded' : yielded'[i] <= client'.cursor
    BY <1>12, <2>1, <2>5 DEF Range
  <2> QED
    BY <1>1, <1>12, <2>1, <2>2, <2>4, <2>6 DEF ReadInv
<1> QED
  BY <1>13, <1>14

\* No other step yields anything.
LEMMA ReadStep ==
  ASSUME StoreTypeOK, ClientInv, SightInv, ReadInv, [Next]_vars
  PROVE  ReadInv'
<1>0. throughout' \subseteq throughout
  BY SightStep
<1>1. ASSUME client.pc = "wait", NEW told, Transient(told)
      PROVE  /\ client'.cursor = client.cursor
             /\ client'.pc \in {"ask", "exhausted"}
  BY <1>1 DEF Transient, ClientInv, ClientShape
<1>2. ASSUME UNCHANGED yielded, client'.cursor = client.cursor,
             client'.pc # "done" \/ client.pc = "done",
             client'.pc \in {"ask", "wait"} => client.pc \in {"ask", "wait"}
      PROVE  ReadInv'
  BY <1>0, <1>2, ReadStays
<1>3. CASE Ask
  <2>1. client'.cursor = client.cursor /\ client'.pc = "wait"
        /\ client.pc = "ask" /\ UNCHANGED yielded
    BY <1>3 DEF Ask, ClientInv, ClientShape
  <2> QED
    BY <1>2, <2>1
<1>4. CASE Lose
  <2>1. client.pc = "wait" /\ Transient({}) /\ UNCHANGED yielded
    BY <1>4 DEF Lose
  <2> QED
    BY <1>1, <1>2, <2>1
<1>5. ASSUME NEW t \in Thread, Receive(t) PROVE ReadInv'
  BY <1>5, ReadReceive
<1>6. ASSUME NEW t \in Thread, Retry(t) PROVE ReadInv'
  <2>1. client.pc = "wait" /\ UNCHANGED yielded
    BY <1>6 DEF Retry, Answered
  <2>2. Transient({}) \/ \E s \in RetryAfter : Transient({s})
    BY <1>6, Zenon DEF Retry
  <2> QED
    BY <1>1, <1>2, <2>1, <2>2
<1>7. ASSUME NEW t \in Thread, Refuse(t) PROVE ReadInv'
  <2>1. client'.cursor = client.cursor /\ client'.pc = "failed"
        /\ UNCHANGED yielded
    BY <1>7 DEF Refuse, ClientInv, ClientShape
  <2> QED
    BY <1>2, <2>1
<1>8. ASSUME NEW t \in Thread, Reach(t) PROVE ReadInv'
  <2>1. client'.cursor = client.cursor /\ client'.pc = client.pc
        /\ UNCHANGED yielded
    BY <1>8 DEF Reach, ClientInv, ClientShape
  <2> QED
    BY <1>2, <2>1
<1>9. CASE ServerDies
  <2>1. client'.cursor = client.cursor /\ client'.pc = client.pc
        /\ UNCHANGED yielded
    BY <1>9 DEF ServerDies, ClientInv, ClientShape
  <2> QED
    BY <1>2, <2>1
<1>10. CASE UNCHANGED <<client, yielded>>
  BY <1>2, <1>10
<1> QED
  BY <1>3, <1>4, <1>5, <1>6, <1>7, <1>8, <1>9, <1>10
  DEF Next, vars, FileChanges, ClientAnswer, Serve, Other

-----------------------------------------------------------------------------
\* The walk's own invariant rests on that of the store and of the budget.
WalkInv == FetchInv /\ SightInv /\ ReadInv

LEMMA WalkInit == Init => WalkInv
<1> SUFFICES ASSUME Init PROVE WalkInv
  OBVIOUS
<1>1. FetchInv
  BY FetchInit
<1>2. /\ cache = NoRecords /\ client.cursor = 0 /\ client.pc = "ask"
      /\ yielded = <<>> /\ throughout = {r \in disk.rows : Instant[r] >= Since}
      /\ \A t \in Thread : thread[t] = Free
  BY DEF Init, StoreInit
<1>3. SightInv
  <2>1. ~disk.exists => disk.rows = {} /\ disk.goal = {}
    BY DEF Init, StoreInit
  <2>2. ~Shows(Free)
    BY DEF Shows, Free
  <2> QED
    BY <1>2, <2>1, <2>2 DEF SightInv
<1>4. yielded \in Seq(Record) /\ DOMAIN yielded = {}
  BY <1>2
<1>5. \A r \in throughout : ~(r <= client.cursor)
  <2>1. \A r \in disk.rows : r \in Nat \ {0}
    BY <1>1, StoreAssumption DEF FetchInv, StoreInv, StoreTypeOK, FileState
  <2> QED
    BY <1>2, <2>1
<1>6. ReadInv
  BY <1>2, <1>4, <1>5 DEF ReadInv, NothingSkipped, Increasing
<1> QED
  BY <1>1, <1>3, <1>6 DEF WalkInv

LEMMA WalkStep == WalkInv /\ [Next]_vars => WalkInv'
<1> SUFFICES ASSUME WalkInv, [Next]_vars PROVE WalkInv'
  OBVIOUS
<1>1. StoreTypeOK /\ ClientInv /\ SightInv /\ ReadInv /\ FetchInv
  BY DEF WalkInv, FetchInv, StoreInv
<1>2. FetchInv' /\ SightInv' /\ ReadInv'
  BY <1>1, FetchStep, SightStep, ReadStep
<1> QED
  BY <1>2 DEF WalkInv

LEMMA WalkInvariant == Spec => []WalkInv
  BY WalkInit, WalkStep, PTL DEF Spec

\* The store and the walk keep their types, whatever is served, lost or
\* rewritten.
THEOREM TypeCorrect == Spec => []TypeOK
<1>1. ASSUME WalkInv PROVE TypeOK
  <2>1. StoreTypeOK /\ ClientShape /\ client.cursor \in Nat
        /\ yielded \in Seq(Record)
    BY <1>1 DEF WalkInv, FetchInv, StoreInv, ClientInv, ReadInv
  <2>2. client \in ClientState
    BY <2>1 DEF ClientShape, ClientState, Places
  <2>3. throughout \subseteq Record
    BY <1>1, <2>1 DEF WalkInv, SightInv, StoreTypeOK, FileState
  <2> QED
    BY <2>1, <2>2, <2>3 DEF TypeOK
<1> QED
  BY <1>1, WalkInvariant, PTL

\* For every page size, file and number of threads, no record is yielded twice
\* and all come in the order of the feed, whatever is retried, answered from an
\* older cache or rewritten between two pages.
THEOREM NothingIsTwice == Spec => []NothingTwice
<1>1. WalkInv => NothingTwice
  BY DEF WalkInv, ReadInv, Increasing, NothingTwice
<1> QED
  BY <1>1, WalkInvariant, PTL

\* A walk never passes a record that the feed held from its beginning on
\* without yielding it, and ends well only when it has yielded all of them.
THEOREM NothingIsSkipped == Spec => []NothingSkipped
<1>1. WalkInv => NothingSkipped
  BY DEF WalkInv, ReadInv
<1> QED
  BY <1>1, WalkInvariant, PTL
=============================================================================
