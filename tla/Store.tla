------------------------------- MODULE Store -------------------------------
(***************************************************************************)
(* The simulated upstream: a feed file that the generator rewrites in      *)
(* place, the cache the API keeps of it (src/helios/api/store.py), and the *)
(* threads that serve requests from that cache.                            *)
(*                                                                         *)
(* A record is a natural number, its place in the order of the texts       *)
(* (updated_at, reading_id) the store sorts by; Instant gives the instant  *)
(* that the text of its updated_at stands for, which may order otherwise.  *)
(***************************************************************************)
EXTENDS Integers, FiniteSets

CONSTANTS
  Record,    \* every record the feed will ever hold
  Instant,   \* the instant of a record's updated_at
  Dataset,   \* the contents the generator may write
  Thread,    \* the threads that serve requests
  MaxMtime   \* bound on the changes of the file

ASSUME StoreAssumption ==
  /\ Record \subseteq Nat \ {0}
  /\ Instant \in [Record -> Nat]
  /\ Dataset \subseteq SUBSET Record
  /\ MaxMtime \in Nat

VARIABLES
  disk,    \* the feed file
  cache,   \* ReadingStore._records, with the version of the file it came from
  stamp,   \* ReadingStore._loaded_mtime, 0 for None
  lock,    \* the threads that hold ReadingStore._lock
  thread   \* the request each thread serves

storeVars == <<disk, cache, stamp, lock, thread>>

\* _records is None.  A list of records carries the version it was read from.
NoRecords == [version |-> 0, rows |-> {}]

Free ==
  [op |-> "none", pc |-> "free", began |-> 0, mtime |-> 0,
   got |-> NoRecords, status |-> 0]

Op == {"none", "page", "other", "reload"}

Pc == {"free", "available", "check", "take", "lock", "open", "keep", "reset",
       "reply"}

Status == {0, 200, 400, 429, 500, 503}

Records == [version : Nat, rows : SUBSET Record]

RequestState ==
  [op     : Op,
   pc     : Pc,
   began  : Nat,      \* version of the file when it began
   mtime  : Nat,      \* current_mtime
   got    : Records,  \* what was loaded, and what the answer is made of
   status : Status]

FileState ==
  [exists : BOOLEAN,
   mtime  : Nat,
   rows   : SUBSET Record,   \* the records that can be read
   goal   : SUBSET Record,   \* the records that are being written
   torn   : BOOLEAN]         \* the last line is incomplete

\* What the file system reports, 0 when there is no file.
FileMtime == IF disk.exists THEN disk.mtime ELSE 0

-----------------------------------------------------------------------------
(* The file.                                                               *)

\* Files are written in the order of the instants, and in place: what is on
\* disk before the last write is a prefix of the new dataset, which may end in
\* the middle of a line.
WrittenOf(d) ==
  {p \in SUBSET d : \A r \in p, s \in d \ p : Instant[r] <= Instant[s]}

Changes(file) ==
  /\ disk.mtime < MaxMtime
  /\ disk' = [file EXCEPT !.mtime = disk.mtime + 1]
  /\ UNCHANGED <<cache, stamp, lock, thread>>

\* The metering platform adds a record, in the history of updated_at or above.
AppendRecord(r) ==
  /\ disk.exists
  /\ disk.rows = disk.goal
  /\ r \notin disk.rows
  /\ Changes([disk EXCEPT !.rows = @ \cup {r}, !.goal = @ \cup {r}])

\* helios seed opens the file for writing, which empties it, and writes it.
StartWrite(d) ==
  /\ disk.rows = disk.goal
  /\ Changes([disk EXCEPT !.exists = TRUE, !.rows = {}, !.goal = d])

Write(p, torn) ==
  /\ disk.rows # disk.goal
  /\ p \in WrittenOf(disk.goal)
  /\ disk.rows \subseteq p
  /\ p = disk.goal => ~torn
  /\ Changes([disk EXCEPT !.rows = p, !.torn = torn])

FileStep ==
  \/ \E r \in Record : AppendRecord(r)
  \/ \E d \in Dataset : StartWrite(d)
  \/ \E p \in SUBSET Record, torn \in BOOLEAN : Write(p, torn)

-----------------------------------------------------------------------------
(* One request.                                                            *)

Becomes(t, request) == thread' = [thread EXCEPT ![t] = request]

Moves(t, pc) == Becomes(t, [thread[t] EXCEPT !.pc = pc])

\* The answer to a page waits for the client; any other goes to whoever asked.
Answers(t, status, got) ==
  Becomes(t, IF thread[t].op = "page"
               THEN [thread[t] EXCEPT !.pc = "reply", !.status = status,
                                      !.got = got, !.mtime = 0]
               ELSE Free)

\* An error while the records are loaded: page answers 400 for any ValueError,
\* and the JSON of a torn line raises one; elsewhere it is an internal error.
ErrorStatus(t) == IF thread[t].op = "page" THEN 400 ELSE 500

Accept(t, op) ==
  /\ thread[t] = Free
  /\ Becomes(t, CASE op = "page"   -> [Free EXCEPT !.op = op,
                                          !.pc = "available",
                                          !.began = disk.mtime]
                  [] op = "other"  -> [Free EXCEPT !.op = op, !.pc = "check"]
                  [] op = "reload" -> [Free EXCEPT !.op = op, !.pc = "reset"])
  /\ UNCHANGED <<disk, cache, stamp, lock>>

\* The injected faults, and a store with no file to serve.
MaybeFail(t, status) ==
  /\ thread[t].pc = "available"
  /\ \/ status = 429
     \/ status = 503
  /\ Answers(t, status, NoRecords)
  /\ UNCHANGED <<disk, cache, stamp, lock>>

AvailableOr404(t) ==
  /\ thread[t].pc = "available"
  /\ IF disk.exists THEN Moves(t, "check") ELSE Answers(t, 404, NoRecords)
  /\ UNCHANGED <<disk, cache, stamp, lock>>

Available(t) ==
  /\ thread[t].pc = "available"
  /\ IF disk.exists THEN Moves(t, "check") ELSE Answers(t, 503, NoRecords)
  /\ UNCHANGED <<disk, cache, stamp, lock>>

CurrentUnstamped == cache # NoRecords

\* The cache holds records and the file has not changed since they were read.
Current == cache # NoRecords /\ stamp = FileMtime

\* The unlocked check ...
Check(t) ==
  /\ thread[t].pc = "check"
  /\ Moves(t, IF Current THEN "take" ELSE "lock")
  /\ UNCHANGED <<disk, cache, stamp, lock>>

\* ... and the read after it, which a reload may have made None by then.
Take(t) ==
  /\ thread[t].pc = "take"
  /\ Answers(t, IF cache = NoRecords THEN 500 ELSE 200, cache)
  /\ UNCHANGED <<disk, cache, stamp, lock>>

\* Under the lock the check is made again: another thread may have loaded.
Lock(t) ==
  /\ thread[t].pc = "lock"
  /\ lock = {}
  /\ IF Current
       THEN Answers(t, 200, cache) /\ UNCHANGED lock
       ELSE /\ Becomes(t, [thread[t] EXCEPT !.pc = "open",
                                            !.mtime = FileMtime])
            /\ lock' = {t}
  /\ UNCHANGED <<disk, cache, stamp>>

\* No file: an empty list is kept, and the stamp is left as it was.
OpenMissing(t) ==
  /\ thread[t].pc = "open"
  /\ ~disk.exists
  /\ LET nothing == [version |-> disk.mtime, rows |-> {}]
     IN  cache' = nothing /\ Answers(t, 200, nothing)
  /\ lock' = {}
  /\ UNCHANGED <<disk, stamp>>

OpenTorn(t) ==
  /\ thread[t].pc = "open"
  /\ disk.exists
  /\ disk.torn
  /\ Answers(t, ErrorStatus(t), NoRecords)
  /\ lock' = {}
  /\ UNCHANGED <<disk, cache, stamp>>

Load(t) ==
  /\ thread[t].pc = "open"
  /\ disk.exists
  /\ ~disk.torn
  /\ Becomes(t, [thread[t] EXCEPT !.pc = "keep",
                   !.got = [version |-> disk.mtime, rows |-> disk.rows]])
  /\ UNCHANGED <<disk, cache, stamp, lock>>

KeepStampedAfter(t) ==
  /\ thread[t].pc = "keep"
  /\ cache' = thread[t].got
  /\ stamp' = FileMtime
  /\ lock' = {}
  /\ Answers(t, 200, thread[t].got)
  /\ UNCHANGED disk

\* What was loaded is stamped with the time taken before the file was opened.
Keep(t) ==
  /\ thread[t].pc = "keep"
  /\ cache' = thread[t].got
  /\ stamp' = thread[t].mtime
  /\ lock' = {}
  /\ Answers(t, 200, thread[t].got)
  /\ UNCHANGED disk

\* reload forgets the records and then asks for them like any other request.
Reset(t) ==
  /\ thread[t].pc = "reset"
  /\ lock = {}
  /\ cache' = NoRecords
  /\ stamp' = 0
  /\ Becomes(t, [thread[t] EXCEPT !.pc = "check", !.op = "other"])
  /\ UNCHANGED <<disk, lock>>

\* The client of a page is gone: the thread goes on for nobody.
Abandon(t) ==
  Becomes(t, IF thread[t].pc = "reply"
               THEN Free
               ELSE [thread[t] EXCEPT !.op = "other", !.began = 0])

\* The API process restarts and its memory is lost.
Restart ==
  /\ cache' = NoRecords
  /\ stamp' = 0
  /\ lock' = {}
  /\ thread' = [t \in Thread |-> Free]
  /\ UNCHANGED disk

ThreadStep(t) ==
  \/ \E status \in {429, 503} : MaybeFail(t, status)
  \/ Available(t)
  \/ Check(t)
  \/ Take(t)
  \/ Lock(t)
  \/ OpenMissing(t)
  \/ OpenTorn(t)
  \/ Load(t)
  \/ Keep(t)
  \/ Reset(t)

StoreInit ==
  /\ \/ disk = [exists |-> FALSE, mtime |-> 1, rows |-> {}, goal |-> {},
                torn |-> FALSE]
     \/ \E d \in Dataset :
          disk = [exists |-> TRUE, mtime |-> 1, rows |-> d, goal |-> d,
                  torn |-> FALSE]
  /\ cache = NoRecords
  /\ stamp = 0
  /\ lock = {}
  /\ thread = [t \in Thread |-> Free]

-----------------------------------------------------------------------------
(* Properties.                                                             *)

StoreTypeOK ==
  /\ disk \in FileState
  /\ cache \in Records
  /\ stamp \in Nat
  /\ lock \subseteq Thread
  /\ thread \in [Thread -> RequestState]

\* A cache that the unlocked check takes for current holds what the file holds,
\* however loads, reloads and rewrites of the file interleave (store.py:94-130).
CacheCoherent ==
  cache # NoRecords /\ disk.exists /\ stamp = disk.mtime
     => cache.rows = disk.rows

\* A request is served from the file as it was at some moment while the request
\* lasted, never from an older one (store.py:103 reads the cache unlocked).
ServedFresh ==
  \A t \in Thread :
    thread[t].pc = "reply" /\ thread[t].status = 200
      => thread[t].got.version >= thread[t].began
=============================================================================
