------------------------------- MODULE Fetch -------------------------------
(***************************************************************************)
(* One incremental read of the upstream API: ApiSource.fetch               *)
(* (src/helios/sources/http_source.py) walks the pages of the store, each  *)
(* request going through with_retry (src/helios/sources/retry.py), while   *)
(* the file changes, other clients use the store and answers get lost.     *)
(* The walk is what module Ingest takes as its atomic ReadPage steps.      *)
(***************************************************************************)
EXTENDS Store, SequencesExt

CONSTANTS
  Since,        \* updated_since of the read, 0 for none
  PageSize,     \* limit of a page
  MaxAttempts,  \* retry_max_attempts
  BaseDelay,    \* retry_base_delay_seconds
  MaxDelay,     \* retry_max_delay_seconds
  RetryAfter    \* seconds a 429 may name

ASSUME FetchAssumption ==
  /\ Since \in Nat
  /\ PageSize \in Nat \ {0}
  /\ MaxAttempts \in Nat \ {0}
  /\ BaseDelay \in Nat \ {0}
  /\ MaxDelay \in Nat
  /\ MaxDelay >= BaseDelay
  /\ RetryAfter \subseteq Nat

VARIABLES
  client,    \* the state of the walk
  yielded,   \* the records handed to the caller, in order
  throughout \* history: records above Since that the file held all along

vars == <<disk, cache, stamp, lock, thread, client, yielded, throughout>>

\* thread is the thread that serves the request, none while it is queued or
\* when the server has died.
ClientState ==
  [pc      : {"ask", "wait", "done", "exhausted", "failed"},
   thread  : SUBSET Thread,
   cursor  : Nat,       \* next_cursor, 0 before the first page
   attempt : Nat,       \* requests made for this page
   slept   : Nat]       \* seconds slept for this page

MatchingAbove(rows, cursor) ==
  {r \in rows : Instant[r] > Since /\ r > cursor}

MatchingAgain(rows, cursor) ==
  {r \in rows : Instant[r] >= Since /\ r >= cursor}

\* The records a page is cut from.  The bound is compared by instants and
\* includes, the cursor is compared by texts and excludes.
Matching(rows, cursor) == {r \in rows : Instant[r] >= Since /\ r > cursor}

Rank(rows, r) == Cardinality({s \in rows : s < r})

\* The definition by ranks, unlike SetToSortSeq, can be proved about.
InOrder(rows) ==
  [i \in 1 .. Cardinality(rows) |-> CHOOSE r \in rows : Rank(rows, r) = i - 1]

FirstPage(rows) == {r \in rows : Rank(rows, r) < PageSize}

\* Full jitter: anything up to 2 ^ (attempt - 1) times the base and to the cap.
Backoff(attempt) == {d \in 0 .. MaxDelay : d <= BaseDelay * 2^(attempt - 1)}

DelaysUncapped(attempt, told) == IF told = {} THEN Backoff(attempt) ELSE told

\* compute_delay: what the server told wins, up to the cap.
Delays(attempt, told) ==
  IF told = {} THEN Backoff(attempt)
  ELSE {IF d < MaxDelay THEN d ELSE MaxDelay : d \in told}

-----------------------------------------------------------------------------
(* The client.                                                             *)

Ask ==
  /\ client.pc = "ask"
  /\ client' = [client EXCEPT !.pc = "wait", !.attempt = @ + 1]
  /\ UNCHANGED <<disk, cache, stamp, lock, thread, yielded, throughout>>

\* The request reaches a thread.
Reach(t) ==
  /\ client.pc = "wait"
  /\ client.thread = {}
  /\ Accept(t, "page")
  /\ client' = [client EXCEPT !.thread = {t}]
  /\ UNCHANGED <<yielded, throughout>>

Answered(t) ==
  /\ client.pc = "wait"
  /\ client.thread = {t}
  /\ thread[t].pc = "reply"

\* A transient failure is retried until the budget of the page is spent.
Transient(told) ==
  IF client.attempt = MaxAttempts
    THEN client' = [client EXCEPT !.pc = "exhausted", !.thread = {}]
    ELSE \E d \in Delays(client.attempt, told) :
           client' = [client EXCEPT !.pc = "ask", !.thread = {},
                                    !.slept = @ + d]

\* A page arrives whole and its records are yielded.  A next_cursor is there
\* when the store had more than a page left.
Receive(t) ==
  LET left == Matching(thread[t].got.rows, client.cursor)
      page == FirstPage(left)
  IN  /\ Answered(t)
      /\ thread[t].status = 200
      /\ yielded' = yielded \o InOrder(page)
      /\ client' = [client EXCEPT
                      !.pc = IF page = left THEN "done" ELSE "ask",
                      !.thread = {},
                      !.attempt = 0,
                      !.slept = 0,
                      !.cursor = IF page = left
                                   THEN @ ELSE Last(InOrder(page))]
      /\ Becomes(t, Free)
      /\ UNCHANGED <<disk, cache, stamp, lock, throughout>>

\* 429 says when to come back; 500 and 503 do not.
Retry(t) ==
  /\ Answered(t)
  /\ thread[t].status \in {429, 500, 503}
  /\ IF thread[t].status = 429
       THEN \E s \in RetryAfter : Transient({s})
       ELSE Transient({})
  /\ Becomes(t, Free)
  /\ UNCHANGED <<disk, cache, stamp, lock, yielded, throughout>>

\* Any other error status is permanent.
Refuse(t) ==
  /\ Answered(t)
  /\ thread[t].status = 400
  /\ client' = [client EXCEPT !.pc = "failed", !.thread = {}]
  /\ Becomes(t, Free)
  /\ UNCHANGED <<disk, cache, stamp, lock, yielded, throughout>>

LoseConnected ==
  /\ client.pc = "wait"
  /\ client.thread # {}
  /\ Transient({})
  /\ \E t \in client.thread : Abandon(t)
  /\ UNCHANGED <<disk, cache, stamp, lock, yielded, throughout>>

\* A timeout or a transport error: the request or its answer is lost, and a
\* thread that serves it goes on.
Lose ==
  /\ client.pc = "wait"
  /\ Transient({})
  /\ IF client.thread = {}
       THEN UNCHANGED thread
       ELSE \E t \in client.thread : Abandon(t)
  /\ UNCHANGED <<disk, cache, stamp, lock, yielded, throughout>>

-----------------------------------------------------------------------------
(* The server, other clients and the file.                                 *)

\* The model ends with the walk.
Walking == client.pc \in {"ask", "wait"}

Serve(t) ==
  /\ Walking
  /\ ThreadStep(t)
  /\ UNCHANGED <<client, yielded, throughout>>

Other(t) ==
  /\ Walking
  /\ \E op \in {"other", "reload"} : Accept(t, op)
  /\ UNCHANGED <<client, yielded, throughout>>

ServerDies ==
  /\ Walking
  /\ Restart
  /\ client' = [client EXCEPT !.thread = {}]
  /\ UNCHANGED <<yielded, throughout>>

FileChanges ==
  /\ Walking
  /\ FileStep
  /\ throughout' = throughout \cap disk'.rows
  /\ UNCHANGED <<client, yielded>>

Init ==
  /\ StoreInit
  /\ client = [pc |-> "ask", thread |-> {}, cursor |-> 0, attempt |-> 0,
               slept |-> 0]
  /\ yielded = <<>>
  /\ throughout = {r \in disk.rows : Instant[r] >= Since}

ClientAnswer(t) == Receive(t) \/ Retry(t) \/ Refuse(t)

Next ==
  \/ Ask
  \/ Lose
  \/ ServerDies
  \/ FileChanges
  \/ \E t \in Thread : Reach(t) \/ ClientAnswer(t) \/ Serve(t) \/ Other(t)

\* The client keeps going: it sends what it has to send, and a request that is
\* never answered runs into the timeout of the HTTP client.  Nothing is asked
\* of the server.
Fairness ==
  /\ WF_vars(Ask)
  /\ WF_vars(Lose \/ \E t \in Thread : ClientAnswer(t))

Spec == Init /\ [][Next]_vars /\ Fairness

-----------------------------------------------------------------------------
(* Properties.                                                             *)

\* The state of the store and of the walk.
TypeOK ==
  /\ StoreTypeOK
  /\ client \in ClientState
  /\ yielded \in Seq(Record)
  /\ throughout \subseteq Record

\* No record is yielded twice and the records come in the order of the feed,
\* whatever was retried, answered late or rewritten (http_source.py:84-115).
NothingTwice ==
  \A i, j \in DOMAIN yielded : i < j => yielded[i] < yielded[j]

\* A record that the feed held from the beginning of the walk is behind the
\* cursor only if it was yielded, and a walk that ends well has yielded all of
\* them: retries, restarts, reloads and changes of the file in between skip
\* nothing that was there all along.
NothingSkipped ==
  \A r \in throughout :
    r <= client.cursor \/ client.pc = "done" => r \in Range(yielded)

\* What a page may cost: no more requests than the budget, and between them no
\* more sleep than the cap for each, whatever Retry-After the server names.
PageBounded ==
  /\ client.attempt <= MaxAttempts
  /\ client.slept <= (MaxAttempts - 1) * MaxDelay

\* A walk comes to an end, in success or in an error, whatever the server does.
FetchEnds == <>(client.pc \in {"done", "exhausted", "failed"})
=============================================================================
