------------------------ MODULE IdempotentRequests ------------------------
(***************************************************************************)
(* The life of idempotency keys: claim, complete and fail of               *)
(* services/idempotency.py, called by _run of api/generation.py, with      *)
(* purge_expired_idempotency of services/reconciler.py.                    *)
(*                                                                         *)
(* A key here is a client with one of its keys, which the table has at     *)
(* most once.  The requests may be served by different processes.  A       *)
(* claim is one transaction with the request row: the key is looked up,    *)
(* then inserted, then committed.  On SQLite that transaction holds the    *)
(* database's write lock from its first insert on; on PostgreSQL an        *)
(* insert only waits for an uncommitted one of the same key, and fails if  *)
(* that is committed.  The run, which may take long, and the recording of  *)
(* its outcome come after it.                                              *)
(*                                                                         *)
(* An outcome is recorded under the id of the claim.  PostgreSQL takes ids *)
(* from a sequence; SQLite gives one more than the largest in the table    *)
(* (models.py 521 asks for no AUTOINCREMENT), so the id of a deleted row   *)
(* comes back.  A record is told apart from a later one with its id by the *)
(* request that inserted it; the history variables under and wrote name    *)
(* records in this way.                                                    *)
(***************************************************************************)
EXTENDS Integers, FiniteSets

CONSTANTS Requests,  \* HTTP requests carrying a key
          Keys,
          Key,       \* Key[r]: r's client and key
          Body,      \* Body[r]: r's input hash
          NoRecord,
          Nobody

\* Rows of the idempotency_records table.  complete always stores a reference,
\* so the state alone says that there is one.
Records == [id : Nat \ {0}, state : {"IN_PROGRESS", "COMPLETED", "FAILED"},
            body : {Body[r] : r \in Requests}, first : Requests, lapsed : BOOLEAN]

ASSUME KeyAssumption ==
  /\ IsFiniteSet(Requests)
  /\ Key \in [Requests -> Keys]
  /\ Nobody \notin Requests
  /\ NoRecord \notin Records

VARIABLES
  sqlite,   \* the database is SQLite, and not PostgreSQL
  pc,       \* pc[r]: where _run is for r
  kept,     \* kept[r]: r's row of the requests table is (or will be) committed
  claimed,  \* claimed[r]: Claim.record_id, or 0
  verdict,  \* verdict[r]: how r's run ended
  answer,   \* answer[r]: what the client was told
  record,   \* record[k]: the committed row of key k, or NoRecord
  writer,   \* writer[k]: the request whose insert of k is not committed yet
  lastId,   \* PostgreSQL's sequence
  under,    \* history: under[r]: who inserted the record r goes on under
  wrote     \* history: wrote[r]: who inserted the rows r's outcome was written to

requestVars == <<pc, kept, claimed, verdict, answer>>
recordVars  == <<record, writer, lastId>>
historyVars == <<under, wrote>>
vars == <<sqlite, requestVars, recordVars, historyVars>>

Running(r) == pc[r] \in {"running", "ended"}

\* r's transaction is open and has written its request row.
Open(r) == pc[r] \in {"inserting", "claimed"}

Live(k) == record[k] # NoRecord /\ ~record[k].lapsed

HasId(k, n) == record[k] # NoRecord /\ record[k].id = n

Init ==
  /\ sqlite  \in BOOLEAN
  /\ pc      = [r \in Requests |-> "new"]
  /\ kept    = [r \in Requests |-> TRUE]
  /\ claimed = [r \in Requests |-> 0]
  /\ verdict = [r \in Requests |-> "none"]
  /\ answer  = [r \in Requests |-> "none"]
  /\ record  = [k \in Keys |-> NoRecord]
  /\ writer  = [k \in Keys |-> Nobody]
  /\ lastId  = 0
  /\ under   = [r \in Requests |-> Nobody]
  /\ wrote   = [r \in Requests |-> {}]

-----------------------------------------------------------------------------
\* SQLite's write lock is free.
Unlocked == sqlite => \A q \in Requests : ~Open(q)

\* r is answered without a run; its transaction is rolled back.
Refuse(r, why) ==
  /\ answer' = [answer EXCEPT ![r] = why]
  /\ pc' = [pc EXCEPT ![r] = "answered"]
  /\ UNCHANGED <<claimed, under>>

\* r goes on under the record with this id, which q inserted.
Proceed(r, id, q) ==
  /\ claimed' = [claimed EXCEPT ![r] = id]
  /\ under' = [under EXCEPT ![r] = q]
  /\ pc' = [pc EXCEPT ![r] = "claimed"]
  /\ UNCHANGED answer

\* Slip: the input hash is not compared.
ResolveIgnoringBody(r) ==
  LET found == record[Key[r]] IN
    \/ found.state = "COMPLETED" /\ Refuse(r, "completed")
    \/ found.state = "IN_PROGRESS" /\ Refuse(r, "in_progress")
    \/ found.state = "FAILED" /\ Proceed(r, found.id, found.first)

\* Slip: a completed key is not recognised.
ResolveForgettingReplay(r) ==
  LET found == record[Key[r]] IN
    \/ found.body # Body[r] /\ Refuse(r, "conflict")
    \/ /\ found.body = Body[r]
       /\ \/ found.state = "IN_PROGRESS" /\ Refuse(r, "in_progress")
          \/ found.state # "IN_PROGRESS" /\ Proceed(r, found.id, found.first)

\* What a live record means for r.  A failed one lets it proceed and stays as it
\* is until r's own outcome is recorded.
ResolveExisting(r) ==
  LET found == record[Key[r]] IN
    \/ found.body # Body[r] /\ Refuse(r, "conflict")
    \/ /\ found.body = Body[r]
       /\ \/ found.state = "COMPLETED" /\ Refuse(r, "completed")
          \/ found.state = "IN_PROGRESS" /\ Refuse(r, "in_progress")
          \/ found.state = "FAILED" /\ Proceed(r, found.id, found.first)

\* The request row is added and the key looked up.
Arrive(r) ==
  /\ pc[r] = "new"
  /\ Unlocked
  /\ \/ Live(Key[r]) /\ ResolveExisting(r)
     \/ /\ ~Live(Key[r])
        /\ pc' = [pc EXCEPT ![r] = "inserting"]
        /\ UNCHANGED <<claimed, answer, under>>
  /\ UNCHANGED <<sqlite, kept, verdict, recordVars, wrote>>

\* n is the id of a row inserted for k, whose expired row is deleted before.
NewId(k, n) ==
  IF sqlite
  THEN /\ \A j \in Keys \ {k} : record[j] # NoRecord => record[j].id < n
       /\ n = 1 \/ \E j \in Keys \ {k} : HasId(j, n - 1)
  ELSE n = lastId + 1

\* Slip: no unique constraint, only the look-up before.
InsertUnchecked(r) ==
  LET k == Key[r] IN
  /\ pc[r] = "inserting"
  /\ writer[k] = Nobody
  /\ \E n \in 1..Cardinality(Requests) :
       /\ NewId(k, n)
       /\ lastId' = IF sqlite THEN lastId ELSE n
       /\ Proceed(r, n, r)
  /\ writer' = [writer EXCEPT ![k] = r]
  /\ UNCHANGED <<sqlite, kept, verdict, record, wrote>>

\* An expired record is deleted and the new one inserted, uncommitted.  When
\* another insert has been committed meanwhile this one fails: the rollback takes
\* r's request row with it, and the winner's record decides.  A request inserts
\* once, so there are no more ids than requests.
Insert(r) ==
  LET k == Key[r] IN
  /\ pc[r] = "inserting"
  /\ writer[k] = Nobody
  /\ \/ /\ ~Live(k)
        /\ \E n \in 1..Cardinality(Requests) :
             /\ NewId(k, n)
             /\ lastId' = IF sqlite THEN lastId ELSE n
             /\ Proceed(r, n, r)
        /\ writer' = [writer EXCEPT ![k] = r]
        /\ UNCHANGED kept
     \/ /\ Live(k)
        /\ ResolveExisting(r)
        /\ kept' = [kept EXCEPT ![r] = FALSE]
        /\ UNCHANGED <<writer, lastId>>
  /\ UNCHANGED <<sqlite, verdict, record, wrote>>

\* The plan is built and everything committed, before any provider call.
Begin(r) ==
  LET k == Key[r] IN
  /\ pc[r] = "claimed"
  /\ IF writer[k] = r
     THEN /\ record' = [record EXCEPT ![k] =
                          [id |-> claimed[r], state |-> "IN_PROGRESS",
                           body |-> Body[r], first |-> r, lapsed |-> FALSE]]
          /\ writer' = [writer EXCEPT ![k] = Nobody]
     ELSE UNCHANGED <<record, writer>>
  /\ pc' = [pc EXCEPT ![r] = "running"]
  /\ UNCHANGED <<sqlite, kept, claimed, verdict, answer, lastId, historyVars>>

\* The orchestrator reaches a terminal state.  Without a request row no attempt
\* can be recorded (its foreign key fails), so such a run cannot succeed.
RunEnds(r) ==
  /\ pc[r] = "running"
  /\ \E v \in {"SUCCEEDED", "FAILED"} :
       /\ v = "SUCCEEDED" => kept[r]
       /\ verdict' = [verdict EXCEPT ![r] = v]
  /\ pc' = [pc EXCEPT ![r] = "ended"]
  /\ UNCHANGED <<sqlite, kept, claimed, answer, recordVars, historyVars>>

\* complete or fail: the row with the id of the claim gets the outcome, whatever
\* state it is in by now and whoever's it is; nothing happens if there is none.
Settle(r) ==
  LET hit == {k \in Keys : HasId(k, claimed[r])} IN
  /\ pc[r] = "ended"
  /\ hit # {} => Unlocked
  /\ \A k \in hit : writer[k] = Nobody
  /\ record' = [k \in Keys |->
                  IF k \notin hit THEN record[k]
                  ELSE [record[k] EXCEPT !.state =
                          IF verdict[r] = "SUCCEEDED" THEN "COMPLETED" ELSE "FAILED"]]
  /\ wrote' = [wrote EXCEPT ![r] = {record[k].first : k \in hit}]
  /\ answer' = [answer EXCEPT ![r] = IF verdict[r] = "SUCCEEDED" THEN "result" ELSE "error"]
  /\ pc' = [pc EXCEPT ![r] = "answered"]
  /\ UNCHANGED <<sqlite, kept, claimed, verdict, writer, lastId, under>>

\* r's process dies, its task is cancelled or an exception leaves _run: what is
\* not committed is rolled back, a committed claim stays IN_PROGRESS.
Crash(r) ==
  /\ pc[r] \in {"inserting", "claimed", "running", "ended"}
  /\ pc' = [pc EXCEPT ![r] = "dead"]
  /\ writer' = [k \in Keys |-> IF writer[k] = r THEN Nobody ELSE writer[k]]
  /\ UNCHANGED <<sqlite, kept, claimed, verdict, answer, record, lastId, historyVars>>

-----------------------------------------------------------------------------
\* Slip: only finished keys expire.
LapseFinished(k) ==
  /\ Live(k)
  /\ record[k].state # "IN_PROGRESS"
  /\ record' = [record EXCEPT ![k].lapsed = TRUE]
  /\ UNCHANGED <<sqlite, requestVars, writer, lastId, historyVars>>

\* expires_at passes.  It counts from the insert, and a retry under the same
\* record does not move it; the run of the inserter itself takes less than a day.
Lapse(k) ==
  /\ Live(k)
  /\ ~Running(record[k].first)
  /\ record' = [record EXCEPT ![k].lapsed = TRUE]
  /\ UNCHANGED <<sqlite, requestVars, writer, lastId, historyVars>>

\* Slip: the purge does not look at expires_at.
PurgeAny(k) ==
  /\ record[k] # NoRecord
  /\ Unlocked
  /\ writer[k] = Nobody
  /\ record' = [record EXCEPT ![k] = NoRecord]
  /\ UNCHANGED <<sqlite, requestVars, writer, lastId, historyVars>>

\* The operator's purge of expired rows.
Purge(k) ==
  /\ record[k] # NoRecord /\ ~Live(k)
  /\ Unlocked
  /\ writer[k] = Nobody
  /\ record' = [record EXCEPT ![k] = NoRecord]
  /\ UNCHANGED <<sqlite, requestVars, writer, lastId, historyVars>>

Next == \/ \E r \in Requests : \/ Arrive(r) \/ Insert(r) \/ Begin(r) \/ RunEnds(r)
                               \/ Settle(r) \/ Crash(r)
        \/ \E k \in Keys : Lapse(k) \/ Purge(k)

Spec == Init /\ [][Next]_vars

\* Transactions go on, runs end (RequestLoop's EveryRequestEnds, if calls do), time
\* passes, and the operator purges.  No client is assumed to retry.
FairSpec ==
  /\ Spec
  /\ \A r \in Requests : /\ WF_vars(Insert(r)) /\ WF_vars(Begin(r))
                         /\ WF_vars(RunEnds(r)) /\ WF_vars(Settle(r))
  /\ \A k \in Keys : WF_vars(Lapse(k)) /\ WF_vars(Purge(k))
-----------------------------------------------------------------------------
(* Every variable has its type, and only an open transaction has an uncommitted
   insert: the process that made it is alive.                                 *)
TypeOK ==
  /\ sqlite  \in BOOLEAN
  /\ pc      \in [Requests -> {"new", "inserting", "claimed", "running", "ended",
                               "answered", "dead"}]
  /\ kept    \in [Requests -> BOOLEAN]
  /\ claimed \in [Requests -> Nat]
  /\ verdict \in [Requests -> {"none", "SUCCEEDED", "FAILED"}]
  /\ answer  \in [Requests -> {"none", "result", "error", "conflict", "in_progress",
                               "completed"}]
  /\ record  \in [Keys -> Records \cup {NoRecord}]
  /\ writer  \in [Keys -> Requests \cup {Nobody}]
  /\ lastId  \in Nat
  /\ under   \in [Requests -> Requests \cup {Nobody}]
  /\ wrote   \in [Requests -> SUBSET Requests]
  /\ \A k \in Keys : writer[k] # Nobody => pc[writer[k]] = "claimed"

\* A run that failed has written its outcome to the record w inserted.
Failed(w) == \E q \in Requests : verdict[q] = "FAILED" /\ w \in wrote[q]

(* At most one request with a key is in flight until a failed run is recorded for
   the key, however many arrive at once on however many processes and whatever
   crashes.                                                                   *)
OverlapOnlyAfterFailure ==
  \A r, s \in Requests :
    Running(r) /\ Running(s) /\ r # s /\ Key[r] = Key[s] =>
      \E w \in Requests : Key[w] = Key[r] /\ Failed(w)

(* Two runs under one record both succeed (and both are billed) only if a failed
   run is recorded in it: a success that was recorded is repeated only when a
   failure was recorded over it.                                              *)
BilledTwiceOnlyAfterFailure ==
  \A r, s \in Requests :
    /\ r # s /\ under[r] = under[s]
    /\ verdict[r] = "SUCCEEDED" /\ verdict[s] = "SUCCEEDED"
    => Failed(under[r])

\* r's outcome went to a record that is not r's.
Strayed(r) == \E w \in wrote[r] : w # under[r]

(* An outcome goes to the record it belongs to or nowhere.  Where ids come back it
   may go astray, but only that of a retry, whose run may outlive the day of the
   record it was let in by.                                                   *)
StraysAreRetries == \A r \in Requests : Strayed(r) => sqlite /\ under[r] # r

\* r's own input, under r's key, has succeeded.
Earned(r) ==
  \E s \in Requests : Key[s] = Key[r] /\ Body[s] = Body[r] /\ verdict[s] = "SUCCEEDED"

(* No request runs under the record of a different input or key; and who is told
   that its key completed has succeeded with that input, unless a success went
   astray.                                                                    *)
NoBorrowedAnswer ==
  /\ \A r, s \in Requests :
       under[r] = under[s] /\ under[r] # Nobody => Body[r] = Body[s] /\ Key[r] = Key[s]
  /\ \A r \in Requests :
       answer[r] = "completed" =>
         Earned(r) \/ \E s \in Requests : verdict[s] = "SUCCEEDED" /\ Strayed(s)

(* "Saying the original already completed is honest" (generation.py line 282).  *)
CompletedIsHonest == \A r \in Requests : answer[r] = "completed" => Earned(r)

(* A key is not blocked for ever: a claim left IN_PROGRESS by a crash is freed in
   the end, whether or not anyone retries.                                    *)
KeyIsFreed ==
  \A k \in Keys : []<>(record[k] = NoRecord \/ record[k].state # "IN_PROGRESS")
=============================================================================
