----------------------------- MODULE RequestRows -----------------------------
(***************************************************************************)
(* requests.state: who writes it, and when.  The endpoint inserts the row  *)
(* (api/generation.py), the task of the request writes its end             *)
(* (Orchestrator._terminal), and an operator's job overwrites the rows of  *)
(* requests past their deadline (expire_stale_requests of                  *)
(* services/reconciler.py).  The holds are here only as far as the         *)
(* lifecycle promises something of them: a terminal row holds no money.    *)
(*                                                                         *)
(* A step is one transaction.  The job is two: it reads ids in one and     *)
(* writes in another, and tasks go on in between.  Tasks may vanish at any *)
(* point: the process dies, or the server cancels them.                    *)
(***************************************************************************)
EXTENDS Integers, FiniteSets

CONSTANTS Requests,
          Streamed,     \* the requests served by _passthrough
          MaxAttempts   \* plan.max_generation_attempts

ASSUME RowsAssumption == Streamed \subseteq Requests /\ MaxAttempts \in Nat \ {0}

VARIABLES
  row,       \* row[r]: requests.state; "none" before the insert is committed
  pc,        \* pc[r]: where r's task stands between two transactions
  attempts,  \* attempts[r]: attempt rows of r
  said,      \* said[r]: how the last call of r ended
  held,      \* held[r]: the reservation of r's attempt is ACTIVE
  lapsed,    \* lapsed[r]: its expires_at has passed
  clock,     \* clock[r]: "early"; "margin" once too little is left; "late" past deadline_at
  sweep      \* ids the job has read and not yet written

taskVars == <<row, pc, attempts, said>>
rowsVars == <<taskVars, held, lapsed, clock, sweep>>

Terminal == {"SUCCEEDED", "REJECTED_NO_ROUTE", "REJECTED_BUDGET", "FAILED_PARTIAL",
             "FAILED_EXHAUSTED", "CANCELLED", "EXPIRED"}

Unstreamed == Requests \ Streamed

\* How a call ends: with output that passes or fails its gates, with a failure
\* before or after visible output.  "fault" is an exception a stream does not
\* expect; "left" is a cancellation.
Answers == {"good", "bad", "failed", "partial", "fault", "left"}

RowsInit ==
  /\ row      = [r \in Requests |-> "none"]
  /\ pc       = [r \in Requests |-> "new"]
  /\ attempts = [r \in Requests |-> 0]
  /\ said     = [r \in Requests |-> "none"]
  /\ held     = [r \in Requests |-> FALSE]
  /\ lapsed   = [r \in Requests |-> FALSE]
  /\ clock    = [r \in Requests |-> "early"]
  /\ sweep    = {}

-----------------------------------------------------------------------------
\* The endpoint.

\* Row, claim and plan are one transaction.
InsertRow(r) ==
  /\ pc[r] = "new"
  /\ row' = [row EXCEPT ![r] = "READY"]
  /\ pc' = [pc EXCEPT ![r] = "head"]
  /\ UNCHANGED <<attempts, said, held, lapsed, clock, sweep>>

\* A conflict on the key, a refused plan or a stream that needs buffering: the
\* session is closed without a commit, and there is no row.
Refuse(r) ==
  /\ pc[r] = "new"
  /\ pc' = [pc EXCEPT ![r] = "gone"]
  /\ UNCHANGED <<row, attempts, said, held, lapsed, clock, sweep>>

-----------------------------------------------------------------------------
\* The task.

\* The task writes what it has come to, without looking at the row.
End(r, state) ==
  /\ row' = [row EXCEPT ![r] = state]
  /\ pc' = [pc EXCEPT ![r] = "done"]
  /\ UNCHANGED <<attempts, said, held, lapsed, clock, sweep>>

\* Slip: the deadline is looked at before the first attempt only.
TooLateOnce(r) == clock[r] # "early" /\ attempts[r] = 0

TooLate(r) == clock[r] # "early"

\* A stream looks at the deadline only to set its timeout.
MayAttempt(r) ==
  IF r \in Streamed THEN attempts[r] = 0
                    ELSE attempts[r] < MaxAttempts /\ ~TooLate(r)

\* The head of the loop, up to the attempt it has decided on.
Choose(r) ==
  /\ pc[r] = "head"
  /\ MayAttempt(r)
  /\ pc' = [pc EXCEPT ![r] = "chosen"]
  /\ UNCHANGED <<row, attempts, said, held, lapsed, clock, sweep>>

\* The attempt's row, in a transaction of its own that may have to wait for the
\* database, longer than the margin; nothing is looked at again.
RecordAttempt(r) ==
  /\ pc[r] = "chosen"
  /\ attempts' = [attempts EXCEPT ![r] = @ + 1]
  /\ pc' = [pc EXCEPT ![r] = "recorded"]
  /\ UNCHANGED <<row, said, held, lapsed, clock, sweep>>

\* No route; nothing left that may be called, or no attempt; no time.
GiveUp(r) ==
  /\ pc[r] = "head"
  /\ \/ attempts[r] = 0 /\ End(r, "REJECTED_NO_ROUTE")
     \/ End(r, "FAILED_EXHAUSTED")
     \/ r \in Unstreamed /\ attempts[r] < MaxAttempts /\ TooLate(r) /\ End(r, "EXPIRED")

Reserve(r) ==
  /\ pc[r] = "recorded"
  /\ held' = [held EXCEPT ![r] = TRUE]
  /\ lapsed' = [lapsed EXCEPT ![r] = FALSE]
  /\ pc' = [pc EXCEPT ![r] = "calling"]
  /\ UNCHANGED <<row, attempts, said, clock, sweep>>

Deny(r) ==
  /\ pc[r] = "recorded"
  /\ said' = [said EXCEPT ![r] = "denied"]
  /\ pc' = [pc EXCEPT ![r] = "answered"]
  /\ UNCHANGED <<row, attempts, held, lapsed, clock, sweep>>

\* Slip: the finally block resolves what a clause has decided to charge or to
\* release, and a cancellation passes both clauses by.
ResolvesUnlessLeft(r, a) ==
  held' = [held EXCEPT ![r] = @ /\ a = "left"]

\* The finally block: the hold is resolved, if the reconciler has not done it.
Resolves(r, a) == held' = [held EXCEPT ![r] = FALSE]

\* The call is over.  A cancelled task of a whole response gets no further; nor
\* does a stream that meets a fault.
CallEnds(r, a) ==
  /\ pc[r] = "calling"
  /\ a = "fault" => r \in Streamed
  /\ Resolves(r, a)
  /\ said' = [said EXCEPT ![r] = a]
  /\ pc' = [pc EXCEPT ![r] =
              IF a = "fault" \/ (a = "left" /\ r \in Unstreamed) THEN "gone" ELSE "answered"]
  /\ UNCHANGED <<row, attempts, lapsed, clock, sweep>>

\* What the last call makes of the request.  A stream has no second attempt and
\* cannot take back what it has shown.
Conclude(r) ==
  /\ pc[r] = "answered"
  /\ \/ said[r] = "denied"  /\ End(r, "REJECTED_BUDGET")
     \/ said[r] = "good"    /\ End(r, "SUCCEEDED")
     \/ said[r] = "partial" /\ End(r, "FAILED_PARTIAL")
     \/ said[r] = "left"    /\ End(r, "CANCELLED")
     \/ said[r] = "bad"     /\ r \in Streamed /\ End(r, "FAILED_PARTIAL")
     \/ said[r] = "failed"  /\ r \in Streamed /\ End(r, "FAILED_EXHAUSTED")
     \/ /\ said[r] \in {"bad", "failed"} /\ r \in Unstreamed
        /\ pc' = [pc EXCEPT ![r] = "head"]
        /\ UNCHANGED <<row, attempts, said, held, lapsed, clock, sweep>>

\* The process dies, or a wait or a response that has not begun is cancelled.
Vanish(r) ==
  /\ pc[r] \in {"head", "chosen", "recorded", "calling", "answered"}
  /\ pc' = [pc EXCEPT ![r] = "gone"]
  /\ UNCHANGED <<row, attempts, said, held, lapsed, clock, sweep>>

-----------------------------------------------------------------------------
\* Time and the operator's job.

Tick(r) ==
  /\ row[r] # "none" /\ clock[r] # "late"
  /\ clock' = [clock EXCEPT ![r] = IF @ = "early" THEN "margin" ELSE "late"]
  /\ UNCHANGED <<taskVars, held, lapsed, sweep>>

\* The TTL counts from the reservation and knows nothing of the deadline.
Lapse(r) ==
  /\ held[r] /\ ~lapsed[r]
  /\ lapsed' = [lapsed EXCEPT ![r] = TRUE]
  /\ UNCHANGED <<taskVars, held, clock, sweep>>

\* Slip: terminal rows are believed to have settled their own holds.
DueOfOpenRows == {r \in Requests : held[r] /\ lapsed[r] /\ row[r] \notin Terminal}

Due == {r \in Requests : held[r] /\ lapsed[r]}

ReconcileReservations ==
  /\ Due # {}
  /\ held' = [r \in Requests |-> held[r] /\ r \notin Due]
  /\ UNCHANGED <<taskVars, lapsed, clock, sweep>>

\* Slip: the query forgets which rows are terminal.
StaleWhateverState == {r \in Requests : row[r] # "none" /\ clock[r] = "late"}

Stale == {r \in Requests : row[r] = "READY" /\ clock[r] = "late"}

\* stale_requests, in a session of its own.
ReadStale ==
  /\ sweep = {} /\ Stale # {}
  /\ sweep' = Stale
  /\ UNCHANGED <<taskVars, held, lapsed, clock>>

\* expire_stale_requests: every row read is overwritten, whatever it says by now.
ExpireStale ==
  /\ sweep # {}
  /\ row' = [r \in Requests |-> IF r \in sweep THEN "EXPIRED" ELSE row[r]]
  /\ sweep' = {}
  /\ UNCHANGED <<pc, attempts, said, held, lapsed, clock>>

\* The job fails between its two transactions.
DropSweep ==
  /\ sweep # {}
  /\ sweep' = {}
  /\ UNCHANGED <<taskVars, held, lapsed, clock>>

TaskStep(r) == \/ InsertRow(r) \/ Refuse(r) \/ Choose(r) \/ RecordAttempt(r) \/ GiveUp(r)
               \/ Reserve(r) \/ Deny(r) \/ Conclude(r) \/ Vanish(r)
               \/ \E a \in Answers : CallEnds(r, a)

RowsNext == \/ \E r \in Requests : TaskStep(r) \/ Tick(r) \/ Lapse(r)
            \/ ReconcileReservations \/ ReadStale \/ ExpireStale \/ DropSweep

RowsSpec == RowsInit /\ [][RowsNext]_rowsVars

\* Time passes and the operator runs both jobs (docs/RUNBOOK.md); a job that fails
\* again and again succeeds in the end.  Nothing is asked of the tasks.
RowsFairSpec == /\ RowsSpec
                /\ \A r \in Requests : WF_rowsVars(Tick(r)) /\ WF_rowsVars(Lapse(r))
                /\ WF_rowsVars(ReconcileReservations)
                /\ WF_rowsVars(ReadStale) /\ SF_rowsVars(ExpireStale)
-----------------------------------------------------------------------------
(* Every variable has its type, and a hold belongs to a call or to a task that
   vanished in one.                                                           *)
RowsTypeOK ==
  /\ row \in [Requests -> {"none", "READY"} \cup Terminal]
  /\ pc \in [Requests -> {"new", "head", "chosen", "recorded", "calling", "answered", "done",
                          "gone"}]
  /\ attempts \in [Requests -> 0..MaxAttempts]
  /\ said \in [Requests -> Answers \cup {"none", "denied"}]
  /\ held \in [Requests -> BOOLEAN]
  /\ lapsed \in [Requests -> BOOLEAN]
  /\ clock \in [Requests -> {"early", "margin", "late"}]
  /\ sweep \in SUBSET Requests
  /\ \A r \in Requests : held[r] => pc[r] \in {"calling", "gone"}

(* What enums.py:46 says of terminal paths ("must settle or release its
   reservations") holds of every row a task has ended.  A row the job has expired
   may still hold money: its call goes on, or died, and the hold has its own TTL. *)
EndedRowsHoldNothing ==
  \A r \in Requests : row[r] \in Terminal /\ held[r] => row[r] = "EXPIRED" /\ clock[r] = "late"

(* A request that ends before its deadline has ended for good: neither its task
   nor the job, whatever it read and whenever it writes, touches the row again.  *)
PunctualIsFinal ==
  \A r \in Requests : \A s \in Terminal :
    [](row[r] = s /\ clock[r] # "late" => [](row[r] = s))

(* enums.py:63-65: a terminal state "admits no further transitions".          *)
TerminalIsFinal == [][\A r \in Requests : row[r] \in Terminal => row'[r] = row[r]]_rowsVars

(* The loop of a whole response soon stops once its row is terminal, although it
   never reads the row: it looks at the same deadline as the job, and begins at
   most the one attempt it had decided on when it last looked.                *)
LoopStopsAfterTheEnd ==
  \A r \in Unstreamed : \A n \in 0..MaxAttempts :
    [](row[r] \in Terminal /\ attempts[r] = n => [](attempts[r] <= n + 1))

(* docs/ACCEPTANCE.md:42: "No attempt begins when cost, count, deadline, privacy,
   capability, or quality would be violated".                                 *)
NoAttemptPastTheDeadline ==
  [][\A r \in Unstreamed : attempts'[r] # attempts[r] => clock[r] # "late"]_rowsVars

(* Every row that was written ends, and the money of a request does not stay held
   for ever, whatever becomes of the tasks.                                   *)
EveryRowEnds ==
  \A r \in Requests : row[r] = "READY" ~> row[r] \in Terminal /\ ~held[r]
=============================================================================
