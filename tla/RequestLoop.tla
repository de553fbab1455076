---------------------------- MODULE RequestLoop ----------------------------
(***************************************************************************)
(* Orchestrator.run (services/orchestrator.py) for the requests of one     *)
(* gateway process, with may_retry and the circuit breaker they share      *)
(* (services/resilience.py).                                               *)
(*                                                                         *)
(* The process is one event loop: a request runs without interruption      *)
(* from one await to the next, and the only awaits are the provider call   *)
(* and the wait before a retry.  So one step here is everything between    *)
(* two awaits: the answer of a call is recorded, the breaker updated and   *)
(* the next call chosen and started in the same step, while other          *)
(* requests move the breaker during the calls and the waits.               *)
(*                                                                         *)
(* The money of an attempt is BudgetLedger's; here a reservation succeeds  *)
(* or is refused.  Circuit state is per process, as in the code.           *)
(***************************************************************************)
EXTENDS Integers, FiniteSets, FiniteSetsExt, Sequences

CONSTANTS Requests,
          Providers,
          Adapters,     \* the providers an adapter is configured for
          Route,        \* Route[r]: providers of plan.candidates, best first
          MaxAttempts,  \* plan.max_generation_attempts
          MaxRepairs,   \* plan.max_same_model_repairs
          Threshold,    \* failure_threshold of the breaker
          Failures,     \* how a call can fail: ProviderFailure's fields
          Horizon,      \* time a request has when it starts
          Predicted,    \* predicted_latency_ms, the same for every candidate
          Margin        \* VALIDATION_MARGIN_MS

ASSUME LoopAssumption ==
  /\ Adapters \subseteq Providers
  /\ Route \in [Requests -> Seq(Providers)]
  /\ MaxAttempts \in Nat \ {0}
  /\ MaxRepairs \in Nat
  /\ Threshold \in Nat \ {0}
  /\ \A f \in Failures : /\ f.retryable \in BOOLEAN
                         /\ f.emitted \in BOOLEAN
  /\ Horizon \in Nat /\ Predicted \in Nat /\ Margin \in Nat

VARIABLES
  pc,       \* pc[r]: the await r's task is at
  at,       \* at[r]: candidate_index, from 1
  repairs,  \* repairs[r]: repairs_on_current_model
  log,      \* log[r]: the attempt rows of r with their verdicts
  left,     \* left[r]: time to r's deadline
  state,    \* state[r]: Request.state
  failures, \* failures[p]: CircuitState.failures, counted up to Threshold
  circuit   \* circuit[p]: "closed"; "open"; "cooled" once the cooldown is over

loopVars    == <<pc, at, repairs, log, state>>
breakerVars == <<failures, circuit>>
vars == <<loopVars, left, breakerVars>>

RetryableOutcomes == {"RATE_LIMITED", "PROVIDER_ERROR", "TIMEOUT"}
FallbackOutcomes  == {"CAPABILITY_REJECTED", "CONTEXT_REJECTED"}
CircuitOpening    == {"AUTH_ERROR"}

Verdicts == {"PASS", "FAIL_REPAIRABLE", "FAIL_QUALITY"}

\* pending_repair is not kept as a variable: it is set in a step that starts the
\* repair call, and no await comes between.
NewRow(r, i, repair) ==
  [at |-> i,
   kind |-> IF repair THEN "REPAIR" ELSE IF i > 1 THEN "ESCALATION" ELSE "GENERATION",
   outcome |-> "null", retryable |-> FALSE, emitted |-> FALSE, verdict |-> "none"]

Last(rows) == rows[Len(rows)]

Init ==
  /\ pc       = [r \in Requests |-> "new"]
  /\ at       = [r \in Requests |-> 1]
  /\ repairs  = [r \in Requests |-> 0]
  /\ log      = [r \in Requests |-> <<>>]
  /\ left     = [r \in Requests |-> Horizon]
  /\ state    = [r \in Requests |-> "READY"]
  /\ failures = [p \in Providers |-> 0]
  /\ circuit  = [p \in Providers |-> "closed"]

-----------------------------------------------------------------------------
\* The breaker.

IsOpen(p) == circuit[p] = "open"

\* Slip: a success closes only a circuit that has cooled.
RecordSuccessWhenCooled(p) ==
  /\ failures' = [failures EXCEPT ![p] = 0]
  /\ circuit'  = [circuit EXCEPT ![p] = IF @ = "cooled" THEN "closed" ELSE @]

\* A success forgets everything.
RecordSuccess(p) ==
  /\ failures' = [failures EXCEPT ![p] = 0]
  /\ circuit'  = [circuit EXCEPT ![p] = "closed"]

RecordFailure(p, f) ==
  LET n == Min({failures[p] + 1, Threshold}) IN
    /\ failures' = [failures EXCEPT ![p] = n]
    /\ circuit' = [circuit EXCEPT ![p] =
                     IF f.outcome \in CircuitOpening \/ n >= Threshold
                     THEN "open" ELSE @]

\* The cooldown is over; is_open answers no from here on.
Cool(p) ==
  /\ IsOpen(p)
  /\ circuit' = [circuit EXCEPT ![p] = "cooled"]
  /\ UNCHANGED <<loopVars, left, failures>>

-----------------------------------------------------------------------------
\* The loop.

\* Any amount of time may pass during an await.
Elapse(r) == \E t \in 0..left[r] : left' = [left EXCEPT ![r] = t]

Stop(r, rows, final) ==
  /\ state' = [state EXCEPT ![r] = final]
  /\ log' = [log EXCEPT ![r] = rows]
  /\ pc' = [pc EXCEPT ![r] = "done"]
  /\ UNCHANGED at

\* Slip: the breaker is asked about the first candidate only.
UsableIgnoringCircuit(r, i) ==
  Route[r][i] \in Adapters /\ (i = 1 => circuit'[Route[r][i]] # "open")

Usable(r, i) == Route[r][i] \in Adapters /\ circuit'[Route[r][i]] # "open"

NextUsable(r, i) == {j \in i..Len(Route[r]) : Usable(r, j)}

\* The attempt row is written, then the reservation is refused or the call made.
Call(r, i, repair, rows) ==
  \/ /\ Stop(r, Append(rows, [NewRow(r, i, repair) EXCEPT !.outcome = "CANCELLED"]),
             "REJECTED_BUDGET")
  \/ /\ log' = [log EXCEPT ![r] = Append(rows, NewRow(r, i, repair))]
     /\ pc' = [pc EXCEPT ![r] = "calling"]
     /\ at' = [at EXCEPT ![r] = i]
     /\ UNCHANGED state

AttemptsUsed(rows) == Len(rows) >= MaxAttempts

\* The head of the loop at candidate i, rows being the attempts so far.  It looks
\* at the clock and at the breaker as this step leaves them.
LoopHead(r, i, repair, rows) ==
  LET over == i > Len(Route[r]) \/ AttemptsUsed(rows)
      late == left'[r] <= Margin
      next == NextUsable(r, i)
  IN  \/ over /\ Stop(r, rows, "FAILED_EXHAUSTED")
      \/ ~over /\ late /\ Stop(r, rows, "EXPIRED")
      \/ ~over /\ ~late /\ next = {} /\ Stop(r, rows, "FAILED_EXHAUSTED")
      \/ ~over /\ ~late /\ next # {} /\ Call(r, Min(next), repair, rows)

Start(r) ==
  /\ pc[r] = "new"
  /\ UNCHANGED <<repairs, left, breakerVars>>
  /\ \/ Route[r] = <<>> /\ Stop(r, <<>>, "REJECTED_NO_ROUTE")
     \/ Route[r] # <<>> /\ LoopHead(r, 1, FALSE, <<>>)

RetryPermitted(f) == f.retryable /\ f.outcome \in RetryableOutcomes

MayRetry(r, f) ==
  /\ ~f.emitted
  /\ RetryPermitted(f)
  /\ circuit'[Route[r][at[r]]] # "open"
  /\ ~AttemptsUsed(log[r])
  /\ left'[r] > Predicted + Margin

\* r's rows once its call has failed with f.
Failed(r, f) ==
  [log[r] EXCEPT ![Len(log[r])] =
     [@ EXCEPT !.outcome = f.outcome, !.retryable = f.retryable, !.emitted = f.emitted]]

\* Slip: a failure past visible output falls back like any other.
GiveUpAfterOutputForgotten(f) == FALSE

GiveUpAfterOutput(f) == f.emitted

CallFails(r, f) ==
  /\ pc[r] = "calling"
  /\ Elapse(r)
  /\ RecordFailure(Route[r][at[r]], f)
  /\ \/ /\ GiveUpAfterOutput(f)
        /\ Stop(r, Failed(r, f), "FAILED_PARTIAL")
        /\ UNCHANGED repairs
     \/ /\ ~GiveUpAfterOutput(f) /\ MayRetry(r, f)
        /\ log' = [log EXCEPT ![r] = Failed(r, f)]
        /\ pc' = [pc EXCEPT ![r] = "waiting"]
        /\ UNCHANGED <<at, repairs, state>>
     \/ /\ ~GiveUpAfterOutput(f) /\ ~MayRetry(r, f)
        /\ repairs' = [repairs EXCEPT ![r] =
                         IF f.outcome \in FallbackOutcomes \/ f.retryable THEN 0 ELSE @]
        /\ LoopHead(r, at[r] + 1, FALSE, Failed(r, f))

\* Slip: a sleeper whose provider's circuit opened meanwhile sleeps again.
WakeUnlessOpen(r) ==
  /\ pc[r] = "waiting"
  /\ Elapse(r)
  /\ UNCHANGED <<repairs, breakerVars>>
  /\ \/ IsOpen(Route[r][at[r]]) /\ UNCHANGED <<pc, at, log, state>>
     \/ ~IsOpen(Route[r][at[r]]) /\ LoopHead(r, at[r], FALSE, log[r])

\* The wait is over.  A Retry-After may have outlasted the deadline.
Wake(r) ==
  /\ pc[r] = "waiting"
  /\ Elapse(r)
  /\ UNCHANGED <<repairs, breakerVars>>
  /\ LoopHead(r, at[r], FALSE, log[r])

Repairable(r, v) ==
  /\ v = "FAIL_REPAIRABLE"
  /\ repairs[r] < MaxRepairs
  /\ ~AttemptsUsed(log[r])

\* r's rows once its call has succeeded and was judged v.
Judged(r, v) ==
  [log[r] EXCEPT ![Len(log[r])] = [@ EXCEPT !.outcome = "SUCCESS", !.verdict = v]]

CallSucceeds(r, v) ==
  /\ pc[r] = "calling"
  /\ Elapse(r)
  /\ RecordSuccess(Route[r][at[r]])
  /\ \/ /\ v = "PASS"
        /\ Stop(r, Judged(r, v), "SUCCEEDED")
        /\ UNCHANGED repairs
     \/ /\ Repairable(r, v)
        /\ repairs' = [repairs EXCEPT ![r] = @ + 1]
        /\ LoopHead(r, at[r], TRUE, Judged(r, v))
     \/ /\ v # "PASS" /\ ~Repairable(r, v)
        /\ repairs' = [repairs EXCEPT ![r] = 0]
        /\ LoopHead(r, at[r] + 1, FALSE, Judged(r, v))

\* The task is cancelled at an await: the request stays READY.
Cancel(r) ==
  /\ pc[r] \in {"calling", "waiting"}
  /\ pc' = [pc EXCEPT ![r] = "gone"]
  /\ UNCHANGED <<at, repairs, log, state, left, breakerVars>>

CallEnds(r) == \/ \E f \in Failures : CallFails(r, f)
               \/ \E v \in Verdicts : CallSucceeds(r, v)

Next == \/ \E r \in Requests : Start(r) \/ CallEnds(r) \/ Wake(r) \/ Cancel(r)
        \/ \E p \in Providers : Cool(p)

Spec == Init /\ [][Next]_vars

\* A call ends, as Exchange shows of all but those whose provider sends on for ever,
\* and a sleep ends: the event loop then runs the task.  Circuits need not cool and
\* tasks need not be cancelled.
FairSpec == /\ Spec
            /\ \A r \in Requests : /\ WF_vars(Start(r))
                                   /\ WF_vars(CallEnds(r))
                                   /\ WF_vars(Wake(r))
-----------------------------------------------------------------------------
Terminal == {"SUCCEEDED", "FAILED_EXHAUSTED", "FAILED_PARTIAL", "EXPIRED",
             "REJECTED_BUDGET", "REJECTED_NO_ROUTE"}

Row == [at : Nat \ {0}, kind : {"GENERATION", "ESCALATION", "REPAIR"},
        outcome : {"null", "SUCCESS", "CANCELLED"} \cup {f.outcome : f \in Failures},
        retryable : BOOLEAN, emitted : BOOLEAN, verdict : {"none"} \cup Verdicts]

(* Every variable has its type; a request is terminal exactly when its task has
   returned.                                                                  *)
TypeOK ==
  /\ pc    \in [Requests -> {"new", "calling", "waiting", "done", "gone"}]
  /\ state \in [Requests -> Terminal \cup {"READY"}]
  /\ \A r \in Requests :
       /\ pc[r] = "done" <=> state[r] \in Terminal
       /\ at[r] \in 1..(Len(Route[r]) + 1)
       /\ repairs[r] \in 0..MaxRepairs
       /\ log[r] \in Seq(Row)
       /\ left[r] \in 0..Horizon
  /\ failures \in [Providers -> 0..Threshold]
  /\ circuit  \in [Providers -> {"closed", "open", "cooled"}]

Rows(r) == 1..Len(log[r])

(* The route only moves on.  A call is repeated on a model only after a failure
   that permits it, or as a repair of the output that has just failed -- even if
   other requests opened that provider's circuit during the call: the success has
   closed it again before the loop looks.  No model is asked for more repairs,
   and no request makes more attempts, than the plan allows, whatever retries and
   fallbacks lie between them.                                                *)
RepeatedForAReason ==
  \A r \in Requests :
    /\ Len(log[r]) <= MaxAttempts
    /\ \A k \in Rows(r) :
         log[r][k].kind = "REPAIR" =>
           k > 1 /\ log[r][k-1].at = log[r][k].at /\ log[r][k-1].verdict = "FAIL_REPAIRABLE"
    /\ \A k \in Rows(r) \ {1} :
         \/ log[r][k-1].at < log[r][k].at
         \/ /\ log[r][k-1].at = log[r][k].at
            /\ \/ log[r][k].kind = "REPAIR"
               \/ /\ log[r][k-1].outcome \in RetryableOutcomes
                  /\ log[r][k-1].retryable
    /\ \A i \in 1..Len(Route[r]) :
         Cardinality({k \in Rows(r) : log[r][k].at = i /\ log[r][k].kind = "REPAIR"})
           <= MaxRepairs

(* Once output was visible or was accepted there is no further attempt, and the
   state the request ends in is what its last attempt says.                   *)
EndsAsItsLastAttempt ==
  \A r \in Requests :
    /\ \A k \in Rows(r) : log[r][k].emitted \/ log[r][k].verdict = "PASS" =>
                            k = Len(log[r]) /\ pc[r] = "done"
    /\ state[r] = "SUCCEEDED" => Last(log[r]).verdict = "PASS"
    /\ state[r] = "FAILED_PARTIAL" => Last(log[r]).emitted
    /\ state[r] = "REJECTED_BUDGET" => Last(log[r]).outcome = "CANCELLED"

(* No call starts on a provider whose circuit is open, even when it opened while
   the request was waiting or calling another provider.                       *)
NoCallIntoOpenCircuit ==
  [][\A r \in Requests :
       Len(log'[r]) > Len(log[r]) => circuit'[Route[r][Last(log'[r]).at]] # "open"]_vars

(* Every request ends, unless its task is cancelled.                          *)
EveryRequestEnds == \A r \in Requests : <>(pc[r] \in {"done", "gone"})
=============================================================================
