---------------------------- MODULE BudgetLedger ----------------------------
(***************************************************************************)
(* The budget ledger and its users: services/budget.py, the reservation    *)
(* life of an attempt in services/orchestrator.py and the reconciler of    *)
(* services/reconciler.py.                                                 *)
(*                                                                         *)
(* A request makes its attempts one after the other.  Each attempt is a    *)
(* row written first, then a reservation (one hold per applicable budget), *)
(* then a provider call made with no transaction open, then the resolution *)
(* of the holds, then the outcome.  Each of these is a transaction of its  *)
(* own, so other requests, the reconciler and a crash of the process may   *)
(* come between any two.  A transaction is one step here, which is what    *)
(* BEGIN IMMEDIATE gives on SQLite; LedgerLocks takes the transactions     *)
(* apart for PostgreSQL.                                                   *)
(*                                                                         *)
(* The budgets that apply to a request do not change while it runs: the    *)
(* roll-over of budget windows is left out.                                *)
(***************************************************************************)
EXTENDS Integers, FiniteSets, Sums

CONSTANTS Requests,     \* requests the gateway serves
          MaxAttempts,  \* plan.max_generation_attempts
          Budgets,      \* budget rows
          ScopesOf,     \* ScopesOf[r]: the budgets matching r's scopes
          HardLimit,    \* Budget.hard_limit
          Ceiling,      \* Ceiling[r]: r's max_cost, or NoCeiling
          NoCeiling,    \* the caller set no max_cost
          Estimates,    \* Estimates[r]: estimated_cost of r's candidates
          BatchLimit    \* reservations one reconciler pass handles

ASSUME LedgerAssumption ==
  /\ IsFiniteSet(Requests)
  /\ IsFiniteSet(Budgets)
  /\ MaxAttempts \in Nat
  /\ ScopesOf \in [Requests -> SUBSET Budgets]
  /\ HardLimit \in [Budgets -> Nat]
  /\ Ceiling \in [Requests -> Nat \cup {NoCeiling}]
  /\ NoCeiling \notin Nat
  /\ Estimates \in [Requests -> SUBSET Nat]
  /\ BatchLimit \in Nat \ {0}

VARIABLES
  pc,        \* pc[r]: where r's task is between two transactions
  seq,       \* seq[r]: attempts r has made
  cost,      \* cost[r]: outcome.total_cost
  settled,   \* settled[r]: what the current call will be charged
  verdict,   \* verdict[r]: how the current call ended
  estimate,  \* estimate[a]: Attempt.cost_estimated
  outcome,   \* outcome[a]: Attempt.outcome; "none" while there is no row
  hold,      \* hold[h]: BudgetReservation.status; "none" while there is no row
  charge,    \* charge[h]: BudgetReservation.settled_amount
  lapsed,    \* attempts whose reservation's expires_at has passed
  reserved,  \* Budget.reserved
  spent      \* Budget.spent

taskVars   == <<pc, seq, cost, settled, verdict>>
ledgerVars == <<hold, charge, reserved, spent>>
vars == <<taskVars, estimate, outcome, ledgerVars, lapsed>>

Attempts == Requests \X (1..MaxAttempts)
Holds    == Attempts \X Budgets

Verdicts == {"SUCCESS", "FAILED", "CANCELLED", "INTERRUPTED"}

HoldsOn(b)       == {h \in Holds : h[2] = b}
Active           == {h \in Holds : hold[h] = "ACTIVE"}
Amount           == [h \in Holds |-> estimate[h[1]]]
Current(r)       == <<r, seq[r]>>
HeldFor(a)       == {h \in Active : h[1] = a}

-----------------------------------------------------------------------------
Init ==
  /\ pc       = [r \in Requests |-> "ready"]
  /\ seq      = [r \in Requests |-> 0]
  /\ cost     = [r \in Requests |-> 0]
  /\ settled  = [r \in Requests |-> 0]
  /\ verdict  = [r \in Requests |-> "SUCCESS"]
  /\ estimate = [a \in Attempts |-> 0]
  /\ outcome  = [a \in Attempts |-> "none"]
  /\ hold     = [h \in Holds |-> "none"]
  /\ charge   = [h \in Holds |-> 0]
  /\ lapsed   = {}
  /\ reserved = [b \in Budgets |-> 0]
  /\ spent    = [b \in Budgets |-> 0]

\* Slip: the cap compared with <=.
AttemptsLeftOffByOne(r) == seq[r] <= MaxAttempts

AttemptsLeft(r) == seq[r] < MaxAttempts

\* The attempt row is committed with no outcome before anything is reserved.
RecordAttempt(r) ==
  /\ pc[r] = "ready"
  /\ AttemptsLeft(r)
  /\ \E e \in Estimates[r] :
       estimate' = [estimate EXCEPT ![<<r, seq[r] + 1>>] = e]
  /\ outcome' = [outcome EXCEPT ![<<r, seq[r] + 1>>] = "null"]
  /\ seq' = [seq EXCEPT ![r] = @ + 1]
  /\ pc'  = [pc EXCEPT ![r] = "recorded"]
  /\ UNCHANGED <<cost, settled, verdict, ledgerVars, lapsed>>

\* Slip: headroom that forgets what other calls hold.
HeadroomIgnoringHolds(b) == HardLimit[b] - spent[b]

Headroom(b) == HardLimit[b] - spent[b] - reserved[b]

\* Slip: the ceiling checked for this attempt alone.
AffordableAlone(r) ==
  Ceiling[r] # NoCeiling => estimate[Current(r)] <= Ceiling[r]

Affordable(r) ==
  Ceiling[r] # NoCeiling => cost[r] + estimate[Current(r)] <= Ceiling[r]

\* Slip: one budget with room is enough.
CanReserveOnOne(r) ==
  /\ Affordable(r)
  /\ \E b \in ScopesOf[r] : Headroom(b) >= estimate[Current(r)]

CanReserve(r) ==
  /\ Affordable(r)
  /\ \A b \in ScopesOf[r] : Headroom(b) >= estimate[Current(r)]

Reserve(r) ==
  /\ pc[r] = "recorded"
  /\ CanReserve(r)
  /\ reserved' = [b \in Budgets |->
                    IF b \in ScopesOf[r] THEN reserved[b] + estimate[Current(r)]
                                         ELSE reserved[b]]
  /\ hold' = [h \in Holds |->
                IF h[1] = Current(r) /\ h[2] \in ScopesOf[r]
                THEN "ACTIVE" ELSE hold[h]]
  /\ pc' = [pc EXCEPT ![r] = "invoking"]
  /\ UNCHANGED <<seq, cost, settled, verdict, estimate, outcome, charge,
                 lapsed, spent>>

\* The ceiling or one of the budgets refuses: no hold, no counter moves.
Deny(r) ==
  /\ pc[r] = "recorded"
  /\ ~CanReserve(r)
  /\ pc' = [pc EXCEPT ![r] = "denied"]
  /\ UNCHANGED <<seq, cost, settled, verdict, estimate, outcome, ledgerVars,
                 lapsed>>

FinishDenied(r) ==
  /\ pc[r] = "denied"
  /\ outcome' = [outcome EXCEPT ![Current(r)] = "CANCELLED"]
  /\ pc' = [pc EXCEPT ![r] = "stopped"]
  /\ UNCHANGED <<seq, cost, settled, verdict, estimate, ledgerVars, lapsed>>

\* The locals of _attempt go out of scope.
Forget(r) == /\ settled' = [settled EXCEPT ![r] = 0]
             /\ verdict' = [verdict EXCEPT ![r] = "SUCCESS"]

\* What a call that ended this way is charged.  A failed or cancelled call is
\* charged in full once it showed output, and nothing before.  INTERRUPTED is
\* the task of a whole-response call being cancelled: CancelledError passes
\* both except clauses, so settled keeps its initial zero.
Bills(r, v) ==
  CASE v = "SUCCESS"                -> {estimate[Current(r)]}
    [] v \in {"FAILED", "CANCELLED"} -> {0, estimate[Current(r)]}
    [] v = "INTERRUPTED"            -> {0}

\* Slip: a failed call leaves without passing through the finally block.
CallReturnsUnresolved(r) ==
  /\ pc[r] = "invoking"
  /\ \E v \in Verdicts : \E bill \in Bills(r, v) :
       /\ verdict' = [verdict EXCEPT ![r] = v]
       /\ settled' = [settled EXCEPT ![r] = bill]
       /\ pc' = [pc EXCEPT ![r] = IF v = "FAILED" THEN "resolved" ELSE "returned"]
  /\ UNCHANGED <<seq, cost, estimate, outcome, ledgerVars, lapsed>>

CallReturns(r) ==
  /\ pc[r] = "invoking"
  /\ \E v \in Verdicts : \E bill \in Bills(r, v) :
       /\ verdict' = [verdict EXCEPT ![r] = v]
       /\ settled' = [settled EXCEPT ![r] = bill]
  /\ pc' = [pc EXCEPT ![r] = "returned"]
  /\ UNCHANGED <<seq, cost, estimate, outcome, ledgerVars, lapsed>>

AtLeastZero(n) == IF n < 0 THEN 0 ELSE n

\* Slip: rows resolved whatever their status.
ResolvableTwice(r) == {h \in Holds : h[1] = Current(r) /\ hold[h] # "none"}

\* Only rows still ACTIVE move: the reconciler may have been here first.
Resolvable(r) == HeldFor(Current(r))

\* The finally block: settle if anything is charged, release otherwise.  After
\* it, an interrupted task is gone; every other verdict goes on to be recorded.
Resolve(r) ==
  /\ pc[r] = "returned"
  /\ LET rows == Resolvable(r) IN
       /\ reserved' = [b \in Budgets |->
                         IF <<Current(r), b>> \in rows
                         THEN AtLeastZero(reserved[b] - estimate[Current(r)])
                         ELSE reserved[b]]
       /\ spent' = [b \in Budgets |->
                      IF <<Current(r), b>> \in rows
                      THEN spent[b] + settled[r] ELSE spent[b]]
       /\ hold' = [h \in Holds |->
                     IF h \notin rows THEN hold[h]
                     ELSE IF settled[r] > 0 THEN "SETTLED" ELSE "RELEASED"]
       /\ charge' = [h \in Holds |->
                       IF h \in rows THEN settled[r] ELSE charge[h]]
  /\ pc' = [pc EXCEPT ![r] =
              IF verdict[r] = "INTERRUPTED" THEN "stopped" ELSE "resolved"]
  /\ IF verdict[r] = "INTERRUPTED" THEN Forget(r)
                                  ELSE UNCHANGED <<settled, verdict>>
  /\ UNCHANGED <<seq, cost, estimate, outcome, lapsed>>

\* _finish_attempt overwrites whatever outcome is there; the loop then adds the
\* charge to the request's running total.
Finish(r) ==
  /\ pc[r] = "resolved"
  /\ outcome' = [outcome EXCEPT ![Current(r)] = verdict[r]]
  /\ cost' = [cost EXCEPT ![r] = @ + settled[r]]
  /\ pc' = [pc EXCEPT ![r] =
              IF verdict[r] = "CANCELLED" THEN "stopped" ELSE "ready"]
  /\ Forget(r)
  /\ UNCHANGED <<seq, estimate, ledgerVars, lapsed>>

\* The loop ends: success, deadline, attempts or candidates used up.
EndLoop(r) ==
  /\ pc[r] = "ready"
  /\ pc' = [pc EXCEPT ![r] = "stopped"]
  /\ UNCHANGED <<seq, cost, settled, verdict, estimate, outcome, ledgerVars,
                 lapsed>>

\* The process dies between two transactions: every committed row stays.
Crash(r) ==
  /\ pc[r] # "stopped"
  /\ pc' = [pc EXCEPT ![r] = "stopped"]
  /\ Forget(r)
  /\ UNCHANGED <<seq, cost, estimate, outcome, ledgerVars, lapsed>>

-----------------------------------------------------------------------------
\* The TTL passes.  Nothing ties it to the call: a deadline has no upper bound
\* and a provider timeout bounds the wait for each read, not the whole call.
Lapse(a) ==
  /\ HeldFor(a) # {}
  /\ a \notin lapsed
  /\ lapsed' = lapsed \cup {a}
  /\ UNCHANGED <<taskVars, estimate, outcome, ledgerVars>>

\* Slip: only rows of attempts without an outcome are looked at.
ExpiredInFlight == {h \in Active : h[1] \in lapsed /\ outcome[h[1]] = "null"}

Expired == {h \in Active : h[1] \in lapsed}

\* A pass takes the expired rows, up to the limit.  (The code takes the oldest
\* ones; expiry times are not modelled, so here any of them.)
Batches ==
  LET n == Cardinality(Expired)
  IN  {B \in SUBSET Expired :
         Cardinality(B) = IF n < BatchLimit THEN n ELSE BatchLimit}

InFlight(a) == outcome[a] = "null"

\* Of a batch, the rows that are charged.  The first row of an in-flight attempt
\* is, and marks the attempt abandoned; the attempt's later rows then find an
\* outcome and are released.
ChargedRows(B) ==
  {C \in SUBSET B :
     \A a \in {h[1] : h \in B} :
       Cardinality({h \in C : h[1] = a}) = IF InFlight(a) THEN 1 ELSE 0}

\* Each row of the batch gives back its hold; a charged one is then spent.
ReconcileRows(B, C) ==
  /\ reserved' = [b \in Budgets |->
                    AtLeastZero(reserved[b] - SumOver(B \cap HoldsOn(b), Amount))]
  /\ spent' = [b \in Budgets |->
                 spent[b] + SumOver(C \cap HoldsOn(b), Amount)]
  /\ hold' = [h \in Holds |-> IF h \in C THEN "EXPIRED"
                              ELSE IF h \in B THEN "RELEASED" ELSE hold[h]]
  /\ charge' = [h \in Holds |-> IF h \in C THEN Amount[h] ELSE charge[h]]
  /\ outcome' = [a \in Attempts |->
                   IF \E h \in C : h[1] = a THEN "abandoned" ELSE outcome[a]]

Reconcile ==
  /\ Expired # {}
  /\ \E B \in Batches : \E C \in ChargedRows(B) : ReconcileRows(B, C)
  /\ UNCHANGED <<taskVars, estimate, lapsed>>

-----------------------------------------------------------------------------
Step(r) == \/ RecordAttempt(r) \/ Reserve(r) \/ Deny(r) \/ FinishDenied(r)
           \/ CallReturns(r) \/ Resolve(r) \/ Finish(r)
           \/ EndLoop(r) \/ Crash(r)

Next == \/ \E r \in Requests : Step(r)
        \/ \E a \in Attempts : Lapse(a)
        \/ Reconcile

Spec == Init /\ [][Next]_vars

\* Time passes, and the operator runs the reconciler again and again.  No
\* request is assumed to make progress, so nothing is assumed of providers.
FairSpec == /\ Spec
            /\ \A a \in Attempts : WF_vars(Lapse(a))
            /\ WF_vars(Reconcile)
-----------------------------------------------------------------------------
PCs      == {"ready", "recorded", "denied", "invoking", "returned", "resolved",
             "stopped"}
Outcomes == {"none", "null", "SUCCESS", "FAILED", "CANCELLED", "abandoned"}
HoldStates == {"none", "ACTIVE", "SETTLED", "RELEASED", "EXPIRED"}
Closed     == {"SETTLED", "RELEASED", "EXPIRED"}

(* Every variable has its type; reserved and spent are never negative, which is
   what the CHECK constraints of the budgets table demand of each commit.     *)
TypeOK ==
  /\ pc       \in [Requests -> PCs]
  /\ seq      \in [Requests -> 0..MaxAttempts]
  /\ cost     \in [Requests -> Nat]
  /\ settled  \in [Requests -> Nat]
  /\ verdict  \in [Requests -> Verdicts]
  /\ estimate \in [Attempts -> Nat]
  /\ outcome  \in [Attempts -> Outcomes]
  /\ hold     \in [Holds -> HoldStates]
  /\ charge   \in [Holds -> Nat]
  /\ lapsed   \subseteq Attempts
  /\ reserved \in [Budgets -> Nat]
  /\ spent    \in [Budgets -> Nat]

(* The two counters of a budget are the sums of its rows: reserved of the holds
   still ACTIVE, spent of everything charged.  Concurrent requests, crashes, a
   reconciler that resolves a hold before its own attempt does, and the clamp
   at zero in _resolve leave no drift.                                        *)
Conservation ==
  \A b \in Budgets :
    /\ reserved[b] = SumOver(Active \cap HoldsOn(b), Amount)
    /\ spent[b] = SumOver(HoldsOn(b), charge)

(* No interleaving of requests overruns a budget: what is spent plus what calls
   still in flight may cost stays within the hard limit.                      *)
WithinHardLimit ==
  \A b \in Budgets : spent[b] + reserved[b] <= HardLimit[b]

HoldsOf(r, b) == {h \in HoldsOn(b) : h[1][1] = r}

(* A request's attempts together stay within its max_cost on every budget,
   counting a hold the reconciler charged if no later attempt was made.  (When
   a call outlives its TTL, is charged by the reconciler and then fails, the
   loop goes on with a total that misses that charge.)                        *)
Counted(r, h) ==
  \/ hold[h] \in {"ACTIVE", "SETTLED"}
  \/ hold[h] = "EXPIRED" /\ h[1] = Current(r)

WithinCeiling ==
  \A r \in Requests, b \in Budgets :
    Ceiling[r] # NoCeiling =>
      SumOver({h \in HoldsOf(r, b) : Counted(r, h)}, Amount) <= Ceiling[r]

(* An outcome the gateway records comes after the attempt's holds are resolved:
   a finished attempt holds no money.  The reconciler's release of an expired
   hold whose attempt has an outcome rests on this.                           *)
FinishedHoldsNothing ==
  \A a \in Attempts :
    outcome[a] \in {"SUCCESS", "FAILED", "CANCELLED"} => HeldFor(a) = {}

(* An attempt the reconciler gave up on is charged on a budget it was held
   against: a call that may have been billed does not vanish from the books.  *)
AbandonedIsCharged ==
  \A a \in Attempts :
    outcome[a] = "abandoned" =>
      \E b \in Budgets : hold[<<a, b>>] = "EXPIRED" /\ charge[<<a, b>>] = estimate[a]

(* The module docstring of reconciler.py (lines 15-17): an orphan whose attempt
   did start is EXPIRED and its estimate settled, not released -- on every
   budget it was held against.                                                *)
AbandonedIsChargedEverywhere ==
  \A a \in Attempts :
    outcome[a] = "abandoned" => \A b \in Budgets : hold[<<a, b>>] # "RELEASED"

(* A hold is resolved once: whoever comes second, the task or the reconciler,
   neither re-opens it nor changes what it was charged.                       *)
ResolvedOnce ==
  [][\A h \in Holds : hold[h] \in Closed =>
       hold'[h] = hold[h] /\ charge'[h] = charge[h]]_vars

(* No money is stranded: with time passing and the reconciler run again and
   again, there comes a time from which nothing is held, however the requests
   that held it ended.                                                        *)
EveryHoldResolved == <>[](\A h \in Holds : hold[h] # "ACTIVE")

-----------------------------------------------------------------------------
(* The counters can be trusted: what the code decides on them is what HoldBook
   decides on the rows.                                                       *)
BookStatus == [h \in Holds |-> IF hold[h] = "none" THEN "free"
                               ELSE IF hold[h] = "ACTIVE" THEN "held"
                               ELSE "closed"]
BookAmount == [h \in Holds |-> IF hold[h] = "ACTIVE" THEN Amount[h]
                                                     ELSE charge[h]]

Book == INSTANCE HoldBook
          WITH Attempts <- Attempts, Budgets <- Budgets, Limit <- HardLimit,
               Scope <- [a \in Attempts |-> ScopesOf[a[1]]],
               status <- BookStatus, amount <- BookAmount

ImplementsBook == Book!Spec
=============================================================================
