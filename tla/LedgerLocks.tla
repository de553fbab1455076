---------------------------- MODULE LedgerLocks ----------------------------
(***************************************************************************)
(* The transactions of services/budget.py and services/reconciler.py on    *)
(* PostgreSQL, taken apart into lock requests and a commit.                *)
(*                                                                         *)
(* BudgetLedger takes each transaction in one step.  On SQLite BEGIN       *)
(* IMMEDIATE justifies that.  On PostgreSQL, at READ COMMITTED, it rests   *)
(* on the row locks: a reservation locks its budgets in scope order, a     *)
(* resolution its reservation rows and then its budgets in id order, and   *)
(* both then write back values computed from what they read under the      *)
(* locks.  A reconciler pass reads without locking and takes row locks     *)
(* only as its UPDATEs are flushed; nothing keeps it apart from live       *)
(* requests.  Two history variables say what that costs: stale, what was   *)
(* written behind the back of the open pass, and drifted, where a pass has *)
(* since written over it.                                                  *)
(*                                                                         *)
(* One attempt per request suffices here: attempts of one request never    *)
(* overlap.  A request's reservation rows are locked as one, and max_cost  *)
(* is left to BudgetLedger.                                                *)
(***************************************************************************)
EXTENDS Integers, FiniteSets, Sums

CONSTANTS Tasks,          \* attempts in flight, each in a session of its own
          Budgets,        \* budget rows
          ScopesOf,       \* ScopesOf[t]: the budgets matching t's scopes
          HardLimit,      \* Budget.hard_limit
          Estimate,       \* Estimate[t]: what t reserves
          ScopeRank,      \* ScopeRank[b]: b's place by (scope, window_start, id)
          IdRank,         \* IdRank[b]: b's place by id
          Reconciler,     \* the session of a reconciler pass
          Nobody

ASSUME LocksAssumption ==
  /\ IsFiniteSet(Tasks)
  /\ IsFiniteSet(Budgets)
  /\ Tasks \cap Budgets = {}
  /\ ScopesOf \in [Tasks -> SUBSET Budgets]
  /\ HardLimit \in [Budgets -> Nat]
  /\ Estimate \in [Tasks -> Nat]
  /\ ScopeRank \in [Budgets -> Nat]
  /\ IdRank \in [Budgets -> Nat]
  /\ \A b, c \in Budgets : b # c => /\ ScopeRank[b] # ScopeRank[c]
                                   /\ IdRank[b] # IdRank[c]
  /\ Reconciler \notin Tasks
  /\ Nobody \notin Tasks \cup {Reconciler}

VARIABLES
  phase,     \* phase[p]: where session p is
  wants,     \* wants[p]: locks p's transaction has still to take
  owner,     \* owner[l]: the session holding lock l
  seen,      \* seen[p][b]: reserved and spent of b as p read them
  batch,     \* rows the reconciler pass read as expired and ACTIVE
  ambiguous, \* those of the batch it will charge
  bill,      \* bill[t]: what t's call is charged
  outcome,   \* outcome[t]: Attempt.outcome
  hold,      \* hold[h]: BudgetReservation.status
  charge,    \* charge[h]: BudgetReservation.settled_amount
  reserved,  \* Budget.reserved
  spent,     \* Budget.spent
  stale,     \* history: budgets a task has written since the open pass read them
  drifted    \* history: budgets a pass has written while they were stale

lockVars == <<wants, owner, seen>>
passVars == <<batch, ambiguous>>
bookVars == <<hold, charge, reserved, spent>>
historyVars == <<stale, drifted>>
vars == <<phase, lockVars, passVars, bill, outcome, bookVars, historyVars>>

Sessions == Tasks \cup {Reconciler}
Locks    == Budgets \cup Tasks        \* a task's lock is on its own rows
Holds    == Tasks \X Budgets

OpenPhases == {"reserving", "resolving", "reconciling"}

HoldsOn(b) == {h \in Holds : h[2] = b}

\* Slip: the rows are resolved whatever their status, as their ids are known.
HeldForAny(t) == {h \in Holds : h[1] = t /\ hold[h] # "none"}

HeldFor(t) == {h \in Holds : h[1] = t /\ hold[h] = "ACTIVE"}
Amount     == [h \in Holds |-> Estimate[h[1]]]
Unread     == [b \in Budgets |-> [reserved |-> 0, spent |-> 0]]
Fresh      == [b \in Budgets |-> [reserved |-> reserved[b], spent |-> spent[b]]]

-----------------------------------------------------------------------------
Init ==
  /\ phase     = [p \in Sessions |-> IF p \in Tasks THEN "recorded" ELSE "idle"]
  /\ wants     = [p \in Sessions |-> {}]
  /\ owner     = [l \in Locks |-> Nobody]
  /\ seen      = [p \in Sessions |-> Unread]
  /\ batch     = {}
  /\ ambiguous = {}
  /\ bill      = [t \in Tasks |-> 0]
  /\ outcome   = [t \in Tasks |-> "null"]
  /\ hold      = [h \in Holds |-> "none"]
  /\ charge    = [h \in Holds |-> 0]
  /\ reserved  = [b \in Budgets |-> 0]
  /\ spent     = [b \in Budgets |-> 0]
  /\ stale     = {}
  /\ drifted   = {}

Begin(p, opened, locks) ==
  /\ phase' = [phase EXCEPT ![p] = opened]
  /\ wants' = [wants EXCEPT ![p] = locks]
  /\ UNCHANGED owner

BeginReserve(t) ==
  /\ phase[t] = "recorded"
  /\ Begin(t, "reserving", ScopesOf[t])
  /\ UNCHANGED <<seen, passVars, bill, outcome, bookVars, historyVars>>

\* Slip: the reserving SELECT without its ORDER BY.
BeforeUnordered(p, m, l) ==
  /\ phase[p] # "reserving"
  /\ \/ m \in Tasks /\ l \in Budgets
     \/ m \in Budgets /\ l \in Budgets /\ IdRank[m] < IdRank[l]

\* m is locked before l in p's transaction.
Before(p, m, l) ==
  \/ /\ phase[p] = "reserving"
     /\ ScopeRank[m] < ScopeRank[l]
  \/ /\ phase[p] = "resolving"
     /\ m \in Tasks /\ l \in Budgets
  \/ /\ phase[p] # "reserving"
     /\ m \in Budgets /\ l \in Budgets
     /\ IdRank[m] < IdRank[l]

NextLocks(p) == {l \in wants[p] : ~ \E m \in wants[p] : Before(p, m, l)}

\* Slip: no FOR UPDATE.
GrantableAlways(l) == owner[l] \in Sessions \cup {Nobody}

Grantable(l) == owner[l] = Nobody

\* A SELECT ... FOR UPDATE reads the row as it is once the lock is granted.  The
\* reconciler's UPDATE locks the row and keeps the values computed before it.
Acquire(p) ==
  \E l \in NextLocks(p) :
    /\ Grantable(l)
    /\ owner' = [owner EXCEPT ![l] = p]
    /\ wants' = [wants EXCEPT ![p] = @ \ {l}]
    /\ seen' = IF p \in Tasks /\ l \in Budgets
               THEN [seen EXCEPT ![p][l] = Fresh[l]] ELSE seen
    /\ UNCHANGED <<phase, passVars, bill, outcome, bookVars, historyVars>>

\* Slip: the session keeps its transaction open across the provider call.
EndKeepingLocks(p, next) ==
  /\ phase' = [phase EXCEPT ![p] = next]
  /\ owner' = IF next = "invoking" THEN owner
              ELSE [l \in Locks |-> IF owner[l] = p THEN Nobody ELSE owner[l]]
  /\ wants' = [wants EXCEPT ![p] = {}]
  /\ seen' = [seen EXCEPT ![p] = Unread]

\* Commit or rollback releases every lock of the transaction; the rows it loaded
\* are dropped with it.
End(p, next) ==
  /\ phase' = [phase EXCEPT ![p] = next]
  /\ owner' = [l \in Locks |-> IF owner[l] = p THEN Nobody ELSE owner[l]]
  /\ wants' = [wants EXCEPT ![p] = {}]
  /\ seen' = [seen EXCEPT ![p] = Unread]

\* A task commits new values of the budgets in B, unseen by a pass that is open.
Overtakes(B) ==
  /\ stale' = IF phase[Reconciler] = "reconciling" THEN stale \cup B ELSE stale
  /\ UNCHANGED drifted

Headroom(t, b) == HardLimit[b] - seen[t][b].spent - seen[t][b].reserved

CommitReserve(t) ==
  /\ phase[t] = "reserving" /\ wants[t] = {}
  /\ \A b \in ScopesOf[t] : Headroom(t, b) >= Estimate[t]
  /\ reserved' = [b \in Budgets |->
                    IF b \in ScopesOf[t] THEN seen[t][b].reserved + Estimate[t]
                                         ELSE reserved[b]]
  /\ hold' = [h \in Holds |-> IF h[1] = t /\ h[2] \in ScopesOf[t]
                              THEN "ACTIVE" ELSE hold[h]]
  /\ End(t, "invoking")
  /\ Overtakes(ScopesOf[t])
  /\ UNCHANGED <<passVars, bill, outcome, charge, spent>>

Deny(t) ==
  /\ phase[t] = "reserving" /\ wants[t] = {}
  /\ \E b \in ScopesOf[t] : Headroom(t, b) < Estimate[t]
  /\ End(t, "stopped")
  /\ UNCHANGED <<passVars, bill, outcome, bookVars, historyVars>>

CallReturns(t) ==
  /\ phase[t] = "invoking"
  /\ \E n \in {0, Estimate[t]} : bill' = [bill EXCEPT ![t] = n]
  /\ phase' = [phase EXCEPT ![t] = "returned"]
  /\ UNCHANGED <<lockVars, passVars, outcome, bookVars, historyVars>>

BeginResolve(t) ==
  /\ phase[t] = "returned"
  /\ Begin(t, "resolving", {t} \cup ScopesOf[t])
  /\ UNCHANGED <<seen, passVars, bill, outcome, bookVars, historyVars>>

AtLeastZero(n) == IF n < 0 THEN 0 ELSE n

\* The rows read under their lock and still ACTIVE move; both counters of their
\* budgets are written from the values read under the budgets' locks.
CommitResolve(t) ==
  /\ phase[t] = "resolving" /\ wants[t] = {}
  /\ LET moved == {b \in Budgets : <<t, b>> \in HeldFor(t)} IN
       /\ reserved' = [b \in Budgets |->
                         IF b \in moved
                         THEN AtLeastZero(seen[t][b].reserved - Estimate[t])
                         ELSE reserved[b]]
       /\ spent' = [b \in Budgets |-> IF b \in moved
                                      THEN seen[t][b].spent + bill[t]
                                      ELSE spent[b]]
       /\ Overtakes(moved)
  /\ hold' = [h \in Holds |-> IF h \notin HeldFor(t) THEN hold[h]
                              ELSE IF bill[t] > 0 THEN "SETTLED" ELSE "RELEASED"]
  /\ charge' = [h \in Holds |-> IF h \in HeldFor(t) THEN bill[t] ELSE charge[h]]
  /\ End(t, "resolved")
  /\ UNCHANGED <<passVars, bill, outcome>>

Finish(t) ==
  /\ phase[t] = "resolved"
  /\ outcome' = [outcome EXCEPT ![t] = "recorded"]
  /\ phase' = [phase EXCEPT ![t] = "stopped"]
  /\ UNCHANGED <<lockVars, passVars, bill, bookVars, historyVars>>

\* The process dies: its connection drops and PostgreSQL rolls back.
Crash(t) ==
  /\ phase[t] # "stopped"
  /\ End(t, "stopped")
  /\ UNCHANGED <<passVars, bill, outcome, bookVars, historyVars>>

-----------------------------------------------------------------------------
\* A pass reads everything it needs, unlocked: the expired rows (an attempt's
\* rows expire together), the outcomes of their attempts and their budgets.
BeginReconcile ==
  /\ phase[Reconciler] = "idle"
  /\ \E X \in (SUBSET {t \in Tasks : HeldFor(t) # {}}) \ {{}} :
       /\ batch' = UNION {HeldFor(t) : t \in X}
       /\ \E C \in SUBSET batch' :
            /\ \A t \in X : Cardinality({h \in C : h[1] = t})
                              = IF outcome[t] = "null" THEN 1 ELSE 0
            /\ ambiguous' = C
       /\ Begin(Reconciler, "reconciling", X \cup {h[2] : h \in batch'})
  /\ seen' = [seen EXCEPT ![Reconciler] = Fresh]
  /\ UNCHANGED <<bill, outcome, bookVars, historyVars>>

OfBudget(H, b) == SumOver(H \cap HoldsOn(b), Amount)

CommitReconcile ==
  /\ phase[Reconciler] = "reconciling" /\ wants[Reconciler] = {}
  /\ LET mine == seen[Reconciler] IN
       /\ reserved' = [b \in Budgets |->
                         IF batch \cap HoldsOn(b) # {}
                         THEN AtLeastZero(mine[b].reserved - OfBudget(batch, b))
                         ELSE reserved[b]]
       /\ spent' = [b \in Budgets |->
                      IF ambiguous \cap HoldsOn(b) # {}
                      THEN mine[b].spent + OfBudget(ambiguous, b)
                      ELSE spent[b]]
  /\ hold' = [h \in Holds |-> IF h \in ambiguous THEN "EXPIRED"
                              ELSE IF h \in batch THEN "RELEASED" ELSE hold[h]]
  /\ charge' = [h \in Holds |-> IF h \in ambiguous THEN Amount[h]
                                ELSE IF h \in batch THEN 0 ELSE charge[h]]
  /\ outcome' = [t \in Tasks |-> IF \E h \in ambiguous : h[1] = t
                                 THEN "abandoned" ELSE outcome[t]]
  /\ End(Reconciler, "idle")
  /\ batch' = {}
  /\ ambiguous' = {}
  /\ stale' = {}
  /\ drifted' = drifted \cup (stale \cap {h[2] : h \in batch})
  /\ UNCHANGED bill

\* The pass dies, or is the one PostgreSQL rolls back to break a deadlock.
AbandonPass ==
  /\ phase[Reconciler] = "reconciling"
  /\ End(Reconciler, "idle")
  /\ batch' = {}
  /\ ambiguous' = {}
  /\ stale' = {}
  /\ UNCHANGED <<bill, outcome, bookVars, drifted>>

-----------------------------------------------------------------------------
Step(t) == \/ BeginReserve(t) \/ CommitReserve(t) \/ Deny(t) \/ CallReturns(t)
           \/ BeginResolve(t) \/ CommitResolve(t) \/ Finish(t) \/ Crash(t)

Next == \/ \E t \in Tasks : Step(t)
        \/ \E p \in Sessions : Acquire(p)
        \/ BeginReconcile
        \/ CommitReconcile
        \/ AbandonPass

Spec == Init /\ [][Next]_vars
-----------------------------------------------------------------------------
Phases == OpenPhases \cup {"recorded", "invoking", "returned", "resolved",
                           "stopped", "idle"}

(* Every variable has its type, and neither counter of a budget that no pass
   has overwritten passes its hard limit alone; none falls below zero.        *)
TypeOK ==
  /\ phase     \in [Sessions -> Phases]
  /\ wants     \in [Sessions -> SUBSET Locks]
  /\ owner     \in [Locks -> Sessions \cup {Nobody}]
  /\ seen      \in [Sessions -> [Budgets -> [reserved : Nat, spent : Nat]]]
  /\ batch     \subseteq Holds
  /\ ambiguous \subseteq batch
  /\ bill      \in [Tasks -> Nat]
  /\ outcome   \in [Tasks -> {"null", "recorded", "abandoned"}]
  /\ hold      \in [Holds -> {"none", "ACTIVE", "SETTLED", "RELEASED", "EXPIRED"}]
  /\ charge    \in [Holds -> Nat]
  /\ reserved  \in [Budgets -> Nat]
  /\ spent     \in [Budgets -> Nat]
  /\ stale     \subseteq Budgets
  /\ drifted   \subseteq Budgets
  /\ \A b \in Budgets \ drifted : /\ reserved[b] <= HardLimit[b]
                                 /\ spent[b] <= HardLimit[b]

(* No lock is held across a provider call, nor by a session that is gone (the
   module docstring of budget.py, lines 26-29).                               *)
NoLockAcrossCall ==
  \A l \in Locks : owner[l] # Nobody => phase[owner[l]] \in OpenPhases

\* A budget's counters are the sums of its rows.
Balanced(b) ==
  /\ reserved[b] = OfBudget({h \in Holds : hold[h] = "ACTIVE"}, b)
  /\ spent[b] = SumOver(HoldsOn(b), charge)

(* No task's update is lost to another's: the counters are the sums of the rows
   although every commit overwrites them with values computed from an earlier
   read (the docstring of _resolve, budget.py lines 180-185).  Only a pass that
   writes over what it has not seen breaks a budget, and that budget alone.    *)
Conservation == \A b \in Budgets \ drifted : Balanced(b)

(* The same of every budget: the docstring's claim, were the reconciler held to
   the locks it says a read-modify-write on reserved and spent needs.         *)
NoUpdateIsLost == \A b \in Budgets : Balanced(b)

WaitsFor(p, q) == p # q /\ \E l \in NextLocks(p) : owner[l] = q

\* Everyone in S waits for another of S: PostgreSQL has to kill one of them.
Circle(S) == \A p \in S : \E q \in S : WaitsFor(p, q)

Touched(p) == {b \in Budgets : b \in wants[p] \/ owner[b] = p}

\* Reservations go by scope, everyone else by id: the two agree on what S locks.
OneOrder(S) ==
  \A b, c \in UNION {Touched(p) : p \in S} :
    ScopeRank[b] < ScopeRank[c] <=> IdRank[b] < IdRank[c]

(* Everyone waiting on everyone.  The order of each statement keeps reservations
   from waiting for each other in a circle (budget.py line 85), and resolutions
   (lines 187-188).  A circle takes a reservation, somebody that locks by id and
   budgets whose ids do not follow their scopes; or a resolution and a pass,
   which locks rows and budgets in no particular order.                       *)
NoWaitCycle ==
  \A S \in (SUBSET Sessions) \ {{}} : Circle(S) =>
    \/ /\ \E p \in S : phase[p] = "reserving"
       /\ \E p \in S : phase[p] # "reserving"
       /\ ~OneOrder(S)
    \/ Reconciler \in S /\ \E t \in S : phase[t] = "resolving"

(* "Lock order is fixed -- reservations by ID, then budgets by ID -- so concurrent
   settlements cannot deadlock against each other or against reserve" (the
   docstring of _resolve, budget.py lines 187-189).                           *)
NoGatewayDeadlock == \A S \in (SUBSET Tasks) \ {{}} : ~Circle(S)

-----------------------------------------------------------------------------
(* The row locks make the transactions atomic: what the sessions do one lock at
   a time is what HoldBook does in one step, until a pass first writes over what
   it has not seen.                                                           *)
BookStatus == [h \in Holds |-> IF hold[h] = "none" THEN "free"
                               ELSE IF hold[h] = "ACTIVE" THEN "held"
                               ELSE "closed"]
BookAmount == [h \in Holds |-> IF hold[h] = "ACTIVE" THEN Amount[h]
                                                     ELSE charge[h]]

Book == INSTANCE HoldBook
          WITH Attempts <- Tasks, Budgets <- Budgets, Limit <- HardLimit,
               Scope <- ScopesOf, status <- BookStatus, amount <- BookAmount

ImplementsBook ==
  /\ Book!Init
  /\ [][drifted' = {} => Book!Next]_(Book!bookVars)
=============================================================================
