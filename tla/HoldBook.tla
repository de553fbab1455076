------------------------------ MODULE HoldBook ------------------------------
(***************************************************************************)
(* What the budget ledger promises, without its counters.                  *)
(*                                                                         *)
(* A hold is the money one attempt keeps on one budget.  It is free, then  *)
(* held, then closed for good; closing fixes what was charged, never more  *)
(* than was held.  An attempt's holds are placed together or not at all,   *)
(* and only while what the budget's own holds commit leaves room.  The     *)
(* committed amount is summed from the holds here, whereas the code reads  *)
(* it off Budget.reserved and Budget.spent: BudgetLedger refines this      *)
(* module exactly when those two counters can be trusted.                  *)
(***************************************************************************)
EXTENDS Integers, FiniteSets, Sums

CONSTANTS Attempts,   \* provider calls the gateway may make
          Budgets,    \* budget rows
          Scope,      \* Scope[a]: the budgets attempt a is held against
          Limit       \* Limit[b]: the hard limit of budget b

VARIABLES status,     \* status[h] for a hold h = <<attempt, budget>>
          amount      \* what h commits: the hold, or the charge once closed

bookVars == <<status, amount>>

Holds == Attempts \X Budgets

HoldsOn(b) == {h \in Holds : h[2] = b}

\* Free holds commit nothing (amount 0), so the sum may range over all of b's.
Committed(b) == SumOver(HoldsOn(b), amount)

Init == /\ status = [h \in Holds |-> "free"]
        /\ amount = [h \in Holds |-> 0]

\* Attempt a is held for e on every budget in its scope, all or nothing.
Place(a, e) ==
  /\ \A b \in Budgets : status[<<a, b>>] = "free"
  /\ \A b \in Scope[a] : Committed(b) + e <= Limit[b]
  /\ status' = [h \in Holds |->
                  IF h[1] = a /\ h[2] \in Scope[a] THEN "held" ELSE status[h]]
  /\ amount' = [h \in Holds |->
                  IF h[1] = a /\ h[2] \in Scope[a] THEN e ELSE amount[h]]

\* Some of the holds are closed, each charged at most what it held.
Close(H) ==
  /\ \A h \in H : status[h] = "held"
  /\ status' = [h \in Holds |-> IF h \in H THEN "closed" ELSE status[h]]
  /\ amount' \in [Holds -> Nat]
  /\ \A h \in Holds : IF h \in H THEN amount'[h] <= amount[h]
                                 ELSE amount'[h] = amount[h]

\* The amount placed is read off the step itself: it is what any hold of a
\* commits afterwards.
Next == \/ \E a \in Attempts : \E b \in Scope[a] : Place(a, amount'[<<a, b>>])
        \/ \E H \in SUBSET Holds : Close(H)

Spec == Init /\ [][Next]_bookVars
=============================================================================
