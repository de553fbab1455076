------------------------- MODULE BudgetLedgerProofs -------------------------
(***************************************************************************)
(* Proofs about BudgetLedger, for any number of requests, attempts and     *)
(* budgets, any limits, ceilings and estimates.                            *)
(*                                                                         *)
(* Conservation is not inductive alone.  IInv adds what the code relies    *)
(* on: a reservation is only made for a fresh attempt, a call is never     *)
(* charged more than its estimate, and an unresolved row is not charged.   *)
(*                                                                         *)
(* The second part is about outcomes: a recorded one means that nothing is *)
(* held, and an abandoned attempt has been charged.  OInv adds what makes  *)
(* that inductive: an attempt not yet reserved has no outcome, and one     *)
(* that is resolved holds nothing while its outcome is not yet written.    *)
(*                                                                         *)
(* The third is the caller's max_cost, which bounds what all attempts of a *)
(* request cost.  reserve (budget.py) compares it with a total the loop    *)
(* keeps in a local variable, and never with the rows.  CInv says what     *)
(* makes that right: the total has at least what earlier attempts were     *)
(* charged.                                                                *)
(***************************************************************************)
EXTENDS BudgetLedger, SumsProofs

\* Attempts not yet made hold nothing, and neither does one not yet reserved.
Fresh ==
  \A r \in Requests :
    /\ pc[r] \notin {"ready", "stopped"} => seq[r] >= 1
    /\ pc[r] \in {"recorded", "denied"} =>
         \A b \in Budgets : hold[<<Current(r), b>>] = "none"
    /\ pc[r] = "resolved" => verdict[r] # "INTERRUPTED"
    /\ \A n \in 1..MaxAttempts, b \in Budgets :
         n > seq[r] => hold[<<<<r, n>>, b>>] = "none"

\* What a call will be charged is at most its estimate.
BillInv ==
  \A r \in Requests :
    pc[r] \in {"returned", "resolved"} => settled[r] <= estimate[Current(r)]

\* A row is charged only by being resolved.
ChargeInv == \A h \in Holds : hold[h] \in {"none", "ACTIVE"} => charge[h] = 0

IInv == TypeOK /\ Fresh /\ BillInv /\ ChargeInv /\ Conservation /\ WithinHardLimit

-----------------------------------------------------------------------------
(* Rows are finitely many, so are those of one budget.                      *)
LEMMA HoldsFinite ==
  /\ IsFiniteSet(Holds)
  /\ \A b : IsFiniteSet(HoldsOn(b))
  /\ \A S : S \subseteq Holds => IsFiniteSet(S)
<1>1. IsFiniteSet(1..MaxAttempts)
  <2>1. 1 \in Int /\ MaxAttempts \in Int
    BY LedgerAssumption
  <2>2. QED
    BY <2>1, FS_Interval
<1>2. IsFiniteSet(Attempts)
  BY <1>1, LedgerAssumption, FS_Product DEF Attempts
<1>3. IsFiniteSet(Holds)
  BY <1>2, LedgerAssumption, FS_Product DEF Holds
<1>4. \A S : S \subseteq Holds => IsFiniteSet(S)
  BY <1>3, FS_Subset
<1>5. \A b : HoldsOn(b) \subseteq Holds
  BY DEF HoldsOn
<1>6. QED
  BY <1>3, <1>4, <1>5

(* The sequence number of a request at work is that of one of its attempts. *)
LEMMA SeqType ==
  ASSUME TypeOK, Fresh, NEW r \in Requests, pc[r] \notin {"ready", "stopped"}
  PROVE  seq[r] \in 1..MaxAttempts /\ seq[r] \in Nat
<1>1. seq[r] \in 0..MaxAttempts /\ MaxAttempts \in Nat
  BY LedgerAssumption DEF TypeOK
<1>2. seq[r] >= 1
  BY DEF Fresh
<1>3. QED
  BY <1>1, <1>2

(* A request past its first RecordAttempt is at one of its attempts.        *)
LEMMA CurrentType ==
  ASSUME TypeOK, Fresh, NEW r \in Requests, pc[r] \notin {"ready", "stopped"}
  PROVE  /\ Current(r) \in Attempts
         /\ \A b \in Budgets : <<Current(r), b>> \in Holds
         /\ estimate[Current(r)] \in Nat
<1>1. seq[r] \in 1..MaxAttempts
  BY SeqType
<1>2. QED
  BY <1>1 DEF Current, Attempts, Holds, TypeOK

(* The amounts of rows are naturals, and so are their sums.                 *)
LEMMA AmountType ==
  ASSUME TypeOK
  PROVE  /\ \A h \in Holds : Amount[h] = estimate[h[1]] /\ Amount[h] \in Nat
         /\ \A S : S \subseteq Holds => SumOver(S, Amount) \in Nat
<1>1. \A h \in Holds : Amount[h] = estimate[h[1]] /\ Amount[h] \in Nat
  BY DEF Amount, Holds, TypeOK
<1>2. ASSUME NEW S, S \subseteq Holds PROVE SumOver(S, Amount) \in Nat
  BY <1>1, <1>2, HoldsFinite, SumType
<1>3. QED
  BY <1>1, <1>2

(* Arithmetic of a counter, apart from the sums it is used on.               *)
LEMMA Counters ==
  \A m, n \in Nat : /\ AtLeastZero(m - n) \in Nat
                    /\ m + n \in Nat
                    /\ n <= m => AtLeastZero(m - n) = m - n
                    /\ (m + n) - n = m
BY DEF AtLeastZero

(* The reconciler charges only rows it was handed.                          *)
LEMMA BatchType ==
  ASSUME NEW B \in Batches, NEW C \in ChargedRows(B)
  PROVE  C \subseteq B /\ B \subseteq Expired /\ B \subseteq Active
         /\ B \subseteq Holds
BY DEF Batches, ChargedRows, Expired, Active

-----------------------------------------------------------------------------
(* Every step keeps the types; the counters stay natural because _resolve    *)
(* clamps reserved and sums of amounts are naturals.                         *)
LEMMA TypeStep ==
  ASSUME TypeOK, Fresh, Next
  PROVE  TypeOK'
<1> USE DEF TypeOK, PCs, Outcomes, HoldStates, Verdicts
<1>1. ASSUME NEW r \in Requests, RecordAttempt(r) PROVE TypeOK'
  <2>1. seq[r] + 1 \in 1..MaxAttempts
    BY <1>1, LedgerAssumption DEF RecordAttempt, AttemptsLeft
  <2>2. PICK e \in Estimates[r] :
          estimate' = [estimate EXCEPT ![<<r, seq[r] + 1>>] = e]
    BY <1>1 DEF RecordAttempt
  <2>3. e \in Nat
    BY LedgerAssumption
  <2>4. estimate' \in [Attempts -> Nat]
    BY <2>2, <2>3
  <2>5. seq' \in [Requests -> 0..MaxAttempts]
    BY <1>1, <2>1 DEF RecordAttempt
  <2>6. QED
    BY <1>1, <2>4, <2>5 DEF RecordAttempt, ledgerVars
<1>2. ASSUME NEW r \in Requests, Reserve(r) PROVE TypeOK'
  <2>1. estimate[Current(r)] \in Nat
    BY <1>2, CurrentType DEF Reserve
  <2>2. reserved' \in [Budgets -> Nat]
    BY <1>2, <2>1 DEF Reserve
  <2>3. hold' \in [Holds -> HoldStates]
    BY <1>2 DEF Reserve
  <2>4. QED
    BY <1>2, <2>2, <2>3 DEF Reserve
<1>3. ASSUME NEW r \in Requests, Deny(r) PROVE TypeOK'
  BY <1>3 DEF Deny, ledgerVars
<1>4. ASSUME NEW r \in Requests, FinishDenied(r) PROVE TypeOK'
  BY <1>4 DEF FinishDenied, ledgerVars
<1>5. ASSUME NEW r \in Requests, CallReturns(r) PROVE TypeOK'
  <2>1. estimate[Current(r)] \in Nat
    BY <1>5, CurrentType DEF CallReturns
  <2>a. PICK v \in Verdicts : \E bill \in Bills(r, v) :
          /\ verdict' = [verdict EXCEPT ![r] = v]
          /\ settled' = [settled EXCEPT ![r] = bill]
    BY <1>5 DEF CallReturns
  <2>2. PICK bill \in Bills(r, v) :
          /\ verdict' = [verdict EXCEPT ![r] = v]
          /\ settled' = [settled EXCEPT ![r] = bill]
    BY <2>a
  <2>3. bill \in Nat
    BY <2>1, <2>2 DEF Bills
  <2>4. QED
    BY <1>5, <2>2, <2>3 DEF CallReturns, ledgerVars
<1>6. ASSUME NEW r \in Requests, Resolve(r) PROVE TypeOK'
  <2>1. estimate[Current(r)] \in Nat
    BY <1>6, CurrentType DEF Resolve
  <2>2. reserved' \in [Budgets -> Nat]
    BY <1>6, <2>1 DEF Resolve, AtLeastZero
  <2>3. spent' \in [Budgets -> Nat]
    BY <1>6 DEF Resolve
  <2>4. hold' \in [Holds -> HoldStates]
    BY <1>6 DEF Resolve
  <2>5. charge' \in [Holds -> Nat]
    BY <1>6 DEF Resolve
  <2>6. QED
    BY <1>6, <2>2, <2>3, <2>4, <2>5 DEF Resolve, Forget
<1>7. ASSUME NEW r \in Requests, Finish(r) PROVE TypeOK'
  <2>1. verdict[r] \in Outcomes
    BY <1>7 DEF Finish, Fresh
  <2>2. outcome' \in [Attempts -> Outcomes]
    BY <1>7, <2>1 DEF Finish
  <2>3. cost' \in [Requests -> Nat]
    BY <1>7 DEF Finish
  <2>4. QED
    BY <1>7, <2>2, <2>3 DEF Finish, Forget, ledgerVars
<1>8. ASSUME NEW r \in Requests, EndLoop(r) PROVE TypeOK'
  BY <1>8 DEF EndLoop, ledgerVars
<1>9. ASSUME NEW r \in Requests, Crash(r) PROVE TypeOK'
  BY <1>9 DEF Crash, Forget, ledgerVars
<1>10. ASSUME NEW a \in Attempts, Lapse(a) PROVE TypeOK'
  BY <1>10 DEF Lapse, taskVars, ledgerVars
<1>11. ASSUME Reconcile PROVE TypeOK'
  <2>a. PICK B \in Batches : \E C \in ChargedRows(B) : ReconcileRows(B, C)
    BY <1>11 DEF Reconcile
  <2>1. PICK C \in ChargedRows(B) : ReconcileRows(B, C)
    BY <2>a
  <2>2. C \subseteq Holds /\ B \subseteq Holds
    BY BatchType
  <2>3. \A b \in Budgets : /\ SumOver(B \cap HoldsOn(b), Amount) \in Nat
                           /\ SumOver(C \cap HoldsOn(b), Amount) \in Nat
    BY <2>2, AmountType
  <2>b. \A b \in Budgets :
          /\ AtLeastZero(reserved[b] - SumOver(B \cap HoldsOn(b), Amount)) \in Nat
          /\ spent[b] + SumOver(C \cap HoldsOn(b), Amount) \in Nat
    <3>1. \A b \in Budgets : reserved[b] \in Nat /\ spent[b] \in Nat
      OBVIOUS
    <3>2. QED
      BY <2>3, <3>1, Counters, Zenon
  <2>4. reserved' \in [Budgets -> Nat]
    BY <2>1, <2>b, Zenon DEF ReconcileRows
  <2>5. spent' \in [Budgets -> Nat]
    BY <2>1, <2>b, Zenon DEF ReconcileRows
  <2>6. charge' \in [Holds -> Nat]
    BY <2>1, <2>2, AmountType DEF ReconcileRows
  <2>7. hold' \in [Holds -> HoldStates] /\ outcome' \in [Attempts -> Outcomes]
    BY <2>1 DEF ReconcileRows
  <2>8. QED
    BY <1>11, <2>4, <2>5, <2>6, <2>7 DEF Reconcile, taskVars
<1>12. QED
  BY <1>1, <1>2, <1>3, <1>4, <1>5, <1>6, <1>7, <1>8, <1>9, <1>10, <1>11
     DEF Next, Step

-----------------------------------------------------------------------------
(* A step that opens no row and leaves seq alone keeps rows fresh.           *)
LEMMA FreshStep ==
  ASSUME TypeOK, Fresh, Next
  PROVE  Fresh'
<1> USE DEF TypeOK, Fresh, Current
<1>1. ASSUME NEW r \in Requests, RecordAttempt(r) PROVE Fresh'
  <2>1. /\ seq' = [seq EXCEPT ![r] = seq[r] + 1]
        /\ pc' = [pc EXCEPT ![r] = "recorded"]
        /\ hold' = hold /\ verdict' = verdict
    BY <1>1 DEF RecordAttempt, ledgerVars
  <2>2. seq[r] + 1 \in 1..MaxAttempts /\ seq[r] + 1 > seq[r]
    BY <1>1, LedgerAssumption DEF RecordAttempt, AttemptsLeft
  <2>3. \A b \in Budgets : hold'[<<<<r, seq'[r]>>, b>>] = "none"
    BY <2>1, <2>2
  <2>4. \A q \in Requests : seq[q] \in Nat /\ seq'[q] \in Nat /\ seq[q] <= seq'[q]
    BY <2>1, LedgerAssumption
  <2>5. QED
    BY <2>1, <2>2, <2>3, <2>4
<1>2. ASSUME NEW r \in Requests, Reserve(r) PROVE Fresh'
  <2>1. \A h \in Holds : h[1] # <<r, seq[r]>> => hold'[h] = hold[h]
    BY <1>2 DEF Reserve
  <2>2. \A q \in Requests, n \in 1..MaxAttempts, b \in Budgets :
          /\ <<<<q, n>>, b>> \in Holds
          /\ n # seq[q] => <<q, n>> # <<r, seq[r]>>
          /\ q # r => <<q, n>> # <<r, seq[r]>>
    BY DEF Holds, Attempts
  <2>3. \A q \in Requests, b \in Budgets :
          pc[q] \in {"recorded", "denied"} => seq[q] \in 1..MaxAttempts
    BY LedgerAssumption
  <2>4. QED
    BY <1>2, <2>1, <2>2, <2>3 DEF Reserve
<1>3. ASSUME NEW r \in Requests, Deny(r) PROVE Fresh'
  BY <1>3 DEF Deny, ledgerVars
<1>4. ASSUME NEW r \in Requests, FinishDenied(r) PROVE Fresh'
  BY <1>4 DEF FinishDenied, ledgerVars
<1>5. ASSUME NEW r \in Requests, CallReturns(r) PROVE Fresh'
  BY <1>5 DEF CallReturns, ledgerVars
<1>6. ASSUME NEW r \in Requests, Resolve(r) PROVE Fresh'
  <2>1. \A h \in Holds : hold[h] = "none" => hold'[h] = "none"
    BY <1>6 DEF Resolve, Resolvable, HeldFor, Active
  <2>2. \A q \in Requests, n \in 1..MaxAttempts, b \in Budgets :
          <<<<q, n>>, b>> \in Holds
    BY DEF Holds, Attempts
  <2>3. \A q \in Requests : pc[q] \in {"recorded", "denied"} =>
                              seq[q] \in 1..MaxAttempts
    BY LedgerAssumption
  <2>4. pc' = [pc EXCEPT ![r] =
                 IF verdict[r] = "INTERRUPTED" THEN "stopped" ELSE "resolved"]
        /\ seq' = seq /\ pc[r] = "returned"
        /\ (verdict[r] # "INTERRUPTED" => verdict' = verdict)
        /\ \A q \in Requests : q # r => verdict'[q] = verdict[q]
    BY <1>6 DEF Resolve, Forget
  <2>5. QED
    BY <2>1, <2>2, <2>3, <2>4
<1>7. ASSUME NEW r \in Requests, Finish(r) PROVE Fresh'
  BY <1>7 DEF Finish, Forget, ledgerVars
<1>8. ASSUME NEW r \in Requests, EndLoop(r) PROVE Fresh'
  BY <1>8 DEF EndLoop, ledgerVars
<1>9. ASSUME NEW r \in Requests, Crash(r) PROVE Fresh'
  BY <1>9 DEF Crash, Forget, ledgerVars
<1>10. ASSUME NEW a \in Attempts, Lapse(a) PROVE Fresh'
  BY <1>10 DEF Lapse, taskVars, ledgerVars
<1>11. ASSUME Reconcile PROVE Fresh'
  <2>1. PICK B \in Batches : \E C \in ChargedRows(B) : ReconcileRows(B, C)
    BY <1>11 DEF Reconcile
  <2>2. PICK C \in ChargedRows(B) : ReconcileRows(B, C)
    BY <2>1
  <2>3. \A h \in Holds : hold[h] = "none" => hold'[h] = "none"
    BY <2>2, BatchType DEF ReconcileRows, Active
  <2>4. \A q \in Requests, n \in 1..MaxAttempts, b \in Budgets :
          <<<<q, n>>, b>> \in Holds
    BY DEF Holds, Attempts
  <2>5. \A q \in Requests : pc[q] \in {"recorded", "denied"} =>
                              seq[q] \in 1..MaxAttempts
    BY LedgerAssumption
  <2>6. UNCHANGED <<pc, seq, verdict>>
    BY <1>11 DEF Reconcile, taskVars
  <2>7. QED
    BY <2>3, <2>4, <2>5, <2>6
<1>12. QED
  BY <1>1, <1>2, <1>3, <1>4, <1>5, <1>6, <1>7, <1>8, <1>9, <1>10, <1>11
     DEF Next, Step

(* The bill is fixed when the call returns and the estimate stays.           *)
LEMMA BillStep ==
  ASSUME TypeOK, Fresh, BillInv, Next
  PROVE  BillInv'
<1> USE DEF TypeOK, BillInv, Current
<1>1. ASSUME NEW r \in Requests, RecordAttempt(r) PROVE BillInv'
  BY <1>1 DEF RecordAttempt
<1>2. ASSUME NEW r \in Requests, CallReturns(r) PROVE BillInv'
  <2>1. PICK v \in Verdicts : \E bill \in Bills(r, v) :
          settled' = [settled EXCEPT ![r] = bill]
    BY <1>2 DEF CallReturns
  <2>2. PICK bill \in Bills(r, v) : settled' = [settled EXCEPT ![r] = bill]
    BY <2>1
  <2>3. estimate[Current(r)] \in Nat
    BY <1>2, CurrentType DEF CallReturns
  <2>4. bill <= estimate[Current(r)]
    BY <2>2, <2>3 DEF Bills, Verdicts
  <2>5. QED
    BY <1>2, <2>2, <2>4 DEF CallReturns
<1>3. ASSUME NEW r \in Requests,
             Reserve(r) \/ Deny(r) \/ FinishDenied(r) \/ Resolve(r) \/ Finish(r)
               \/ EndLoop(r) \/ Crash(r)
      PROVE  BillInv'
  BY <1>3 DEF Reserve, Deny, FinishDenied, Resolve, Finish, EndLoop, Crash, Forget
<1>4. ASSUME NEW a \in Attempts, Lapse(a) PROVE BillInv'
  BY <1>4 DEF Lapse, taskVars
<1>5. ASSUME Reconcile PROVE BillInv'
  BY <1>5 DEF Reconcile, taskVars
<1>6. QED
  BY <1>1, <1>2, <1>3, <1>4, <1>5 DEF Next, Step

(* A row that is not resolved is not charged.                                *)
LEMMA ChargeStep ==
  ASSUME TypeOK, Fresh, ChargeInv, Next
  PROVE  ChargeInv'
<1> USE DEF ChargeInv
<1>1. ASSUME NEW r \in Requests, Reserve(r) PROVE ChargeInv'
  <2>1. \A h \in Holds :
          h[1] = Current(r) => hold[h] = "none"
    BY <1>1 DEF Reserve, Fresh, Holds
  <2>2. QED
    BY <1>1, <2>1 DEF Reserve
<1>2. ASSUME NEW r \in Requests, Resolve(r) PROVE ChargeInv'
  BY <1>2 DEF Resolve
<1>3. ASSUME NEW r \in Requests,
             RecordAttempt(r) \/ Deny(r) \/ FinishDenied(r) \/ CallReturns(r)
               \/ Finish(r) \/ EndLoop(r) \/ Crash(r)
      PROVE  ChargeInv'
  BY <1>3 DEF RecordAttempt, Deny, FinishDenied, CallReturns, Finish, EndLoop,
              Crash, ledgerVars
<1>4. ASSUME NEW a \in Attempts, Lapse(a) PROVE ChargeInv'
  BY <1>4 DEF Lapse, ledgerVars
<1>5. ASSUME Reconcile PROVE ChargeInv'
  BY <1>5 DEF Reconcile, ReconcileRows
<1>6. QED
  BY <1>1, <1>2, <1>3, <1>4, <1>5 DEF Next, Step

-----------------------------------------------------------------------------
(* Resolving any set of ACTIVE rows, each for at most its amount, keeps the  *)
(* counters equal to the sums and frees room: the argument common to a task  *)
(* resolving its own rows and to a reconciler pass.                          *)
LEMMA CloseRows ==
  ASSUME TypeOK, ChargeInv, Conservation, WithinHardLimit,
         NEW B, B \subseteq Active, Active' = Active \ B,
         estimate' = estimate, charge' \in [Holds -> Nat],
         \A h \in Holds \ B : charge'[h] = charge[h],
         \A h \in B : charge'[h] <= Amount[h],
         \A b \in Budgets :
           /\ reserved'[b] =
                AtLeastZero(reserved[b] - SumOver(B \cap HoldsOn(b), Amount))
           /\ spent'[b] = spent[b] + SumOver(B \cap HoldsOn(b), charge')
  PROVE  Conservation' /\ WithinHardLimit'
<1>1. Amount' = Amount
  BY DEF Amount
<1>2. SUFFICES ASSUME NEW b \in Budgets
               PROVE  /\ reserved'[b] = SumOver(Active' \cap HoldsOn(b), Amount)
                      /\ spent'[b] = SumOver(HoldsOn(b), charge')
                      /\ spent'[b] + reserved'[b] <= HardLimit[b]
  BY <1>1 DEF Conservation, WithinHardLimit, HoldsOn
<1> DEFINE H == HoldsOn(b)
           A == Active \cap H
           D == B \cap H
           heldA == SumOver(A, Amount)
           heldD == SumOver(D, Amount)
           rest  == SumOver(A \ D, Amount)
           paid  == SumOver(D, charge')
<1>3. H \subseteq Holds /\ A \subseteq H /\ D \subseteq A
      /\ Active' \cap H = A \ D
  BY DEF HoldsOn, Active
<1>4. IsFiniteSet(H)
  BY <1>3, HoldsFinite
<1>5. \A h \in H : Amount[h] \in Nat /\ charge[h] \in Nat /\ charge'[h] \in Nat
  BY <1>3, AmountType DEF TypeOK
<1>6. \A h \in D : charge[h] = 0 /\ charge'[h] <= Amount[h]
  BY DEF ChargeInv, Active
<1>7. \A h \in H : h \notin D => charge'[h] = charge[h]
  BY <1>3
<1>8. reserved[b] = heldA /\ spent[b] = SumOver(H, charge)
      /\ spent[b] + reserved[b] <= HardLimit[b]
  BY DEF Conservation, WithinHardLimit
<1>9. reserved'[b] = AtLeastZero(reserved[b] - heldD) /\ spent'[b] = spent[b] + paid
  OBVIOUS
<1>10. SumOver(Active' \cap H, Amount) = rest
  BY <1>3
<1>11. heldD \in Nat /\ rest \in Nat /\ HardLimit[b] \in Nat
  BY <1>3, AmountType, LedgerAssumption
<1> HIDE DEF H, A, D
<1>12. heldA = rest + heldD
  <2>1. IsFiniteSet(A) /\ \A h \in A : Amount[h] \in Nat
    BY <1>3, <1>4, <1>5, FS_Subset
  <2>2. QED
    BY <1>3, <2>1, SumRemove
<1>13. /\ SumOver(H, charge') = SumOver(H, charge) + paid /\ paid <= heldD
       /\ SumOver(H, charge) \in Nat /\ paid \in Nat
  <2>1. D \subseteq H /\ IsFiniteSet(D)
    BY <1>3, <1>4, FS_Subset
  <2>2. /\ \A h \in H : charge[h] \in Nat /\ charge'[h] \in Nat
        /\ \A h \in D : charge[h] = 0
    BY <1>5, <1>6
  <2>3. SumOver(H, charge') = SumOver(H, charge) + paid
    BY <2>1, <2>2, <1>4, <1>7, SumCharge
  <2>4. paid <= heldD
    <3>1. \A h \in D : Amount[h] \in Nat /\ charge'[h] \in Nat /\ charge'[h] <= Amount[h]
      BY <1>5, <1>6, <2>1
    <3>2. QED
      BY <2>1, <3>1, SumMonotone
  <2>5. SumOver(H, charge) \in Nat /\ paid \in Nat
    BY <1>4, <2>1, <2>2, SumType
  <2>6. QED
    BY <2>3, <2>4, <2>5
<1> HIDE DEF heldA, heldD, rest, paid
<1>14. reserved'[b] = rest
  BY <1>8, <1>9, <1>11, <1>12 DEF AtLeastZero
<1>15. spent'[b] + reserved'[b] <= HardLimit[b]
  BY <1>8, <1>9, <1>11, <1>12, <1>13, <1>14
<1>16. QED
  BY <1>8, <1>9, <1>10, <1>13, <1>14, <1>15 DEF H

(* A reservation adds its estimate to each budget it is held against, where  *)
(* there was room for it.                                                    *)
LEMMA ReserveBooks ==
  ASSUME IInv, NEW r \in Requests, Reserve(r)
  PROVE  Conservation' /\ WithinHardLimit'
<1> USE DEF IInv
<1>1. Amount' = Amount
  BY DEF Amount, Reserve
<1>2. SUFFICES ASSUME NEW b \in Budgets
               PROVE  /\ reserved'[b] = SumOver(Active' \cap HoldsOn(b), Amount)
                      /\ spent'[b] = SumOver(HoldsOn(b), charge')
                      /\ spent'[b] + reserved'[b] <= HardLimit[b]
  BY <1>1 DEF Conservation, WithinHardLimit, HoldsOn
<1>3. /\ reserved[b] = SumOver(Active \cap HoldsOn(b), Amount)
      /\ spent[b] = SumOver(HoldsOn(b), charge)
      /\ spent[b] + reserved[b] <= HardLimit[b]
      /\ spent' = spent /\ charge' = charge
  BY DEF Conservation, WithinHardLimit, Reserve
<1> DEFINE h == <<Current(r), b>>
           e == estimate[Current(r)]
<1>4. h \in Holds /\ e \in Nat /\ Amount[h] = e
  BY CurrentType, AmountType DEF Reserve
<1>5. CASE b \in ScopesOf[r]
  <2>1. hold[h] = "none"
    BY DEF Reserve, Fresh
  <2>2. Active' \cap HoldsOn(b) = (Active \cap HoldsOn(b)) \cup {h}
    BY <1>4, <1>5 DEF Reserve, Active, HoldsOn, Holds
  <2>3. h \notin Active
    BY <2>1 DEF Active
  <2>4. IsFiniteSet(Active \cap HoldsOn(b)) /\ IsFiniteSet({h})
    BY HoldsFinite, FS_Singleton DEF Active
  <2>5. \A x \in (Active \cap HoldsOn(b)) \cup {h} : Amount[x] \in Nat
    BY <1>4, AmountType DEF Active
  <2>6. SumOver({h}, Amount) = e
    BY <1>4, SumSingleton
  <2>7. SumOver((Active \cap HoldsOn(b)) \cup {h}, Amount)
          = SumOver(Active \cap HoldsOn(b), Amount) + SumOver({h}, Amount)
    <3>1. (Active \cap HoldsOn(b)) \cap {h} = {}
      BY <2>3
    <3> HIDE DEF h
    <3>2. QED
      BY <3>1, <2>4, <2>5, SumDisjoint
  <2>8. reserved'[b] = reserved[b] + e
    BY <1>5 DEF Reserve
  <2>9. Headroom(b) >= e
    BY <1>5 DEF Reserve, CanReserve
  <2>10. reserved[b] \in Nat /\ spent[b] \in Nat /\ HardLimit[b] \in Nat
    BY LedgerAssumption DEF TypeOK
  <2> HIDE DEF e, h
  <2>11. spent'[b] + reserved'[b] <= HardLimit[b]
    BY <1>3, <1>4, <2>8, <2>9, <2>10 DEF Headroom
  <2>12. QED
    BY <1>3, <2>2, <2>6, <2>7, <2>8, <2>11
<1>6. CASE b \notin ScopesOf[r]
  <2>1. Active' \cap HoldsOn(b) = Active \cap HoldsOn(b)
    BY <1>6 DEF Reserve, Active, HoldsOn
  <2>2. reserved'[b] = reserved[b]
    BY <1>6 DEF Reserve
  <2>3. QED
    BY <1>3, <2>1, <2>2
<1>7. QED
  BY <1>5, <1>6

(* A task resolving its attempt closes the rows that are still ACTIVE.       *)
LEMMA ResolveBooks ==
  ASSUME IInv, NEW r \in Requests, Resolve(r)
  PROVE  Conservation' /\ WithinHardLimit'
<1> USE DEF IInv
<1> DEFINE B == Resolvable(r)
           e == estimate[Current(r)]
<1>1. B \subseteq Active /\ \A x \in B : x[1] = Current(r)
  BY DEF Resolvable, HeldFor
<1>2. Active' = Active \ B
  BY DEF Resolve, Active
<1>3. estimate' = estimate /\ settled[r] \in Nat
  BY DEF Resolve, TypeOK
<1>4. charge' \in [Holds -> Nat]
  BY <1>3 DEF Resolve, TypeOK
<1>5. \A x \in Holds \ B : charge'[x] = charge[x]
  BY DEF Resolve
<1>6. settled[r] <= e
  BY DEF BillInv, Resolve
<1>7. \A x \in B : charge'[x] = settled[r] /\ Amount[x] = e
  BY <1>1, AmountType DEF Resolve, Active
<1>8. e \in Nat
  BY CurrentType DEF Resolve
<1>9. ASSUME NEW b \in Budgets
      PROVE  /\ reserved'[b] =
                  AtLeastZero(reserved[b] - SumOver(B \cap HoldsOn(b), Amount))
             /\ spent'[b] = spent[b] + SumOver(B \cap HoldsOn(b), charge')
  <2> DEFINE h == <<Current(r), b>>
  <2>1. reserved[b] \in Nat /\ spent[b] \in Nat
    BY DEF TypeOK
  <2>2. CASE h \in B
    <3>1. B \cap HoldsOn(b) = {h}
      BY <1>1, <2>2 DEF HoldsOn, Active, Holds
    <3>2. Amount[h] = e /\ charge'[h] = settled[r]
      BY <1>7, <2>2
    <3>3. SumOver({h}, Amount) = e /\ SumOver({h}, charge') = settled[r]
      BY <3>2, <1>3, <1>8, SumSingleton
    <3>4. reserved'[b] = AtLeastZero(reserved[b] - e)
          /\ spent'[b] = spent[b] + settled[r]
      BY <2>2 DEF Resolve
    <3>5. QED
      BY <3>1, <3>3, <3>4
  <2>3. CASE h \notin B
    <3>1. B \cap HoldsOn(b) = {}
      BY <1>1, <2>3 DEF HoldsOn, Active, Holds
    <3>2. SumOver({}, Amount) = 0 /\ SumOver({}, charge') = 0
      BY SumEmpty
    <3>3. reserved'[b] = reserved[b] /\ spent'[b] = spent[b]
      BY <2>3 DEF Resolve
    <3>4. reserved[b] = AtLeastZero(reserved[b] - 0) /\ spent[b] = spent[b] + 0
      BY <2>1 DEF AtLeastZero
    <3>5. QED
      BY <3>1, <3>2, <3>3, <3>4
  <2>4. QED
    BY <2>2, <2>3
<1>10. \A x \in B : charge'[x] <= Amount[x]
  BY <1>6, <1>7
<1> HIDE DEF B, e
<1>11. QED
  BY <1>1, <1>2, <1>3, <1>4, <1>5, <1>9, <1>10, CloseRows

(* A reconciler pass closes a batch of ACTIVE rows and charges some of them. *)
LEMMA ReconcileBooks ==
  ASSUME IInv, Reconcile
  PROVE  Conservation' /\ WithinHardLimit'
<1> USE DEF IInv
<1>1. PICK B \in Batches : \E C \in ChargedRows(B) : ReconcileRows(B, C)
  BY DEF Reconcile
<1>2. PICK C \in ChargedRows(B) : ReconcileRows(B, C)
  BY <1>1
<1>3. C \subseteq B /\ B \subseteq Active /\ B \subseteq Holds
  BY BatchType
<1>4. Active' = Active \ B
  BY <1>2, <1>3 DEF ReconcileRows, Active
<1>5. estimate' = estimate
  BY DEF Reconcile
<1>6. charge' = [h \in Holds |-> IF h \in C THEN Amount[h] ELSE charge[h]]
  BY <1>2 DEF ReconcileRows
<1>7. charge' \in [Holds -> Nat]
  BY <1>6, AmountType DEF TypeOK
<1>8. \A h \in Holds \ B : charge'[h] = charge[h]
  BY <1>3, <1>6
<1>9. \A h \in B : charge'[h] <= Amount[h] /\ (h \notin C => charge'[h] = 0)
  BY <1>3, <1>6, AmountType DEF ChargeInv, Active
<1>10. \A b \in Budgets :
         reserved'[b] = AtLeastZero(reserved[b] - SumOver(B \cap HoldsOn(b), Amount))
  BY <1>2 DEF ReconcileRows
<1>11. ASSUME NEW b \in Budgets
       PROVE  spent'[b] = spent[b] + SumOver(B \cap HoldsOn(b), charge')
  <2> DEFINE H == HoldsOn(b)
  <2>1. spent'[b] = spent[b] + SumOver(C \cap H, Amount)
    BY <1>2 DEF ReconcileRows
  <2>2. IsFiniteSet(B \cap H) /\ IsFiniteSet(C \cap H)
    BY <1>3, HoldsFinite
  <2>3. \A h \in B \cap H : charge'[h] \in Nat
    BY <1>3, <1>7
  <2>4. SumOver(B \cap H, charge')
          = SumOver((B \cap H) \ (C \cap H), charge') + SumOver(C \cap H, charge')
    <3>1. C \cap H \subseteq B \cap H
      BY <1>3
    <3>2. QED
      BY <2>2, <2>3, <3>1, SumRemove
  <2>5. SumOver((B \cap H) \ (C \cap H), charge') = 0
    <3>1. \A h \in (B \cap H) \ (C \cap H) : charge'[h] = 0
      BY <1>9
    <3>2. QED
      BY <3>1, SumZero
  <2>6. SumOver(C \cap H, charge') = SumOver(C \cap H, Amount)
    <3>1. \A h \in C \cap H : charge'[h] = Amount[h]
      BY <1>3, <1>6
    <3>2. QED
      BY <3>1, SumAgree
  <2>7. SumOver(C \cap H, Amount) \in Nat
    BY <1>3, AmountType
  <2> HIDE DEF H
  <2>8. SumOver(B \cap H, charge') = SumOver(C \cap H, Amount)
    BY <2>4, <2>5, <2>6, <2>7
  <2>9. QED
    BY <2>1, <2>8 DEF H
<1>12. QED
  BY <1>3, <1>4, <1>5, <1>7, <1>8, <1>9, <1>10, <1>11, CloseRows

(* A step that moves no row and no counter; a new attempt's estimate is the  *)
(* amount of no ACTIVE row.                                                  *)
LEMMA OtherBooks ==
  ASSUME IInv, UNCHANGED ledgerVars,
         \A h \in Active : Amount'[h] = Amount[h]
  PROVE  Conservation' /\ WithinHardLimit'
<1> USE DEF IInv, ledgerVars
<1>1. Active' = Active
  BY DEF Active
<1>2. SUFFICES ASSUME NEW b \in Budgets
               PROVE  SumOver(Active \cap HoldsOn(b), Amount')
                        = SumOver(Active \cap HoldsOn(b), Amount)
  BY <1>1 DEF Conservation, WithinHardLimit, HoldsOn
<1>3. \A h \in Active \cap HoldsOn(b) : Amount'[h] = Amount[h]
  OBVIOUS
<1>4. QED
  BY <1>3, SumAgree

LEMMA InvStep ==
  ASSUME IInv, [Next]_vars
  PROVE  IInv'
<1> USE DEF IInv
<1>1. CASE UNCHANGED vars
  <2>1. /\ UNCHANGED <<pc, seq, cost, settled, verdict, estimate, outcome, hold>>
        /\ UNCHANGED <<charge, lapsed, reserved, spent>>
    BY <1>1 DEF vars, taskVars, ledgerVars
  <2>2. Amount' = Amount /\ Active' = Active /\ \A b : HoldsOn(b)' = HoldsOn(b)
    BY <2>1 DEF Amount, Active, HoldsOn
  <2>3. Conservation' /\ WithinHardLimit'
    BY <2>1, <2>2 DEF Conservation, WithinHardLimit
  <2>4. TypeOK' /\ Fresh' /\ BillInv' /\ ChargeInv'
    BY <2>1 DEF TypeOK, Fresh, BillInv, ChargeInv, Current
  <2>5. QED
    BY <2>3, <2>4
<1>2. CASE Next
  <2>1. TypeOK' /\ Fresh' /\ BillInv' /\ ChargeInv'
    BY <1>2, TypeStep, FreshStep, BillStep, ChargeStep
  <2>2. ASSUME NEW r \in Requests, RecordAttempt(r)
        PROVE  Conservation' /\ WithinHardLimit'
    <3>1. PICK e \in Estimates[r] :
            estimate' = [estimate EXCEPT ![<<r, seq[r] + 1>>] = e]
      BY <2>2 DEF RecordAttempt
    <3>2. seq[r] + 1 \in 1..MaxAttempts /\ seq[r] + 1 > seq[r]
      BY <2>2, LedgerAssumption DEF RecordAttempt, AttemptsLeft, TypeOK
    <3>3. \A h \in Active : h[1] # <<r, seq[r] + 1>>
      BY <3>2 DEF Fresh, Active, Holds
    <3>4. \A h \in Active : h \in Holds /\ h[1] \in Attempts
      BY DEF Active, Holds
    <3>5. \A h \in Active : estimate'[h[1]] = estimate[h[1]]
      BY <3>1, <3>3, <3>4 DEF TypeOK
    <3>6. \A h \in Active : Amount'[h] = Amount[h]
      BY <3>4, <3>5 DEF Amount
    <3>7. QED
      BY <2>2, <3>6, OtherBooks DEF RecordAttempt
  <2>3. ASSUME NEW r \in Requests,
               Deny(r) \/ FinishDenied(r) \/ CallReturns(r) \/ Finish(r)
                 \/ EndLoop(r) \/ Crash(r)
        PROVE  Conservation' /\ WithinHardLimit'
    <3>1. UNCHANGED ledgerVars /\ estimate' = estimate
      BY <2>3 DEF Deny, FinishDenied, CallReturns, Finish, EndLoop, Crash
    <3>2. Amount' = Amount
      BY <3>1 DEF Amount
    <3>3. QED
      BY <3>1, <3>2, OtherBooks
  <2>4. ASSUME NEW a \in Attempts, Lapse(a)
        PROVE  Conservation' /\ WithinHardLimit'
    <3>1. UNCHANGED ledgerVars /\ Amount' = Amount
      BY <2>4 DEF Lapse, Amount
    <3>2. QED
      BY <3>1, OtherBooks
  <2>5. Conservation' /\ WithinHardLimit'
    BY <1>2, <2>2, <2>3, <2>4, ReserveBooks, ResolveBooks, ReconcileBooks
       DEF Next, Step
  <2>6. QED
    BY <2>1, <2>5
<1>3. QED
  BY <1>1, <1>2

LEMMA InvInit == Init => IInv
<1> SUFFICES ASSUME Init PROVE IInv
  OBVIOUS
<1> USE DEF Init
<1>1. TypeOK
  BY LedgerAssumption DEF TypeOK, PCs, Outcomes, HoldStates, Verdicts
<1>2. Fresh
  BY LedgerAssumption DEF Fresh, Current, Holds, Attempts
<1>3. BillInv /\ ChargeInv
  BY DEF BillInv, ChargeInv
<1>4. Conservation /\ WithinHardLimit
  <2>1. Active = {}
    BY DEF Active
  <2>2. ASSUME NEW b \in Budgets
        PROVE  /\ reserved[b] = SumOver(Active \cap HoldsOn(b), Amount)
               /\ spent[b] = SumOver(HoldsOn(b), charge)
               /\ spent[b] + reserved[b] <= HardLimit[b]
    <3>1. Active \cap HoldsOn(b) = {}
      BY <2>1
    <3>2. SumOver(Active \cap HoldsOn(b), Amount) = 0
      BY <3>1, SumEmpty
    <3>3. \A h \in HoldsOn(b) : charge[h] = 0
      BY DEF HoldsOn
    <3>4. SumOver(HoldsOn(b), charge) = 0
      BY <3>3, SumZero
    <3>5. HardLimit[b] \in Nat
      BY LedgerAssumption
    <3>6. QED
      BY <3>2, <3>4, <3>5
  <2>3. QED
    BY <2>2 DEF Conservation, WithinHardLimit
<1>5. QED
  BY <1>1, <1>2, <1>3, <1>4 DEF IInv

(* The inductive invariant holds throughout.                                 *)
THEOREM LedgerInvariant == Spec => []IInv
<1>1. Init => IInv
  BY InvInit
<1>2. IInv /\ [Next]_vars => IInv'
  BY InvStep
<1>3. QED
  BY <1>1, <1>2, PTL DEF Spec

(* Every variable keeps its type; in particular no counter goes negative     *)
(* (budget.py; the CHECK constraints of the budgets table).                  *)
THEOREM TypeCorrect == Spec => []TypeOK
<1>1. IInv => TypeOK
  BY DEF IInv
<1>2. QED
  BY <1>1, LedgerInvariant, PTL

(* reserved and spent are the sums of the rows they summarise, whatever      *)
(* requests, reconciler passes and crashes interleave.                       *)
THEOREM CountersConserved == Spec => []Conservation
<1>1. IInv => Conservation
  BY DEF IInv
<1>2. QED
  BY <1>1, LedgerInvariant, PTL

(* No interleaving spends and holds more than a budget's hard limit.         *)
THEOREM LimitRespected == Spec => []WithinHardLimit
<1>1. IInv => WithinHardLimit
  BY DEF IInv
<1>2. QED
  BY <1>1, LedgerInvariant, PTL

-----------------------------------------------------------------------------
(* A step resolves only ACTIVE rows and reserves only rows not there yet.    *)
LEMMA OnceStep ==
  ASSUME IInv, Next, NEW h \in Holds, hold[h] \in Closed
  PROVE  hold'[h] = hold[h] /\ charge'[h] = charge[h]
<1> USE DEF IInv, Closed
<1>1. ASSUME NEW r \in Requests, Reserve(r)
      PROVE  hold'[h] = hold[h] /\ charge'[h] = charge[h]
  <2>1. h[1] = Current(r) => hold[h] = "none"
    BY <1>1 DEF Reserve, Fresh, Holds
  <2>2. QED
    BY <1>1, <2>1 DEF Reserve
<1>2. ASSUME NEW r \in Requests, Resolve(r)
      PROVE  hold'[h] = hold[h] /\ charge'[h] = charge[h]
  BY <1>2 DEF Resolve, Resolvable, HeldFor, Active
<1>3. ASSUME NEW r \in Requests,
             RecordAttempt(r) \/ Deny(r) \/ FinishDenied(r) \/ CallReturns(r)
               \/ Finish(r) \/ EndLoop(r) \/ Crash(r)
      PROVE  hold'[h] = hold[h] /\ charge'[h] = charge[h]
  BY <1>3 DEF RecordAttempt, Deny, FinishDenied, CallReturns, Finish, EndLoop,
              Crash, ledgerVars
<1>4. ASSUME NEW a \in Attempts, Lapse(a)
      PROVE  hold'[h] = hold[h] /\ charge'[h] = charge[h]
  BY <1>4 DEF Lapse, ledgerVars
<1>5. ASSUME Reconcile
      PROVE  hold'[h] = hold[h] /\ charge'[h] = charge[h]
  <2>1. PICK B \in Batches : \E C \in ChargedRows(B) : ReconcileRows(B, C)
    BY <1>5 DEF Reconcile
  <2>2. PICK C \in ChargedRows(B) : ReconcileRows(B, C)
    BY <2>1
  <2>3. h \notin B /\ h \notin C
    BY BatchType DEF Active
  <2>4. QED
    BY <2>2, <2>3 DEF ReconcileRows
<1>6. QED
  BY <1>1, <1>2, <1>3, <1>4, <1>5 DEF Next, Step

(* Whichever of a task and the reconciler comes second changes nothing: a    *)
(* resolved hold keeps its status and its charge (budget.py, _resolve).      *)
THEOREM ResolvedOnlyOnce == Spec => ResolvedOnce
<1>1. IInv /\ [Next]_vars =>
        [\A h \in Holds : hold[h] \in Closed =>
           hold'[h] = hold[h] /\ charge'[h] = charge[h]]_vars
  BY OnceStep
<1>2. QED
  BY <1>1, LedgerInvariant, PTL DEF Spec, ResolvedOnce

-----------------------------------------------------------------------------
(* What HoldBook sums per budget is what the code reads off the counters.    *)
LEMMA CommittedIsCounted ==
  ASSUME IInv, NEW b \in Budgets
  PROVE  Book!Committed(b) = spent[b] + reserved[b]
<1> USE DEF IInv
<1> DEFINE H == HoldsOn(b)
           A == Active \cap H
<1>1. Book!Committed(b) = SumOver(H, BookAmount)
  BY DEF Book!Committed, Book!HoldsOn, Book!Holds, Book!SumOver, Book!Units,
         Book!Cardinality, Cardinality, SumOver, Units, HoldsOn, Holds
<1>2. H \subseteq Holds /\ A \subseteq H /\ IsFiniteSet(H) /\ IsFiniteSet(A)
      /\ IsFiniteSet(H \ A)
  BY HoldsFinite, FS_Subset DEF HoldsOn
<1>3. \A h \in H : /\ BookAmount[h] = IF hold[h] = "ACTIVE" THEN Amount[h] ELSE charge[h]
                  /\ BookAmount[h] \in Nat /\ charge[h] \in Nat
  BY <1>2, AmountType DEF BookAmount, TypeOK
<1>4. SumOver(H, BookAmount) = SumOver(H \ A, BookAmount) + SumOver(A, BookAmount)
  BY <1>2, <1>3, SumRemove
<1>5. SumOver(H, charge) = SumOver(H \ A, charge) + SumOver(A, charge)
  BY <1>2, <1>3, SumRemove
<1>6. SumOver(A, BookAmount) = SumOver(A, Amount)
  <2>1. \A h \in A : BookAmount[h] = Amount[h]
    BY <1>2, <1>3 DEF Active
  <2>2. QED
    BY <2>1, SumAgree
<1>7. SumOver(H \ A, BookAmount) = SumOver(H \ A, charge)
  <2>1. \A h \in H \ A : BookAmount[h] = charge[h]
    BY <1>2, <1>3 DEF Active
  <2>2. QED
    BY <2>1, SumAgree
<1>8. SumOver(A, charge) = 0
  <2>1. \A h \in A : charge[h] = 0
    BY <1>2 DEF ChargeInv, Active
  <2>2. QED
    BY <2>1, SumZero
<1>9. SumOver(H \ A, charge) \in Nat
  BY <1>2, <1>3, SumType
<1>10. reserved[b] = SumOver(A, Amount) /\ spent[b] = SumOver(H, charge)
  BY DEF Conservation
<1>11. reserved[b] \in Nat /\ spent[b] \in Nat
  BY DEF TypeOK
<1> HIDE DEF H, A
<1>12. QED
  BY <1>1, <1>4, <1>5, <1>6, <1>7, <1>8, <1>9, <1>10, <1>11

(* A step that changes no row leaves the book as it was.                     *)
LEMMA BookStutters ==
  ASSUME IInv, hold' = hold, charge' = charge,
         \A h \in Active : Amount'[h] = Amount[h]
  PROVE  UNCHANGED <<BookStatus, BookAmount>>
BY DEF BookStatus, BookAmount, Active

(* Resolving ACTIVE rows, each for at most its amount, is a Close.           *)
LEMMA BookCloses ==
  ASSUME IInv, NEW B, B \subseteq Active,
         estimate' = estimate, charge' \in [Holds -> Nat],
         \A h \in Holds \ B : hold'[h] = hold[h] /\ charge'[h] = charge[h],
         \A h \in B : hold'[h] \in Closed /\ charge'[h] <= Amount[h]
  PROVE  Book!Close(B)
<1> USE DEF IInv
<1>1. B \subseteq Holds /\ \A h \in B : hold[h] = "ACTIVE"
  BY DEF Active
<1>2. \A h \in B : BookStatus[h] = "held"
  BY <1>1 DEF BookStatus
<1>3. Amount' = Amount
  BY DEF Amount
<1>4. BookStatus' = [h \in Holds |-> IF h \in B THEN "closed" ELSE BookStatus[h]]
  BY <1>1 DEF BookStatus, Closed
<1>5. BookAmount' = [h \in Holds |->
                       IF hold'[h] = "ACTIVE" THEN Amount[h] ELSE charge'[h]]
  BY <1>3 DEF BookAmount
<1>6. BookAmount' \in [Holds -> Nat]
  BY <1>5, AmountType
<1>7. \A h \in Holds : IF h \in B THEN BookAmount'[h] <= BookAmount[h]
                                  ELSE BookAmount'[h] = BookAmount[h]
  BY <1>1, <1>5 DEF BookAmount, Closed
<1>8. Book!Holds = Holds
  BY DEF Book!Holds, Holds
<1>9. QED
  BY <1>2, <1>4, <1>6, <1>7, <1>8 DEF Book!Close

LEMMA BookStep ==
  ASSUME IInv, Next
  PROVE  Book!Next \/ UNCHANGED <<BookStatus, BookAmount>>
<1> USE DEF IInv
<1>1. ASSUME NEW r \in Requests, RecordAttempt(r)
      PROVE  UNCHANGED <<BookStatus, BookAmount>>
  <2>1. PICK e \in Estimates[r] :
          estimate' = [estimate EXCEPT ![<<r, seq[r] + 1>>] = e]
    BY <1>1 DEF RecordAttempt
  <2>2. seq[r] + 1 \in 1..MaxAttempts /\ seq[r] + 1 > seq[r]
    BY <1>1, LedgerAssumption DEF RecordAttempt, AttemptsLeft, TypeOK
  <2>3. \A h \in Active : h[1] # <<r, seq[r] + 1>>
    BY <2>2 DEF Fresh, Active, Holds
  <2>4. \A h \in Active : h \in Holds /\ h[1] \in Attempts
    BY DEF Active, Holds
  <2>5. \A h \in Active : estimate'[h[1]] = estimate[h[1]]
    BY <2>1, <2>3, <2>4 DEF TypeOK
  <2>6. \A h \in Active : Amount'[h] = Amount[h]
    BY <2>4, <2>5 DEF Amount
  <2>7. hold' = hold /\ charge' = charge
    BY <1>1 DEF RecordAttempt, ledgerVars
  <2>8. QED
    BY <2>6, <2>7, BookStutters
<1>2. ASSUME NEW r \in Requests, Reserve(r)
      PROVE  Book!Next \/ UNCHANGED <<BookStatus, BookAmount>>
  <2> DEFINE a == Current(r)
             e == estimate[Current(r)]
  <2>1. a \in Attempts /\ e \in Nat /\ a[1] = r
    BY <1>2, CurrentType DEF Reserve, Current
  <2>2. Amount' = Amount
    BY <1>2 DEF Reserve, Amount
  <2>3. \A b \in Budgets : <<a, b>> \in Holds /\ hold[<<a, b>>] = "none"
    BY <1>2, CurrentType DEF Reserve, Fresh
  <2>4. \A h \in Holds : h[1] = a /\ h[2] \in ScopesOf[r] => hold'[h] = "ACTIVE"
    BY <1>2 DEF Reserve
  <2>5. \A h \in Holds : ~(h[1] = a /\ h[2] \in ScopesOf[r]) => hold'[h] = hold[h]
    BY <1>2 DEF Reserve
  <2>6. charge' = charge
    BY <1>2 DEF Reserve
  <2>7. BookStatus' = [h \in Holds |-> IF h[1] = a /\ h[2] \in ScopesOf[r]
                                       THEN "held" ELSE BookStatus[h]]
    BY <2>4, <2>5 DEF BookStatus
  <2>8. \A h \in Holds : h[1] = a => Amount[h] = e
    BY AmountType
  <2>9. BookAmount' = [h \in Holds |-> IF h[1] = a /\ h[2] \in ScopesOf[r]
                                       THEN e ELSE BookAmount[h]]
    BY <2>2, <2>4, <2>5, <2>6, <2>8 DEF BookAmount
  <2>10. CASE ScopesOf[r] = {}
    <3>1. BookStatus' = BookStatus /\ BookAmount' = BookAmount
      BY <2>7, <2>9, <2>10 DEF BookStatus, BookAmount
    <3>2. QED
      BY <3>1
  <2>11. CASE ScopesOf[r] # {}
    <3>1. PICK b \in ScopesOf[r] : TRUE
      BY <2>11
    <3>2. \A c \in ScopesOf[r] : c \in Budgets
      BY LedgerAssumption
    <3>3. BookAmount'[<<a, b>>] = e
      BY <2>3, <2>9, <3>1, <3>2
    <3>4. \A c \in Budgets : BookStatus[<<a, c>>] = "free"
      BY <2>3 DEF BookStatus
    <3>5. \A c \in ScopesOf[r] : Book!Committed(c) + e <= HardLimit[c]
      <4>1. TAKE c \in ScopesOf[r]
      <4>2. c \in Budgets /\ spent[c] \in Nat /\ reserved[c] \in Nat
            /\ HardLimit[c] \in Nat
        BY <3>2, LedgerAssumption DEF TypeOK
      <4>3. HardLimit[c] - spent[c] - reserved[c] >= e
        BY <1>2, <4>1 DEF Reserve, CanReserve, Headroom
      <4>4. Book!Committed(c) = spent[c] + reserved[c]
        BY <4>2, CommittedIsCounted
      <4> HIDE DEF e
      <4>5. QED
        BY <2>1, <4>2, <4>3, <4>4
    <3>6. Book!Place(a, e)
      <4>1. [x \in Attempts |-> ScopesOf[x[1]]][a] = ScopesOf[r]
        BY <2>1
      <4>2. Book!Holds = Holds
        BY DEF Book!Holds, Holds
      <4> HIDE DEF a, e
      <4>3. QED
        BY <2>7, <2>9, <3>4, <3>5, <4>1, <4>2 DEF Book!Place
    <3>7. Book!Place(a, BookAmount'[<<a, b>>])
      BY <3>3, <3>6
    <3>8. b \in [x \in Attempts |-> ScopesOf[x[1]]][a]
      BY <2>1, <3>1
    <3> HIDE DEF a
    <3>9. QED
      BY <2>1, <3>7, <3>8 DEF Book!Next
  <2>12. QED
    BY <2>10, <2>11
<1>3. ASSUME NEW r \in Requests, Resolve(r) PROVE Book!Next
  <2> DEFINE B == Resolvable(r)
  <2>1. B \subseteq Active /\ \A h \in B : h[1] = Current(r)
    BY DEF Resolvable, HeldFor
  <2>2. estimate' = estimate /\ charge' \in [Holds -> Nat]
    BY <1>3 DEF Resolve, TypeOK
  <2>3. \A h \in Holds \ B : hold'[h] = hold[h] /\ charge'[h] = charge[h]
    BY <1>3 DEF Resolve
  <2>4. settled[r] <= estimate[Current(r)]
    BY <1>3 DEF BillInv, Resolve
  <2>5. \A h \in B : hold'[h] \in Closed /\ charge'[h] <= Amount[h]
    BY <1>3, <2>1, <2>4, AmountType DEF Resolve, Closed, Active
  <2> HIDE DEF B
  <2>6. Book!Close(B)
    BY <2>1, <2>2, <2>3, <2>5, BookCloses
  <2>7. B \in SUBSET Book!Holds
    BY <2>1 DEF Active, Holds, Book!Holds
  <2>8. QED
    BY <2>6, <2>7 DEF Book!Next
<1>4. ASSUME NEW r \in Requests,
             Deny(r) \/ FinishDenied(r) \/ CallReturns(r) \/ Finish(r)
               \/ EndLoop(r) \/ Crash(r)
      PROVE  UNCHANGED <<BookStatus, BookAmount>>
  <2>1. hold' = hold /\ charge' = charge /\ Amount' = Amount
    BY <1>4 DEF Deny, FinishDenied, CallReturns, Finish, EndLoop, Crash,
                ledgerVars, Amount
  <2>2. QED
    BY <2>1, BookStutters
<1>5. ASSUME NEW a \in Attempts, Lapse(a)
      PROVE  UNCHANGED <<BookStatus, BookAmount>>
  <2>1. hold' = hold /\ charge' = charge /\ Amount' = Amount
    BY <1>5 DEF Lapse, ledgerVars, Amount
  <2>2. QED
    BY <2>1, BookStutters
<1>6. ASSUME Reconcile PROVE Book!Next
  <2>1. PICK B \in Batches : \E C \in ChargedRows(B) : ReconcileRows(B, C)
    BY <1>6 DEF Reconcile
  <2>2. PICK C \in ChargedRows(B) : ReconcileRows(B, C)
    BY <2>1
  <2>3. C \subseteq B /\ B \subseteq Active /\ B \subseteq Holds
    BY BatchType
  <2>4. estimate' = estimate
    BY <1>6 DEF Reconcile
  <2>5. charge' = [h \in Holds |-> IF h \in C THEN Amount[h] ELSE charge[h]]
    BY <2>2 DEF ReconcileRows
  <2>6. charge' \in [Holds -> Nat]
    BY <2>5, AmountType DEF TypeOK
  <2>7. \A h \in Holds \ B : hold'[h] = hold[h] /\ charge'[h] = charge[h]
    BY <2>2, <2>3 DEF ReconcileRows
  <2>8. \A h \in B : hold'[h] \in Closed /\ charge'[h] <= Amount[h]
    BY <2>2, <2>3, <2>5, AmountType DEF ReconcileRows, Closed, ChargeInv, Active
  <2>9. Book!Close(B)
    BY <2>3, <2>4, <2>6, <2>7, <2>8, BookCloses
  <2>10. B \in SUBSET Book!Holds
    BY <2>3 DEF Holds, Book!Holds
  <2>11. QED
    BY <2>9, <2>10 DEF Book!Next
<1>7. QED
  BY <1>1, <1>2, <1>3, <1>4, <1>5, <1>6 DEF Next, Step

(* The code, deciding on two counters per budget, implements the book that   *)
(* sums the rows: holds are placed all or nothing within the limit and       *)
(* closed once for at most what they held.                                   *)
THEOREM LedgerRefinesBook == Spec => ImplementsBook
<1>1. Init => Book!Init
  BY DEF Init, Book!Init, Book!Holds, Holds, BookStatus, BookAmount
<1>2. IInv /\ [Next]_vars => [Book!Next]_(Book!bookVars)
  <2>1. CASE UNCHANGED vars
    BY <2>1 DEF vars, ledgerVars, Book!bookVars, BookStatus, BookAmount, Amount
  <2>2. CASE IInv /\ Next
    BY <2>2, BookStep DEF Book!bookVars
  <2>3. QED
    BY <2>1, <2>2
<1>3. QED
  BY <1>1, <1>2, LedgerInvariant, PTL DEF Spec, ImplementsBook, Book!Spec
-----------------------------------------------------------------------------
(* What the outcomes of attempts say of their money.                         *)
Ended == {"SUCCESS", "FAILED", "CANCELLED"}

OutcomeInv ==
  \A q \in Requests, n \in 1..MaxAttempts :
    /\ n > seq[q] => outcome[<<q, n>>] = "none"
    /\ n = seq[q] /\ pc[q] = "recorded" => outcome[<<q, n>>] = "null"
    /\ n = seq[q] /\ pc[q] = "resolved" => \A b \in Budgets : hold[<<<<q, n>>, b>>] # "ACTIVE"

HoldInv ==
  \A q \in Requests, n \in 1..MaxAttempts :
    outcome[<<q, n>>] \in Ended => \A b \in Budgets : hold[<<<<q, n>>, b>>] # "ACTIVE"

AbandonedInv ==
  \A q \in Requests, n \in 1..MaxAttempts :
    outcome[<<q, n>>] = "abandoned" =>
      \E b \in Budgets : /\ hold[<<<<q, n>>, b>>] = "EXPIRED"
                         /\ charge[<<<<q, n>>, b>>] = estimate[<<q, n>>]

OInv == OutcomeInv /\ HoldInv /\ AbandonedInv

(* The three parts say of pairs what the properties say of attempts.          *)
LEMMA PairsAreAttempts ==
  ASSUME TypeOK
  PROVE  (HoldInv => FinishedHoldsNothing) /\ (AbandonedInv => AbandonedIsCharged)
<1>1. \A a \in Attempts : \E q \in Requests, n \in 1..MaxAttempts : a = <<q, n>>
  BY DEF Attempts
<1>2. ASSUME HoldInv PROVE FinishedHoldsNothing
  <2>1. SUFFICES ASSUME NEW a \in Attempts, outcome[a] \in Ended, NEW h \in HeldFor(a)
                 PROVE  FALSE
    BY DEF FinishedHoldsNothing, Ended
  <2>2. PICK q \in Requests, n \in 1..MaxAttempts : a = <<q, n>>
    BY <1>1
  <2>3. PICK b \in Budgets : h = <<a, b>>
    BY <2>1 DEF HeldFor, Active, Holds
  <2>4. hold[h] = "ACTIVE"
    BY <2>1 DEF HeldFor, Active
  <2>5. QED
    BY <1>2, <2>1, <2>2, <2>3, <2>4 DEF HoldInv
<1>3. ASSUME AbandonedInv PROVE AbandonedIsCharged
  BY <1>1, <1>3 DEF AbandonedInv, AbandonedIsCharged
<1>4. QED
  BY <1>2, <1>3

-----------------------------------------------------------------------------
(* The pairs are the attempts, and their rows the holds.                      *)
LEMMA RowsOf ==
  \A q \in Requests, n \in 1..MaxAttempts :
    <<q, n>> \in Attempts /\ \A b \in Budgets : <<<<q, n>>, b>> \in Holds
BY DEF Attempts, Holds

LEMMA RecordAttemptOutcomes ==
  ASSUME TypeOK, Fresh, OInv, NEW r \in Requests, RecordAttempt(r)
  PROVE  OInv'
<1>1. seq[r] + 1 \in 1..MaxAttempts /\ seq[r] \in Nat
  BY LedgerAssumption DEF RecordAttempt, AttemptsLeft, TypeOK
<1> DEFINE new == <<r, seq[r] + 1>>
<1>2. /\ seq' = [seq EXCEPT ![r] = seq[r] + 1] /\ pc' = [pc EXCEPT ![r] = "recorded"]
      /\ outcome' = [outcome EXCEPT ![new] = "null"]
      /\ hold' = hold /\ charge' = charge
      /\ \E e \in Estimates[r] : estimate' = [estimate EXCEPT ![new] = e]
  BY DEF RecordAttempt, ledgerVars
<1>3. \A q \in Requests : seq[q] \in Nat /\ seq'[q] \in Nat /\ seq[q] <= seq'[q]
  BY <1>1, <1>2, LedgerAssumption DEF TypeOK
<1>4. /\ new \in Attempts
      /\ \A q \in Requests, n \in 1..MaxAttempts :
           <<q, n>> = new <=> q = r /\ n = seq[r] + 1
  BY <1>1, RowsOf
<1> HIDE DEF new
<1>5. /\ outcome'[new] = "null"
      /\ \A a \in Attempts : a # new => outcome'[a] = outcome[a] /\ estimate'[a] = estimate[a]
  BY <1>2, <1>4 DEF TypeOK
<1>6. OutcomeInv'
  <2> SUFFICES ASSUME NEW q \in Requests, NEW n \in 1..MaxAttempts
               PROVE  /\ n > seq'[q] => outcome'[<<q, n>>] = "none"
                      /\ n = seq'[q] /\ pc'[q] = "recorded" => outcome'[<<q, n>>] = "null"
                      /\ n = seq'[q] /\ pc'[q] = "resolved" =>
                           \A b \in Budgets : hold'[<<<<q, n>>, b>>] # "ACTIVE"
    BY DEF OutcomeInv
  <2>1. CASE q = r
    <3>1. seq'[q] = seq[r] + 1 /\ pc'[q] = "recorded"
      BY <1>2, <2>1 DEF TypeOK
    <3>2. n > seq'[q] => <<q, n>> # new /\ n > seq[q]
      BY <1>1, <1>4, <2>1, <3>1
    <3>3. n = seq'[q] => <<q, n>> = new
      BY <1>4, <2>1, <3>1
    <3>4. QED
      BY <1>5, <3>1, <3>2, <3>3, RowsOf DEF OInv, OutcomeInv
  <2>2. CASE q # r
    <3>1. seq'[q] = seq[q] /\ pc'[q] = pc[q] /\ <<q, n>> # new
      BY <1>2, <1>4, <2>2 DEF TypeOK
    <3>2. outcome'[<<q, n>>] = outcome[<<q, n>>]
      BY <1>5, <3>1, RowsOf
    <3>3. QED
      BY <1>2, <3>1, <3>2 DEF OInv, OutcomeInv
  <2>3. QED
    BY <2>1, <2>2
<1>7. HoldInv'
  BY <1>2, <1>5, RowsOf DEF OInv, HoldInv, Ended
<1>8. AbandonedInv'
  <2> SUFFICES ASSUME NEW q \in Requests, NEW n \in 1..MaxAttempts, outcome'[<<q, n>>] = "abandoned"
               PROVE  \E b \in Budgets : /\ hold'[<<<<q, n>>, b>>] = "EXPIRED"
                                         /\ charge'[<<<<q, n>>, b>>] = estimate'[<<q, n>>]
    BY DEF AbandonedInv
  <2>1. <<q, n>> # new /\ outcome[<<q, n>>] = "abandoned"
    BY <1>5, RowsOf
  <2>2. PICK b \in Budgets : /\ hold[<<<<q, n>>, b>>] = "EXPIRED"
                            /\ charge[<<<<q, n>>, b>>] = estimate[<<q, n>>]
    BY <2>1 DEF OInv, AbandonedInv
  <2>3. QED
    BY <1>2, <1>5, <2>1, <2>2, RowsOf
<1>9. QED
  BY <1>6, <1>7, <1>8 DEF OInv

LEMMA ReserveOutcomes ==
  ASSUME TypeOK, Fresh, OInv, NEW r \in Requests, Reserve(r)
  PROVE  OInv'
<1>1. pc' = [pc EXCEPT ![r] = "invoking"] /\ pc[r] = "recorded"
      /\ UNCHANGED <<seq, outcome, charge, estimate>>
  BY DEF Reserve
<1>2. seq[r] \in 1..MaxAttempts
  BY <1>1, LedgerAssumption DEF TypeOK, Fresh
<1>3. outcome[<<r, seq[r]>>] = "null"
  BY <1>1, <1>2 DEF OInv, OutcomeInv
<1>4. \A q \in Requests, n \in 1..MaxAttempts, b \in Budgets :
        <<q, n>> # <<r, seq[r]>> => hold'[<<<<q, n>>, b>>] = hold[<<<<q, n>>, b>>]
  BY RowsOf DEF Reserve, Current
<1>5. \A q \in Requests : pc'[q] \in {"recorded", "resolved"} => pc'[q] = pc[q] /\ q # r
  BY <1>1 DEF TypeOK
<1>6. \A q \in Requests, n \in 1..MaxAttempts : q # r => <<q, n>> # <<r, seq[r]>>
  OBVIOUS
<1>7. OutcomeInv'
  <2>1. \A q \in Requests, n \in 1..MaxAttempts :
          n = seq[q] /\ pc'[q] = "resolved" =>
            \A b \in Budgets : hold'[<<<<q, n>>, b>>] # "ACTIVE"
    BY <1>4, <1>5, <1>6 DEF OInv, OutcomeInv
  <2>2. \A q \in Requests, n \in 1..MaxAttempts :
          /\ n > seq[q] => outcome[<<q, n>>] = "none"
          /\ n = seq[q] /\ pc'[q] = "recorded" => outcome[<<q, n>>] = "null"
    BY <1>5 DEF OInv, OutcomeInv
  <2>3. QED
    BY <1>1, <2>1, <2>2 DEF OutcomeInv
<1>8. \A q \in Requests, n \in 1..MaxAttempts :
        outcome'[<<q, n>>] # "null" => <<q, n>> # <<r, seq[r]>>
  BY <1>1, <1>3
<1>9. HoldInv'
  BY <1>1, <1>4, <1>8 DEF OInv, HoldInv, Ended
<1>10. AbandonedInv'
  <2> SUFFICES ASSUME NEW q \in Requests, NEW n \in 1..MaxAttempts, outcome'[<<q, n>>] = "abandoned"
               PROVE  \E b \in Budgets : /\ hold'[<<<<q, n>>, b>>] = "EXPIRED"
                                         /\ charge'[<<<<q, n>>, b>>] = estimate'[<<q, n>>]
    BY DEF AbandonedInv
  <2>1. <<q, n>> # <<r, seq[r]>> /\ outcome[<<q, n>>] = "abandoned"
    BY <1>1, <1>8
  <2>2. PICK b \in Budgets : /\ hold[<<<<q, n>>, b>>] = "EXPIRED"
                            /\ charge[<<<<q, n>>, b>>] = estimate[<<q, n>>]
    BY <2>1 DEF OInv, AbandonedInv
  <2>3. QED
    BY <1>1, <1>4, <2>1, <2>2
<1>11. QED
  BY <1>7, <1>9, <1>10 DEF OInv

(* FinishDenied and Finish write the outcome of an attempt that holds nothing. *)
LEMMA FinishOutcomes ==
  ASSUME TypeOK, Fresh, OInv, NEW r \in Requests, FinishDenied(r) \/ Finish(r)
  PROVE  OInv'
<1>1. seq[r] \in 1..MaxAttempts
  <2>1. pc[r] \in {"denied", "resolved"}
    BY DEF FinishDenied, Finish
  <2>2. QED
    BY <2>1, SeqType
<1>2. UNCHANGED <<seq, hold, charge, estimate>>
  BY DEF FinishDenied, Finish, ledgerVars
<1>3. \A b \in Budgets : hold[<<<<r, seq[r]>>, b>>] # "ACTIVE"
  BY <1>1 DEF FinishDenied, Finish, Fresh, Current, OInv, OutcomeInv
<1> DEFINE last == <<r, seq[r]>>
<1>4. PICK v \in Ended : outcome' = [outcome EXCEPT ![last] = v]
  <2>1. CASE FinishDenied(r)
    BY <2>1 DEF FinishDenied, Current, Ended
  <2>2. CASE Finish(r)
    <3>1. verdict[r] \in Ended
      BY <2>2 DEF Finish, Fresh, TypeOK, Verdicts, Ended
    <3>2. QED
      BY <2>2, <3>1 DEF Finish, Current
  <2>3. QED
    BY <2>1, <2>2
<1>5. \A q \in Requests : pc'[q] \in {"recorded", "resolved"} => pc'[q] = pc[q] /\ q # r
  BY DEF FinishDenied, Finish, TypeOK
<1>6. \A q \in Requests, n \in 1..MaxAttempts : <<q, n>> = last <=> q = r /\ n = seq[r]
  OBVIOUS
<1> HIDE DEF last
<1>7. \A a \in Attempts : outcome'[a] = IF a = last THEN v ELSE outcome[a]
  BY <1>4 DEF TypeOK
<1>8. OutcomeInv'
  <2> SUFFICES ASSUME NEW q \in Requests, NEW n \in 1..MaxAttempts
               PROVE  /\ n > seq'[q] => outcome'[<<q, n>>] = "none"
                      /\ n = seq'[q] /\ pc'[q] = "recorded" => outcome'[<<q, n>>] = "null"
                      /\ n = seq'[q] /\ pc'[q] = "resolved" =>
                           \A b \in Budgets : hold'[<<<<q, n>>, b>>] # "ACTIVE"
    BY DEF OutcomeInv
  <2>1. seq[q] \in Nat
    BY LedgerAssumption DEF TypeOK
  <2>2. n > seq[q] => <<q, n>> # last
    BY <1>6, <2>1
  <2>3. pc'[q] \in {"recorded", "resolved"} => <<q, n>> # last
    BY <1>5, <1>6
  <2>4. QED
    BY <1>2, <1>5, <1>7, <2>2, <2>3, RowsOf DEF OInv, OutcomeInv
<1>9. HoldInv'
  <2>1. \A q \in Requests, n \in 1..MaxAttempts, b \in Budgets :
          <<q, n>> = last => hold[<<<<q, n>>, b>>] # "ACTIVE"
    BY <1>3, <1>6
  <2>2. QED
    BY <1>2, <1>7, <2>1, RowsOf DEF OInv, HoldInv
<1>10. AbandonedInv'
  <2> SUFFICES ASSUME NEW q \in Requests, NEW n \in 1..MaxAttempts, outcome'[<<q, n>>] = "abandoned"
               PROVE  \E b \in Budgets : /\ hold'[<<<<q, n>>, b>>] = "EXPIRED"
                                         /\ charge'[<<<<q, n>>, b>>] = estimate'[<<q, n>>]
    BY DEF AbandonedInv
  <2>1. outcome[<<q, n>>] = "abandoned"
    BY <1>7, RowsOf DEF Ended
  <2>2. PICK b \in Budgets : /\ hold[<<<<q, n>>, b>>] = "EXPIRED"
                            /\ charge[<<<<q, n>>, b>>] = estimate[<<q, n>>]
    BY <2>1 DEF OInv, AbandonedInv
  <2>3. QED
    BY <1>2, <2>2
<1>11. QED
  BY <1>8, <1>9, <1>10 DEF OInv

LEMMA ResolveOutcomes ==
  ASSUME TypeOK, Fresh, OInv, NEW r \in Requests, Resolve(r)
  PROVE  OInv'
<1>1. seq[r] \in 1..MaxAttempts
  <2>1. pc[r] \in {"returned"}
    BY DEF Resolve
  <2>2. QED
    BY <2>1, SeqType
<1>2. UNCHANGED <<seq, outcome, estimate>>
  BY DEF Resolve
<1>3. \A h \in Holds : /\ hold[h] # "ACTIVE" => hold'[h] = hold[h] /\ charge'[h] = charge[h]
                       /\ hold'[h] = "ACTIVE" => hold[h] = "ACTIVE" /\ h[1] # Current(r)
  BY DEF Resolve, Resolvable, HeldFor, Active
<1>4. \A q \in Requests : q # r => pc'[q] = pc[q]
  BY DEF Resolve, TypeOK
<1>5. pc'[r] # "recorded"
  BY DEF Resolve, TypeOK
<1>6. OutcomeInv'
  <2> SUFFICES ASSUME NEW q \in Requests, NEW n \in 1..MaxAttempts, NEW b \in Budgets,
                      n = seq[q], pc'[q] = "resolved"
               PROVE  hold'[<<<<q, n>>, b>>] # "ACTIVE"
    BY <1>2, <1>4, <1>5 DEF OInv, OutcomeInv
  <2>1. CASE q = r
    BY <1>3, <2>1, RowsOf DEF Current
  <2>2. CASE q # r
    BY <1>3, <1>4, <2>2, RowsOf DEF OInv, OutcomeInv
  <2>3. QED
    BY <2>1, <2>2
<1>7. HoldInv'
  BY <1>2, <1>3, RowsOf DEF OInv, HoldInv
<1>8. AbandonedInv'
  <2> SUFFICES ASSUME NEW q \in Requests, NEW n \in 1..MaxAttempts, outcome'[<<q, n>>] = "abandoned"
               PROVE  \E b \in Budgets : /\ hold'[<<<<q, n>>, b>>] = "EXPIRED"
                                         /\ charge'[<<<<q, n>>, b>>] = estimate'[<<q, n>>]
    BY DEF AbandonedInv
  <2>1. outcome[<<q, n>>] = "abandoned"
    BY <1>2
  <2>2. PICK b \in Budgets : /\ hold[<<<<q, n>>, b>>] = "EXPIRED"
                            /\ charge[<<<<q, n>>, b>>] = estimate[<<q, n>>]
    BY <2>1 DEF OInv, AbandonedInv
  <2>3. QED
    BY <1>2, <1>3, <2>2, RowsOf
<1>9. QED
  BY <1>6, <1>7, <1>8 DEF OInv

(* The reconciler marks abandoned only what it charges in the same pass.      *)
LEMMA ReconcileOutcomes ==
  ASSUME TypeOK, Fresh, OInv, Reconcile
  PROVE  OInv'
<1>1. PICK B \in Batches : \E C \in ChargedRows(B) : ReconcileRows(B, C)
  BY DEF Reconcile
<1>2. PICK C \in ChargedRows(B) : ReconcileRows(B, C)
  BY <1>1
<1>3. C \subseteq B /\ B \subseteq Active /\ B \subseteq Holds
  BY BatchType
<1>4. UNCHANGED <<seq, pc, estimate>>
  BY DEF Reconcile, taskVars
<1>5. \A h \in Holds : /\ hold[h] # "ACTIVE" => hold'[h] = hold[h] /\ charge'[h] = charge[h]
                       /\ hold'[h] = "ACTIVE" => hold[h] = "ACTIVE"
  BY <1>2, <1>3 DEF ReconcileRows, Active
<1>6. \A q \in Requests, n \in 1..MaxAttempts :
        \/ outcome'[<<q, n>>] = outcome[<<q, n>>]
        \/ /\ outcome'[<<q, n>>] = "abandoned"
           /\ \E b \in Budgets : /\ hold[<<<<q, n>>, b>>] = "ACTIVE"
                                 /\ hold'[<<<<q, n>>, b>>] = "EXPIRED"
                                 /\ charge'[<<<<q, n>>, b>>] = estimate[<<q, n>>]
  <2> SUFFICES ASSUME NEW q \in Requests, NEW n \in 1..MaxAttempts,
                      NEW h \in C, h[1] = <<q, n>>
               PROVE  \E b \in Budgets : /\ hold[<<<<q, n>>, b>>] = "ACTIVE"
                                         /\ hold'[<<<<q, n>>, b>>] = "EXPIRED"
                                         /\ charge'[<<<<q, n>>, b>>] = estimate[<<q, n>>]
    <3>1. \A a \in Attempts : \/ \E h \in C : h[1] = a /\ outcome'[a] = "abandoned"
                             \/ outcome'[a] = outcome[a]
      BY <1>2 DEF ReconcileRows
    <3>2. \A q \in Requests, n \in 1..MaxAttempts : <<q, n>> \in Attempts
      BY RowsOf
    <3>3. \A q \in Requests, n \in 1..MaxAttempts :
            \/ \E h \in C : h[1] = <<q, n>> /\ outcome'[<<q, n>>] = "abandoned"
            \/ outcome'[<<q, n>>] = outcome[<<q, n>>]
      BY <3>1, <3>2
    <3>4. QED
      BY <3>3
  <2>1. PICK b \in Budgets : h = <<<<q, n>>, b>>
    BY <1>3 DEF Holds
  <2>2. hold[h] = "ACTIVE" /\ hold'[h] = "EXPIRED" /\ charge'[h] = Amount[h]
    BY <1>2, <1>3 DEF ReconcileRows, Active
  <2>3. Amount[h] = estimate[<<q, n>>]
    BY <1>3, AmountType
  <2>4. QED
    BY <2>1, <2>2, <2>3
<1>7. \A q \in Requests, n \in 1..MaxAttempts, b \in Budgets :
        hold[<<<<q, n>>, b>>] = "ACTIVE" => ~(n > seq[q]) /\ ~(n = seq[q] /\ pc[q] = "recorded")
  BY DEF Fresh, Current
<1>8. OutcomeInv'
  <2>1. \A q \in Requests, n \in 1..MaxAttempts :
          n > seq[q] \/ (n = seq[q] /\ pc[q] = "recorded") =>
            outcome'[<<q, n>>] = outcome[<<q, n>>]
    <3> SUFFICES ASSUME NEW q \in Requests, NEW n \in 1..MaxAttempts,
                        n > seq[q] \/ (n = seq[q] /\ pc[q] = "recorded")
                 PROVE  outcome'[<<q, n>>] = outcome[<<q, n>>]
      OBVIOUS
    <3>1. CASE outcome'[<<q, n>>] = outcome[<<q, n>>]
      BY <3>1
    <3>2. CASE \E b \in Budgets : /\ hold[<<<<q, n>>, b>>] = "ACTIVE"
                                 /\ hold'[<<<<q, n>>, b>>] = "EXPIRED"
                                 /\ charge'[<<<<q, n>>, b>>] = estimate[<<q, n>>]
      <4>1. PICK b \in Budgets : hold[<<<<q, n>>, b>>] = "ACTIVE"
        BY <3>2
      <4>2. ~(n > seq[q]) /\ ~(n = seq[q] /\ pc[q] = "recorded")
        BY <1>7, <4>1
      <4>3. QED
        BY <4>2
    <3>3. QED
      BY <1>6, <3>1, <3>2
  <2>2. \A q \in Requests, n \in 1..MaxAttempts :
          n = seq[q] /\ pc[q] = "resolved" =>
            \A b \in Budgets : hold'[<<<<q, n>>, b>>] # "ACTIVE"
    BY <1>5, RowsOf DEF OInv, OutcomeInv
  <2>3. \A q \in Requests, n \in 1..MaxAttempts :
          /\ n > seq[q] => outcome'[<<q, n>>] = "none"
          /\ n = seq[q] /\ pc[q] = "recorded" => outcome'[<<q, n>>] = "null"
    BY <2>1 DEF OInv, OutcomeInv
  <2>4. QED
    BY <1>4, <2>2, <2>3 DEF OutcomeInv
<1>9. HoldInv'
  BY <1>5, <1>6, RowsOf DEF OInv, HoldInv, Ended
<1>10. AbandonedInv'
  <2> SUFFICES ASSUME NEW q \in Requests, NEW n \in 1..MaxAttempts, outcome'[<<q, n>>] = "abandoned"
               PROVE  \E b \in Budgets : /\ hold'[<<<<q, n>>, b>>] = "EXPIRED"
                                         /\ charge'[<<<<q, n>>, b>>] = estimate'[<<q, n>>]
    BY DEF AbandonedInv
  <2>1. CASE outcome'[<<q, n>>] = outcome[<<q, n>>]
    <3>1. PICK b \in Budgets : /\ hold[<<<<q, n>>, b>>] = "EXPIRED"
                              /\ charge[<<<<q, n>>, b>>] = estimate[<<q, n>>]
      BY <2>1 DEF OInv, AbandonedInv
    <3>2. QED
      BY <1>4, <1>5, <3>1, RowsOf
  <2>2. CASE outcome'[<<q, n>>] # outcome[<<q, n>>]
    BY <1>4, <1>6, <2>2
  <2>3. QED
    BY <2>1, <2>2
<1>11. QED
  BY <1>8, <1>9, <1>10 DEF OInv

(* The steps that touch neither rows nor outcomes.                            *)
LEMMA OtherOutcomes ==
  ASSUME TypeOK, Fresh, OInv,
         \/ \E r \in Requests : Deny(r) \/ CallReturns(r) \/ EndLoop(r) \/ Crash(r)
         \/ \E a \in Attempts : Lapse(a)
         \/ UNCHANGED vars
  PROVE  OInv'
<1>1. UNCHANGED <<seq, estimate, outcome, hold, charge>>
  BY DEF Deny, CallReturns, EndLoop, Crash, Lapse, taskVars, ledgerVars, vars
<1>2. \A q \in Requests : pc'[q] \in {"recorded", "resolved"} => pc'[q] = pc[q]
  BY DEF Deny, CallReturns, EndLoop, Crash, Lapse, taskVars, vars, TypeOK
<1>3. QED
  BY <1>1, <1>2 DEF OInv, OutcomeInv, HoldInv, AbandonedInv

-----------------------------------------------------------------------------
LEMMA OInvInit == Init => OInv
  BY RowsOf DEF Init, OInv, OutcomeInv, HoldInv, AbandonedInv, Ended

LEMMA OInvStep == IInv /\ OInv /\ [Next]_vars => OInv'
<1> SUFFICES ASSUME TypeOK, Fresh, OInv, [Next]_vars PROVE OInv'
  BY DEF IInv
<1>1. ASSUME NEW r \in Requests, Step(r) PROVE OInv'
  BY <1>1, RecordAttemptOutcomes, ReserveOutcomes, FinishOutcomes, ResolveOutcomes, OtherOutcomes
     DEF Step
<1>2. QED
  BY <1>1, ReconcileOutcomes, OtherOutcomes DEF Next

(* An outcome on record means that the attempt's holds are resolved, however  *)
(* tasks, crashes and reconciler passes interleave: the reconciler may release *)
(* an expired hold of such an attempt (reconciler.py, _resolve_one).          *)
THEOREM OutcomesFollowMoney == Spec => []FinishedHoldsNothing
<1>1. IInv /\ OInv => FinishedHoldsNothing
  BY PairsAreAttempts DEF IInv, OInv
<1>2. Spec => []OInv
  BY OInvInit, OInvStep, LedgerInvariant, PTL DEF Spec
<1>3. QED
  BY <1>1, <1>2, LedgerInvariant, PTL

(* An attempt the reconciler gave up on has been charged its estimate on one  *)
(* budget at least, and that charge is never lost again.                      *)
THEOREM AbandonedArePaid == Spec => []AbandonedIsCharged
<1>1. IInv /\ OInv => AbandonedIsCharged
  BY PairsAreAttempts DEF IInv, OInv
<1>2. Spec => []OInv
  BY OInvInit, OInvStep, LedgerInvariant, PTL DEF Spec
<1>3. QED
  BY <1>1, <1>2, LedgerInvariant, PTL

-----------------------------------------------------------------------------
\* The ceiling.

Latest(q, b) == hold[<<Current(q), b>>]
Price(q)     == estimate[Current(q)]

\* What q's attempts before its latest were charged on b.
Kept(q, b) ==
  {h \in Holds : h[1][1] = q /\ h[2] = b /\ h[1][2] < seq[q] /\ hold[h] = "SETTLED"}
Earlier(q, b) == SumOver(Kept(q, b), Amount)

\* An attempt before the latest holds nothing; of the latest, what its task knows.
TaskInv(q, b) ==
  /\ \A n \in 1..MaxAttempts : n < seq[q] => hold[<<<<q, n>>, b>>] # "ACTIVE"
  /\ pc[q] = "ready" /\ seq[q] >= 1 => Latest(q, b) # "ACTIVE"
  /\ pc[q] \in {"invoking", "returned"} => Latest(q, b) # "SETTLED"
  /\ pc[q] = "returned" => settled[q] \in {0, Price(q)}
  /\ pc[q] = "resolved" /\ Latest(q, b) = "SETTLED" => settled[q] = Price(q)

\* The running total has what earlier attempts were charged, and the latest too
\* once the loop goes on.
CostInv(q, b) ==
  /\ Earlier(q, b) <= cost[q]
  /\ pc[q] = "ready" /\ seq[q] >= 1 /\ Latest(q, b) = "SETTLED" =>
       Earlier(q, b) + Price(q) <= cost[q]

CapInv(q, b) ==
  Ceiling[q] # NoCeiling =>
    /\ Earlier(q, b) <= Ceiling[q]
    /\ seq[q] >= 1 /\ Latest(q, b) \in {"ACTIVE", "SETTLED", "EXPIRED"} =>
         Earlier(q, b) + Price(q) <= Ceiling[q]

CInv == \A q \in Requests, b \in Budgets : TaskInv(q, b) /\ CostInv(q, b) /\ CapInv(q, b)

-----------------------------------------------------------------------------
(* Rows settled earlier are rows, and what they cost is a natural.            *)
LEMMA EarlierType ==
  ASSUME TypeOK, NEW q \in Requests, NEW b \in Budgets
  PROVE  Kept(q, b) \subseteq Holds /\ Earlier(q, b) \in Nat
<1>1. Kept(q, b) \subseteq Holds
  BY DEF Kept
<1>2. QED
  BY <1>1, AmountType DEF Earlier

(* A step that leaves q's attempt and its earlier rows alone leaves their sum. *)
LEMMA EarlierSame ==
  ASSUME NEW q \in Requests, NEW b \in Budgets,
         seq'[q] = seq[q], seq[q] \in Nat,
         \A n \in 1..MaxAttempts : n < seq[q] =>
           /\ hold'[<<<<q, n>>, b>>] = "SETTLED" <=> hold[<<<<q, n>>, b>>] = "SETTLED"
           /\ estimate'[<<q, n>>] = estimate[<<q, n>>]
  PROVE  Earlier(q, b)' = Earlier(q, b)
<1>1. \A h \in Holds : h[1][1] = q /\ h[2] = b => h[1][2] \in 1..MaxAttempts /\ h = <<<<q, h[1][2]>>, b>>
  BY DEF Holds, Attempts
<1>2. \A h \in Holds : h \in Kept(q, b)' <=> h \in Kept(q, b)
  BY <1>1 DEF Kept
<1>3. Kept(q, b)' = Kept(q, b)
  BY <1>2 DEF Kept
<1>4. \A h \in Kept(q, b) : Amount'[h] = Amount[h]
  BY <1>1 DEF Kept, Amount
<1>5. SumOver(Kept(q, b), Amount') = SumOver(Kept(q, b), Amount)
  BY <1>4, SumAgree
<1>6. QED
  BY <1>3, <1>5 DEF Earlier

(* All a step needs to leave of q: its counter, total and earlier rows; a hold it
   had may be resolved from outside, and its task may stop.                   *)
LEMMA Quiet ==
  ASSUME TypeOK, Fresh, CInv, NEW q \in Requests, NEW b \in Budgets,
         seq'[q] = seq[q], cost'[q] = cost[q],
         \/ pc'[q] \in {"stopped", "denied"}
         \/ pc'[q] = pc[q] /\ settled'[q] = settled[q],
         \A n \in 1..MaxAttempts :
           /\ estimate'[<<q, n>>] = estimate[<<q, n>>]
           /\ \/ hold'[<<<<q, n>>, b>>] = hold[<<<<q, n>>, b>>]
              \/ /\ hold[<<<<q, n>>, b>>] = "ACTIVE"
                 /\ hold'[<<<<q, n>>, b>>] \in {"EXPIRED", "RELEASED"}
  PROVE  (TaskInv(q, b) /\ CostInv(q, b) /\ CapInv(q, b))'
<1>1. seq[q] \in Nat /\ seq[q] \in 0..MaxAttempts
  BY LedgerAssumption DEF TypeOK
<1>2. Earlier(q, b)' = Earlier(q, b)
  BY <1>1, EarlierSame
<1>3. TaskInv(q, b) /\ CostInv(q, b) /\ CapInv(q, b)
  BY DEF CInv
<1>4. ASSUME seq[q] >= 1
      PROVE  /\ Price(q)' = Price(q)
             /\ \/ Latest(q, b)' = Latest(q, b)
                \/ Latest(q, b) = "ACTIVE" /\ Latest(q, b)' \in {"EXPIRED", "RELEASED"}
  <2>1. seq[q] \in 1..MaxAttempts
    BY <1>1, <1>4, LedgerAssumption
  <2>2. Current(q) = <<q, seq[q]>> /\ Current(q)' = <<q, seq[q]>>
    BY DEF Current
  <2>3. QED
    BY <2>1, <2>2 DEF Price, Latest
<1>5. pc'[q] \in {"invoking", "returned", "resolved"} => seq[q] >= 1
  BY <1>1 DEF Fresh
<1>6. TaskInv(q, b)'
  <2>1. \A n \in 1..MaxAttempts : n < seq'[q] => hold'[<<<<q, n>>, b>>] # "ACTIVE"
    BY <1>3 DEF TaskInv
  <2>2. CASE pc'[q] \in {"stopped", "denied"}
    BY <2>1, <2>2 DEF TaskInv
  <2>3. CASE pc'[q] = pc[q] /\ settled'[q] = settled[q]
    <3>1. pc'[q] = "ready" /\ seq'[q] >= 1 => Latest(q, b)' # "ACTIVE"
      BY <1>3, <1>4, <2>3 DEF TaskInv
    <3>2. pc'[q] \in {"invoking", "returned"} => Latest(q, b)' # "SETTLED"
      BY <1>3, <1>4, <1>5, <2>3 DEF TaskInv
    <3>3. pc'[q] = "returned" => settled'[q] \in {0, Price(q)'}
      BY <1>3, <1>4, <1>5, <2>3 DEF TaskInv
    <3>4. pc'[q] = "resolved" /\ Latest(q, b)' = "SETTLED" => settled'[q] = Price(q)'
      BY <1>3, <1>4, <1>5, <2>3 DEF TaskInv
    <3>5. QED
      BY <2>1, <3>1, <3>2, <3>3, <3>4 DEF TaskInv
  <2>4. QED
    BY <2>2, <2>3
<1>7. CostInv(q, b)'
  <2>1. Earlier(q, b)' <= cost'[q]
    BY <1>2, <1>3 DEF CostInv
  <2>2. pc'[q] = "ready" /\ seq'[q] >= 1 /\ Latest(q, b)' = "SETTLED" =>
          Earlier(q, b)' + Price(q)' <= cost'[q]
    BY <1>2, <1>3, <1>4 DEF CostInv
  <2>3. QED
    BY <2>1, <2>2 DEF CostInv
<1>8. CapInv(q, b)'
  BY <1>2, <1>3, <1>4 DEF CapInv
<1>9. QED
  BY <1>6, <1>7, <1>8

-----------------------------------------------------------------------------
(* What RecordAttempt makes earlier rows of: the row of the attempt before.    *)
LEMMA RecordAttemptCeiling ==
  ASSUME TypeOK, Fresh, CInv, NEW r \in Requests, NEW b \in Budgets, RecordAttempt(r)
  PROVE  (TaskInv(r, b) /\ CostInv(r, b) /\ CapInv(r, b))'
<1>1. seq[r] \in Nat /\ seq[r] \in 0..MaxAttempts /\ seq[r] + 1 \in 1..MaxAttempts
  BY LedgerAssumption DEF RecordAttempt, AttemptsLeft, TypeOK
<1> DEFINE new == <<r, seq[r] + 1>>
<1>2. /\ seq'[r] = seq[r] + 1 /\ pc'[r] = "recorded" /\ pc[r] = "ready"
      /\ hold' = hold /\ cost' = cost
      /\ \E e \in Estimates[r] : estimate' = [estimate EXCEPT ![new] = e]
  BY DEF RecordAttempt, ledgerVars, TypeOK
<1>3. /\ new \in Attempts
      /\ \A n \in 1..MaxAttempts : <<r, n>> = new <=> n = seq[r] + 1
  BY <1>1, RowsOf
<1> HIDE DEF new
<1>4. \A a \in Attempts : a # new => estimate'[a] = estimate[a]
  BY <1>2, <1>3 DEF TypeOK
<1>5. \A h \in Holds : h[1][1] = r /\ h[2] = b => h[1][2] \in 1..MaxAttempts /\ h = <<<<r, h[1][2]>>, b>>
  BY DEF Holds, Attempts
<1>6. TaskInv(r, b) /\ CostInv(r, b) /\ CapInv(r, b)
  BY DEF CInv
<1>7. \A h \in Holds : h[1][1] = r /\ h[2] = b /\ h[1][2] <= seq[r] => Amount'[h] = Amount[h]
  <2> SUFFICES ASSUME NEW h \in Holds, h[1][1] = r, h[2] = b, h[1][2] <= seq[r]
               PROVE  Amount'[h] = Amount[h]
    OBVIOUS
  <2>1. PICK n \in 1..MaxAttempts : h = <<<<r, n>>, b>> /\ n <= seq[r]
    BY <1>5
  <2>2. h[1] # new /\ h[1] \in Attempts
    BY <1>1, <1>3, <2>1, RowsOf
  <2>3. QED
    BY <1>4, <2>2 DEF Amount
<1>8. Latest(r, b)' = "none"
  <2>1. hold[<<<<r, seq[r] + 1>>, b>>] = "none"
    BY <1>1 DEF Fresh
  <2>2. QED
    BY <1>2, <2>1 DEF Latest, Current
<1>9. TaskInv(r, b)'
  <2>1. ASSUME NEW n \in 1..MaxAttempts, n < seq'[r] PROVE hold'[<<<<r, n>>, b>>] # "ACTIVE"
    <3>1. CASE n < seq[r]
      BY <1>2, <1>6, <3>1 DEF TaskInv
    <3>2. CASE n = seq[r]
      BY <1>1, <1>2, <1>6, <3>2 DEF TaskInv, Latest, Current
    <3>3. QED
      BY <1>1, <1>2, <2>1, <3>1, <3>2
  <2>2. QED
    BY <1>2, <2>1 DEF TaskInv
<1>10. Earlier(r, b)' <= cost[r] /\ (Ceiling[r] # NoCeiling => Earlier(r, b)' <= Ceiling[r])
  <2>1. CASE seq[r] >= 1 /\ Latest(r, b) = "SETTLED"
    <3> DEFINE h1 == <<<<r, seq[r]>>, b>>
    <3>1. /\ h1 \in Holds /\ h1[1][1] = r /\ h1[2] = b /\ h1[1][2] = seq[r]
          /\ hold[h1] = "SETTLED" /\ Amount[h1] = Price(r)
          /\ \A h \in Holds : h[1][1] = r /\ h[2] = b /\ h[1][2] = seq[r] => h = h1
      BY <1>1, <1>5, <2>1, RowsOf DEF Latest, Current, Price, Amount
    <3> HIDE DEF h1
    <3>2. Kept(r, b)' = Kept(r, b) \cup {h1} /\ h1 \notin Kept(r, b)
      <4>1. \A h \in Holds : h[1][1] = r /\ h[2] = b =>
              (h[1][2] < seq'[r] <=> h[1][2] < seq[r] \/ h[1][2] = seq[r])
        BY <1>1, <1>2, <1>5
      <4>2. \A h \in Holds : h \in Kept(r, b)' <=> h \in Kept(r, b) \cup {h1}
        BY <1>2, <3>1, <4>1 DEF Kept
      <4>3. h1 \notin Kept(r, b)
        BY <1>1, <3>1 DEF Kept
      <4>4. QED
        BY <3>1, <4>2, <4>3 DEF Kept
    <3>3. \A h \in Kept(r, b) \cup {h1} : Amount'[h] = Amount[h]
      BY <1>1, <1>5, <1>7, <3>1 DEF Kept
    <3>4. Earlier(r, b)' = SumOver(Kept(r, b) \cup {h1}, Amount)
      BY <3>2, <3>3, SumAgree DEF Earlier
    <3>5. SumOver(Kept(r, b) \cup {h1}, Amount) = Earlier(r, b) + Price(r)
      <4>1. Kept(r, b) \subseteq Holds /\ {h1} \subseteq Holds
        BY <3>1, EarlierType
      <4>2. IsFiniteSet(Kept(r, b)) /\ IsFiniteSet({h1}) /\ Kept(r, b) \cap {h1} = {}
        BY <3>2, <4>1, HoldsFinite
      <4>3. \A x \in Kept(r, b) \cup {h1} : Amount[x] \in Nat
        BY <4>1, AmountType
      <4>4. SumOver({h1}, Amount) = Price(r)
        BY <3>1, <4>3, SumSingleton
      <4>5. QED
        BY <4>2, <4>3, <4>4, SumDisjoint DEF Earlier
    <3>6. QED
      BY <1>2, <1>6, <2>1, <3>4, <3>5 DEF CostInv, CapInv
  <2>2. CASE ~(seq[r] >= 1 /\ Latest(r, b) = "SETTLED")
    <3>1. \A h \in Holds : h[1][1] = r /\ h[2] = b /\ hold[h] = "SETTLED" =>
            (h[1][2] < seq'[r] <=> h[1][2] < seq[r])
      <4> SUFFICES ASSUME NEW h \in Holds, h[1][1] = r, h[2] = b, hold[h] = "SETTLED"
                   PROVE  h[1][2] # seq[r]
        BY <1>1, <1>2, <1>5
      <4>1. h[1][2] \in 1..MaxAttempts /\ h = <<<<r, h[1][2]>>, b>>
        BY <1>5
      <4>2. QED
        BY <1>1, <2>2, <4>1 DEF Latest, Current
    <3>2. \A h \in Holds : h \in Kept(r, b)' <=> h \in Kept(r, b)
      BY <1>2, <3>1 DEF Kept
    <3>3. Kept(r, b)' = Kept(r, b)
      BY <3>2 DEF Kept
    <3>4. \A h \in Kept(r, b) : Amount'[h] = Amount[h]
      BY <1>1, <1>5, <1>7 DEF Kept
    <3>5. Earlier(r, b)' = Earlier(r, b)
      BY <3>3, <3>4, SumAgree DEF Earlier
    <3>6. QED
      BY <1>6, <3>5 DEF CostInv, CapInv
  <2>3. QED
    BY <2>1, <2>2
<1>11. CostInv(r, b)'
  BY <1>2, <1>10 DEF CostInv
<1>12. CapInv(r, b)'
  BY <1>8, <1>10 DEF CapInv
<1>13. QED
  BY <1>9, <1>11, <1>12

(* Reserve makes the ceiling's test with the total; an earlier row is never its
   business.                                                                  *)
LEMMA ReserveCeiling ==
  ASSUME TypeOK, Fresh, CInv, NEW r \in Requests, NEW b \in Budgets, Reserve(r)
  PROVE  (TaskInv(r, b) /\ CostInv(r, b) /\ CapInv(r, b))'
<1>1. seq[r] \in 1..MaxAttempts /\ seq[r] \in Nat
  <2>1. pc[r] \in {"recorded"}
    BY DEF Reserve
  <2>2. QED
    BY <2>1, SeqType
<1>2. /\ pc'[r] = "invoking" /\ pc[r] = "recorded"
      /\ UNCHANGED <<seq, cost, estimate>>
  BY DEF Reserve, TypeOK
<1>3. TaskInv(r, b) /\ CostInv(r, b) /\ CapInv(r, b)
  BY DEF CInv
<1>4. \A n \in 1..MaxAttempts :
        n < seq[r] => hold'[<<<<r, n>>, b>>] = hold[<<<<r, n>>, b>>]
  <2> SUFFICES ASSUME NEW n \in 1..MaxAttempts, n < seq[r]
               PROVE  hold'[<<<<r, n>>, b>>] = hold[<<<<r, n>>, b>>]
    OBVIOUS
  <2>1. <<r, n>> # Current(r)
    BY <1>1 DEF Current
  <2>2. QED
    BY <2>1, RowsOf DEF Reserve
<1>5. Earlier(r, b)' = Earlier(r, b)
  BY <1>1, <1>2, <1>4, EarlierSame
<1>6. Latest(r, b)' \in {"ACTIVE", "none"} /\ Price(r)' = Price(r)
  <2>1. <<Current(r), b>> \in Holds /\ Current(r)' = Current(r)
    BY <1>1, <1>2, RowsOf DEF Current
  <2>2. hold[<<Current(r), b>>] = "none"
    BY <1>2 DEF Fresh
  <2>3. QED
    BY <1>2, <2>1, <2>2 DEF Reserve, Latest, Price
<1>7. TaskInv(r, b)'
  BY <1>2, <1>3, <1>4, <1>6 DEF TaskInv
<1>8. CostInv(r, b)'
  BY <1>2, <1>3, <1>5 DEF CostInv
<1>9. CapInv(r, b)'
  <2> SUFFICES ASSUME Ceiling[r] # NoCeiling
               PROVE  Earlier(r, b) <= Ceiling[r] /\ Earlier(r, b) + Price(r) <= Ceiling[r]
    BY <1>5, <1>6 DEF CapInv
  <2>1. cost[r] + Price(r) <= Ceiling[r] /\ Earlier(r, b) <= cost[r]
    BY <1>3 DEF Reserve, CanReserve, Affordable, CostInv, Price
  <2>2. Earlier(r, b) \in Nat /\ cost[r] \in Nat /\ Price(r) \in Nat /\ Ceiling[r] \in Nat
    BY <1>1, RowsOf, EarlierType, LedgerAssumption DEF TypeOK, Price, Current
  <2>3. QED
    BY <2>1, <2>2
<1>10. QED
  BY <1>7, <1>8, <1>9

LEMMA CallReturnsCeiling ==
  ASSUME TypeOK, Fresh, CInv, NEW r \in Requests, NEW b \in Budgets, CallReturns(r)
  PROVE  (TaskInv(r, b) /\ CostInv(r, b) /\ CapInv(r, b))'
<1>1. seq[r] \in Nat
  BY LedgerAssumption DEF TypeOK
<1>2. /\ pc'[r] = "returned" /\ pc[r] = "invoking"
      /\ UNCHANGED <<seq, cost, estimate, hold>>
  BY DEF CallReturns, ledgerVars, TypeOK
<1>3. TaskInv(r, b) /\ CostInv(r, b) /\ CapInv(r, b)
  BY DEF CInv
<1>4. Earlier(r, b)' = Earlier(r, b)
  BY <1>1, <1>2, EarlierSame
<1>5. Latest(r, b)' = Latest(r, b) /\ Price(r)' = Price(r)
  BY <1>2 DEF Latest, Price, Current
<1>6. settled'[r] \in {0, Price(r)}
  <2>1. PICK v \in Verdicts : \E bill \in Bills(r, v) : settled' = [settled EXCEPT ![r] = bill]
    BY DEF CallReturns
  <2>2. PICK bill \in Bills(r, v) : settled' = [settled EXCEPT ![r] = bill]
    BY <2>1
  <2>3. bill \in {0, Price(r)}
    BY DEF Bills, Verdicts, Price
  <2>4. QED
    BY <2>2, <2>3 DEF TypeOK
<1>7. TaskInv(r, b)'
  BY <1>2, <1>3, <1>5, <1>6 DEF TaskInv
<1>8. QED
  BY <1>2, <1>3, <1>4, <1>5, <1>7 DEF CostInv, CapInv

(* A row settled by its own task is settled at its estimate.                  *)
LEMMA ResolveCeiling ==
  ASSUME TypeOK, Fresh, CInv, NEW r \in Requests, NEW b \in Budgets, Resolve(r)
  PROVE  (TaskInv(r, b) /\ CostInv(r, b) /\ CapInv(r, b))'
<1>1. seq[r] \in 1..MaxAttempts /\ seq[r] \in Nat
  <2>1. pc[r] \in {"returned"}
    BY DEF Resolve
  <2>2. QED
    BY <2>1, SeqType
<1>2. /\ pc[r] = "returned" /\ pc'[r] \in {"stopped", "resolved"}
      /\ pc'[r] = "resolved" => settled' = settled
      /\ UNCHANGED <<seq, cost, estimate>>
  BY DEF Resolve, TypeOK
<1>3. TaskInv(r, b) /\ CostInv(r, b) /\ CapInv(r, b)
  BY DEF CInv
<1>4. \A h \in Holds :
        \/ hold'[h] = hold[h] /\ (hold[h] = "ACTIVE" => h[1] # Current(r))
        \/ /\ hold[h] = "ACTIVE" /\ h[1] = Current(r)
           /\ hold'[h] = IF settled[r] > 0 THEN "SETTLED" ELSE "RELEASED"
  BY DEF Resolve, Resolvable, HeldFor, Active
<1>5. \A n \in 1..MaxAttempts :
        n < seq[r] => hold'[<<<<r, n>>, b>>] = hold[<<<<r, n>>, b>>]
  BY <1>3, <1>4, RowsOf DEF TaskInv
<1>6. Earlier(r, b)' = Earlier(r, b)
  BY <1>1, <1>2, <1>5, EarlierSame
<1>7. Price(r)' = Price(r)
  BY <1>2 DEF Price, Current
<1>8. /\ Latest(r, b)' # "ACTIVE"
      /\ Latest(r, b)' \in {"SETTLED", "EXPIRED"} => Latest(r, b) \in {"ACTIVE", "EXPIRED"}
      /\ Latest(r, b)' = "SETTLED" => settled[r] # 0
  <2>1. <<Current(r), b>> \in Holds /\ Current(r)' = Current(r)
    BY <1>1, <1>2, RowsOf DEF Current
  <2>2. hold[<<Current(r), b>>] # "SETTLED"
    BY <1>2, <1>3 DEF TaskInv, Latest
  <2>3. CASE hold[<<Current(r), b>>] # "ACTIVE"
    BY <1>4, <2>1, <2>2, <2>3 DEF Latest
  <2>4. CASE hold[<<Current(r), b>>] = "ACTIVE"
    <3>1. hold'[<<Current(r), b>>] = IF settled[r] > 0 THEN "SETTLED" ELSE "RELEASED"
      BY <1>4, <2>1, <2>4
    <3>2. QED
      BY <2>1, <2>4, <3>1 DEF Latest
  <2>5. QED
    BY <2>3, <2>4
<1>9. TaskInv(r, b)'
  <2>1. settled[r] \in {0, Price(r)}
    BY <1>2, <1>3 DEF TaskInv
  <2>2. QED
    BY <1>2, <1>3, <1>5, <1>7, <1>8, <2>1 DEF TaskInv
<1>10. CostInv(r, b)'
  BY <1>2, <1>3, <1>6 DEF CostInv
<1>11. CapInv(r, b)'
  BY <1>2, <1>3, <1>6, <1>7, <1>8 DEF CapInv
<1>12. QED
  BY <1>9, <1>10, <1>11

(* The loop adds to its total what the attempt was settled at.                *)
LEMMA FinishCeiling ==
  ASSUME TypeOK, Fresh, OInv, CInv, NEW r \in Requests, NEW b \in Budgets, Finish(r)
  PROVE  (TaskInv(r, b) /\ CostInv(r, b) /\ CapInv(r, b))'
<1>1. seq[r] \in 1..MaxAttempts /\ seq[r] \in Nat
  <2>1. pc[r] \in {"resolved"}
    BY DEF Finish
  <2>2. QED
    BY <2>1, SeqType
<1>2. /\ pc[r] = "resolved" /\ pc'[r] \in {"stopped", "ready"}
      /\ cost'[r] = cost[r] + settled[r]
      /\ UNCHANGED <<seq, estimate, hold>>
  BY DEF Finish, ledgerVars, TypeOK
<1>3. TaskInv(r, b) /\ CostInv(r, b) /\ CapInv(r, b)
  BY DEF CInv
<1>4. Earlier(r, b)' = Earlier(r, b)
  BY <1>1, <1>2, EarlierSame
<1>5. Latest(r, b)' = Latest(r, b) /\ Price(r)' = Price(r)
  BY <1>2 DEF Latest, Price, Current
<1>6. Latest(r, b) # "ACTIVE"
  BY <1>1, <1>2 DEF OInv, OutcomeInv, Latest, Current
<1>7. TaskInv(r, b)'
  BY <1>2, <1>3, <1>5, <1>6 DEF TaskInv
<1>8. Earlier(r, b) \in Nat /\ cost[r] \in Nat /\ settled[r] \in Nat
  BY EarlierType DEF TypeOK
<1>9. Earlier(r, b) <= cost[r] /\ (Latest(r, b) = "SETTLED" => settled[r] = Price(r))
  BY <1>2, <1>3 DEF TaskInv, CostInv
<1>10. CostInv(r, b)'
  <2>1. Earlier(r, b) <= cost[r] + settled[r]
    BY <1>8, <1>9
  <2>2. Latest(r, b) = "SETTLED" => Earlier(r, b) + Price(r) <= cost[r] + settled[r]
    BY <1>8, <1>9
  <2>3. QED
    BY <1>2, <1>4, <1>5, <2>1, <2>2 DEF CostInv
<1>11. CapInv(r, b)'
  BY <1>2, <1>3, <1>4, <1>5 DEF CapInv
<1>12. QED
  BY <1>7, <1>10, <1>11

-----------------------------------------------------------------------------
(* A step of one request leaves the others alone.                             *)
LEMMA OthersCeiling ==
  ASSUME TypeOK, Fresh, CInv, NEW r \in Requests, Step(r),
         NEW q \in Requests, q # r, NEW b \in Budgets
  PROVE  (TaskInv(q, b) /\ CostInv(q, b) /\ CapInv(q, b))'
<1>1. seq'[q] = seq[q] /\ cost'[q] = cost[q] /\ pc'[q] = pc[q] /\ settled'[q] = settled[q]
  BY DEF Step, RecordAttempt, Reserve, Deny, FinishDenied, CallReturns, Resolve, Finish,
         EndLoop, Crash, Forget, TypeOK
<1>2. \A n \in 1..MaxAttempts : estimate'[<<q, n>>] = estimate[<<q, n>>]
  <2>1. CASE RecordAttempt(r)
    <3>1. PICK e \in Estimates[r] : estimate' = [estimate EXCEPT ![<<r, seq[r] + 1>>] = e]
      BY <2>1 DEF RecordAttempt
    <3>2. \A n \in 1..MaxAttempts : <<q, n>> # <<r, seq[r] + 1>>
      OBVIOUS
    <3>3. QED
      BY <3>1, <3>2, RowsOf DEF TypeOK
  <2>2. CASE ~RecordAttempt(r)
    BY <2>2 DEF Step, Reserve, Deny, FinishDenied, CallReturns, Resolve, Finish, EndLoop, Crash
  <2>3. QED
    BY <2>1, <2>2
<1>3. \A n \in 1..MaxAttempts : hold'[<<<<q, n>>, b>>] = hold[<<<<q, n>>, b>>]
  <2>1. \A n \in 1..MaxAttempts : <<q, n>> # Current(r)
    BY DEF Current
  <2>2. CASE Reserve(r)
    BY <2>1, <2>2, RowsOf DEF Reserve
  <2>3. CASE Resolve(r)
    BY <2>1, <2>3, RowsOf DEF Resolve, Resolvable, HeldFor
  <2>4. CASE ~Reserve(r) /\ ~Resolve(r)
    BY <2>4 DEF Step, RecordAttempt, Deny, FinishDenied, CallReturns, Finish, EndLoop, Crash, ledgerVars
  <2>5. QED
    BY <2>2, <2>3, <2>4
<1>4. QED
  BY <1>1, <1>2, <1>3, Quiet

LEMMA StepCeiling ==
  ASSUME TypeOK, Fresh, OInv, CInv, NEW r \in Requests, Step(r), NEW b \in Budgets
  PROVE  (TaskInv(r, b) /\ CostInv(r, b) /\ CapInv(r, b))'
<1>1. CASE Deny(r) \/ FinishDenied(r) \/ EndLoop(r) \/ Crash(r)
  <2>1. /\ UNCHANGED <<seq, cost, estimate, hold>>
        /\ pc'[r] \in {"stopped", "denied"}
    BY <1>1 DEF Deny, FinishDenied, EndLoop, Crash, ledgerVars, TypeOK
  <2>2. QED
    BY <2>1, Quiet
<1>2. QED
  BY <1>1, RecordAttemptCeiling, ReserveCeiling, CallReturnsCeiling, ResolveCeiling, FinishCeiling
     DEF Step

LEMMA ElsewhereCeiling ==
  ASSUME TypeOK, Fresh, CInv, Reconcile \/ (\E a \in Attempts : Lapse(a)) \/ UNCHANGED vars
  PROVE  CInv'
<1>1. UNCHANGED <<pc, seq, cost, settled, estimate>>
  BY DEF Reconcile, Lapse, taskVars, vars
<1>2. \A h \in Holds : \/ hold'[h] = hold[h]
                       \/ hold[h] = "ACTIVE" /\ hold'[h] \in {"EXPIRED", "RELEASED"}
  <2>1. CASE Reconcile
    <3>1. PICK B \in Batches : \E C \in ChargedRows(B) : ReconcileRows(B, C)
      BY <2>1 DEF Reconcile
    <3>2. PICK C \in ChargedRows(B) : ReconcileRows(B, C)
      BY <3>1
    <3>3. C \subseteq B /\ B \subseteq Active
      BY BatchType
    <3>4. QED
      BY <3>2, <3>3 DEF ReconcileRows, Active
  <2>2. CASE ~Reconcile
    BY <2>2 DEF Lapse, ledgerVars, vars
  <2>3. QED
    BY <2>1, <2>2
<1>3. ASSUME NEW q \in Requests, NEW b \in Budgets
      PROVE  (TaskInv(q, b) /\ CostInv(q, b) /\ CapInv(q, b))'
  BY <1>1, <1>2, RowsOf, Quiet
<1>4. QED
  BY <1>3 DEF CInv

LEMMA CInvStep == IInv /\ OInv /\ CInv /\ [Next]_vars => CInv'
<1> SUFFICES ASSUME TypeOK, Fresh, OInv, CInv, [Next]_vars PROVE CInv'
  BY DEF IInv
<1>1. ASSUME NEW r \in Requests, Step(r) PROVE CInv'
  BY <1>1, StepCeiling, OthersCeiling DEF CInv
<1>2. QED
  BY <1>1, ElsewhereCeiling DEF Next

LEMMA CInvInit == Init => CInv
<1> SUFFICES ASSUME Init, NEW q \in Requests, NEW b \in Budgets
             PROVE  TaskInv(q, b) /\ CostInv(q, b) /\ CapInv(q, b)
  BY DEF CInv
<1>1. seq[q] = 0 /\ pc[q] = "ready" /\ cost[q] = 0
  BY DEF Init
<1>2. Kept(q, b) = {}
  BY DEF Init, Kept
<1>3. Earlier(q, b) = 0
  BY <1>2, SumEmpty DEF Earlier
<1>4. Ceiling[q] # NoCeiling => Ceiling[q] \in Nat
  BY LedgerAssumption
<1>5. \A n \in 1..MaxAttempts : ~(n < seq[q])
  BY <1>1, LedgerAssumption
<1>6. QED
  BY <1>1, <1>3, <1>4, <1>5 DEF TaskInv, CostInv, CapInv

-----------------------------------------------------------------------------
(* The rows WithinCeiling counts are those settled earlier and the latest.    *)
LEMMA CountedRows ==
  ASSUME TypeOK, Fresh, CInv, NEW r \in Requests, NEW b \in Budgets, Ceiling[r] # NoCeiling
  PROVE  SumOver({h \in HoldsOf(r, b) : Counted(r, h)}, Amount) <= Ceiling[r]
<1> DEFINE D == {h \in HoldsOf(r, b) : Counted(r, h)}
           last == <<<<r, seq[r]>>, b>>
<1>1. seq[r] \in Nat /\ seq[r] \in 0..MaxAttempts
  BY LedgerAssumption DEF TypeOK
<1>2. TaskInv(r, b) /\ CapInv(r, b)
  BY DEF CInv
<1>3. \A h : h \in D <=> h \in Holds /\ h[1][1] = r /\ h[2] = b /\ Counted(r, h)
  BY DEF HoldsOf, HoldsOn
<1>4. \A h \in Holds : h[1][1] = r /\ h[2] = b => h[1][2] \in 1..MaxAttempts /\ h = <<<<r, h[1][2]>>, b>>
  BY DEF Holds, Attempts
<1>5. \A h \in Holds : h[1][1] = r /\ h[2] = b /\ h[1][2] < seq[r] =>
        (Counted(r, h) <=> hold[h] = "SETTLED")
  BY <1>1, <1>2, <1>4 DEF Counted, TaskInv, Current
<1>6. \A h \in Holds : h[1][1] = r /\ h[2] = b /\ h[1][2] > seq[r] => ~Counted(r, h)
  BY <1>1, <1>4 DEF Counted, Fresh
<1>7. \A h : h \in D /\ h # last <=> h \in Kept(r, b)
  <2>1. \A h \in Holds : h[1][1] = r /\ h[2] = b =>
          (h # last <=> h[1][2] < seq[r] \/ h[1][2] > seq[r])
    BY <1>1, <1>4
  <2> HIDE DEF D, last
  <2>2. \A h \in Holds : h[1][1] = r /\ h[2] = b =>
          ~(h[1][2] < seq[r] /\ h[1][2] > seq[r])
    BY <1>1, <1>4
  <2>3. last[1][2] = seq[r]
    BY DEF last
  <2>4. ASSUME NEW h, h \in Kept(r, b) PROVE h \in D /\ h # last
    BY <1>1, <1>3, <1>4, <1>5, <2>3, <2>4 DEF Kept
  <2>5. ASSUME NEW h, h \in D, h # last PROVE h \in Kept(r, b)
    BY <1>3, <1>5, <1>6, <2>1, <2>5 DEF Kept
  <2>6. QED
    BY <2>4, <2>5
<1>8. Kept(r, b) \subseteq Holds /\ Earlier(r, b) \in Nat
  BY EarlierType
<1>9. CASE last \in D
  <2>1. last \in Holds /\ seq[r] >= 1 /\ Current(r) = last[1] /\ Price(r) = Amount[last]
    <3>1. last \in Holds
      BY <1>3, <1>9
    <3>2. seq[r] \in 1..MaxAttempts
      BY <3>1 DEF Holds, Attempts
    <3>3. QED
      BY <1>1, <3>1, <3>2, AmountType DEF Current, Price
  <2>2. Latest(r, b) \in {"ACTIVE", "SETTLED", "EXPIRED"}
    BY <1>3, <1>9, <2>1 DEF Counted, Latest
  <2>3. Earlier(r, b) + Price(r) <= Ceiling[r]
    BY <1>2, <2>1, <2>2 DEF CapInv
  <2> HIDE DEF D, last
  <2>4. D = Kept(r, b) \cup {last} /\ Kept(r, b) \cap {last} = {}
    BY <1>7, <1>9
  <2>5. IsFiniteSet(Kept(r, b)) /\ IsFiniteSet({last})
    BY <1>8, <2>1, HoldsFinite
  <2>6. \A x \in Kept(r, b) \cup {last} : Amount[x] \in Nat
    BY <1>8, <2>1, AmountType
  <2>7. SumOver({last}, Amount) = Price(r)
    BY <2>1, <2>6, SumSingleton
  <2>8. SumOver(D, Amount) = Earlier(r, b) + Price(r)
    BY <2>4, <2>5, <2>6, <2>7, SumDisjoint DEF Earlier
  <2>9. QED
    BY <2>3, <2>8 DEF D
<1>10. CASE last \notin D
  <2> HIDE DEF D, last
  <2>1. D = Kept(r, b)
    BY <1>7, <1>10
  <2>2. SumOver(D, Amount) <= Ceiling[r]
    BY <1>2, <2>1 DEF CapInv, Earlier
  <2>3. QED
    BY <2>2 DEF D
<1>11. QED
  BY <1>9, <1>10

(* All attempts of a request together, what is charged and what may yet be, stay
   within the caller's max_cost on every budget, although reserve only ever sees
   a running total (budget.py, effective_max_cost).                           *)
THEOREM CeilingRespected == Spec => []WithinCeiling
<1>1. IInv /\ CInv => WithinCeiling
  BY CountedRows DEF IInv, WithinCeiling
<1>2. Spec => []OInv
  BY OInvInit, OInvStep, LedgerInvariant, PTL DEF Spec
<1>3. Spec => []CInv
  BY <1>2, CInvInit, CInvStep, LedgerInvariant, PTL DEF Spec
<1>4. QED
  BY <1>1, <1>3, LedgerInvariant, PTL
=============================================================================
