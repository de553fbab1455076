-------------------------- MODULE LedgerLocksProofs --------------------------
(***************************************************************************)
(* What the row locks of LedgerLocks achieve, for any tasks, budgets,      *)
(* limits and scopes.                                                      *)
(*                                                                         *)
(* A task computes from rows it has locked, so what it writes is computed  *)
(* from what is there (ReadsAreFresh): with or without a reconciler, no    *)
(* task's update is lost to another's.  A reconciler pass computes from    *)
(* rows it has not locked, but what it has read of a budget is what is     *)
(* there until a task writes it (PassReads).  So the counters are the sums *)
(* of the rows, and the limits hold, on every budget that no pass has      *)
(* written over.                                                           *)
(***************************************************************************)
EXTENDS LedgerLocks, SumsProofs

\* The shape of every variable, without the bounds of TypeOK.
Shape ==
  /\ phase     \in [Sessions -> Phases]
  /\ wants     \in [Sessions -> SUBSET Locks]
  /\ owner     \in [Locks -> Sessions \cup {Nobody}]
  /\ seen      \in [Sessions -> [Budgets -> [reserved : Nat, spent : Nat]]]
  /\ batch     \subseteq Holds
  /\ ambiguous \subseteq batch
  /\ bill      \in [Tasks -> Nat]
  /\ outcome   \in [Tasks -> {"null", "recorded", "abandoned"}]
  /\ hold      \in [Holds -> {"none", "ACTIVE", "SETTLED", "RELEASED", "EXPIRED"}]
  /\ charge    \in [Holds -> Nat]
  /\ reserved  \in [Budgets -> Nat]
  /\ spent     \in [Budgets -> Nat]

\* The phases of a task, and of the reconciler's session.
PhasesApart ==
  /\ \A t \in Tasks : phase[t] \notin {"idle", "reconciling"}
  /\ phase[Reconciler] \in {"idle", "reconciling"}

\* Only an open transaction wants locks.
WantsWhenOpen == \A p \in Sessions : wants[p] # {} => phase[p] \in OpenPhases

\* An open transaction has or still wants each lock it is to take.
LocksToTake ==
  /\ \A t \in Tasks : phase[t] \in {"reserving", "resolving"} =>
       \A b \in ScopesOf[t] : b \in wants[t] \/ owner[b] = t
  /\ \A t \in Tasks : phase[t] = "resolving" => t \in wants[t] \/ owner[t] = t
  /\ phase[Reconciler] = "reconciling" =>
       \A h \in batch : /\ h[1] \in wants[Reconciler] \/ owner[h[1]] = Reconciler
                        /\ h[2] \in wants[Reconciler] \/ owner[h[2]] = Reconciler

\* Rows are in scope, there only after the reservation, and not charged while held.
RowsInScope ==
  \A t \in Tasks, b \in Budgets :
    /\ hold[<<t, b>>] # "none" => b \in ScopesOf[t]
    /\ phase[t] \in {"recorded", "reserving"} => hold[<<t, b>>] = "none"
    /\ hold[<<t, b>>] \in {"none", "ACTIVE"} => charge[<<t, b>>] = 0

\* A pass has read rows that are there.
RowsRead == \A h \in batch : hold[h] # "none"

\* A task has read what is in the budgets it has locked.
ReadsAreFresh ==
  \A t \in Tasks, b \in Budgets : owner[b] = t => seen[t][b] = Fresh[b]

LockInv == /\ Shape /\ PhasesApart /\ WantsWhenOpen /\ NoLockAcrossCall
           /\ LocksToTake /\ RowsInScope /\ RowsRead /\ ReadsAreFresh

-----------------------------------------------------------------------------
Active == {h \in Holds : hold[h] = "ACTIVE"}

\* A pass has read what is there, and rows that are held, wherever no task has
\* written since.
PassReads ==
  /\ phase[Reconciler] = "reconciling" =>
       /\ \A b \in Budgets : b \in stale \/ seen[Reconciler][b] = Fresh[b]
       /\ \A h \in batch : h[2] \in stale \/ hold[h] = "ACTIVE"
  /\ phase[Reconciler] = "idle" => batch = {} /\ stale = {}
  /\ stale \subseteq Budgets
  /\ drifted \subseteq Budgets

BillIsEstimate == \A t \in Tasks : bill[t] \in {0, Estimate[t]}

\* Both counters of a budget together stay within its limit.
WithinLimit == \A b \in Budgets \ drifted : spent[b] + reserved[b] <= HardLimit[b]

LedgerInv == LockInv /\ PassReads /\ BillIsEstimate /\ Conservation /\ WithinLimit

-----------------------------------------------------------------------------
\* What a session has locked comes before what it still wants; of a pass this is
\* said of budgets only.
LockedInOrder ==
  /\ \A t \in Tasks :
       /\ wants[t] \subseteq Budgets \cup {t}
       /\ \A l \in Locks : owner[l] = t => l \in Budgets \cup {t}
       /\ phase[t] = "reserving" =>
            wants[t] \subseteq Budgets /\ \A l \in Locks : owner[l] = t => l \in Budgets
  /\ \A p \in Sessions : \A l \in Locks, m \in wants[p] :
       owner[l] = p /\ (p \in Tasks \/ {l, m} \subseteq Budgets) => Before(p, l, m)
-----------------------------------------------------------------------------
(* Rows are finitely many, and their amounts natural, so are their sums.     *)
LEMMA RowSums ==
  /\ IsFiniteSet(Holds)
  /\ \A h \in Holds : Amount[h] = Estimate[h[1]] /\ Amount[h] \in Nat
  /\ \A H \in SUBSET Holds, b \in Budgets : OfBudget(H, b) \in Nat
<1>1. IsFiniteSet(Holds)
  BY LocksAssumption, FS_Product DEF Holds
<1>2. \A h \in Holds : Amount[h] = Estimate[h[1]] /\ Amount[h] \in Nat
  BY LocksAssumption DEF Amount, Holds
<1>3. ASSUME NEW H \in SUBSET Holds, NEW b \in Budgets
      PROVE  OfBudget(H, b) \in Nat
  <2>1. IsFiniteSet(H \cap HoldsOn(b))
    BY <1>1, FS_Subset
  <2>2. \A h \in H \cap HoldsOn(b) : Amount[h] \in Nat
    BY <1>2
  <2>3. SumOver(H \cap HoldsOn(b), Amount) \in Nat
    BY <2>1, <2>2, SumType
  <2>4. QED
    BY <2>3 DEF OfBudget
<1>4. QED
  BY <1>1, <1>2, <1>3

(* The reconciler is no task, a lock on rows no lock on a budget, and an open *)
(* phase a phase.                                                            *)
LEMMA Apart ==
  /\ \A t \in Tasks : t \in Sessions /\ t # Reconciler /\ t # Nobody /\ t \notin Budgets
  /\ Reconciler \in Sessions /\ Reconciler # Nobody
  /\ OpenPhases \subseteq Phases
  /\ Tasks \subseteq Locks /\ Budgets \subseteq Locks
BY LocksAssumption DEF Sessions, Locks, Phases

(* What beginning a transaction does.                                        *)
LEMMA BeginType ==
  ASSUME Shape, NEW p \in Sessions, NEW opened \in OpenPhases,
         NEW locks \in SUBSET Locks, Begin(p, opened, locks)
  PROVE  /\ phase' \in [Sessions -> Phases]
         /\ wants' \in [Sessions -> SUBSET Locks]
         /\ owner' \in [Locks -> Sessions \cup {Nobody}]
         /\ \A q \in Sessions : phase'[q] = IF q = p THEN opened ELSE phase[q]
         /\ \A q \in Sessions : wants'[q] = IF q = p THEN locks ELSE wants[q]
         /\ owner' = owner
BY Apart DEF Begin, Shape

(* What ending one does.                                                     *)
LEMMA EndType ==
  ASSUME Shape, NEW p \in Sessions, NEW next \in Phases, End(p, next)
  PROVE  /\ phase' \in [Sessions -> Phases]
         /\ wants' \in [Sessions -> SUBSET Locks]
         /\ owner' \in [Locks -> Sessions \cup {Nobody}]
         /\ seen' \in [Sessions -> [Budgets -> [reserved : Nat, spent : Nat]]]
         /\ \A q \in Sessions : phase'[q] = IF q = p THEN next ELSE phase[q]
         /\ \A q \in Sessions : wants'[q] = IF q = p THEN {} ELSE wants[q]
         /\ \A l \in Locks : owner'[l] = IF owner[l] = p THEN Nobody ELSE owner[l]
         /\ \A q \in Sessions : q # p => seen'[q] = seen[q]
<1>1. Unread \in [Budgets -> [reserved : Nat, spent : Nat]]
  BY DEF Unread
<1>2. seen' \in [Sessions -> [Budgets -> [reserved : Nat, spent : Nat]]]
  BY <1>1 DEF End, Shape
<1>3. owner' \in [Locks -> Sessions \cup {Nobody}]
  BY DEF End, Shape
<1>4. QED
  BY <1>2, <1>3 DEF End, Shape

-----------------------------------------------------------------------------
(* The invariant holds initially.                                            *)
LEMMA LockInit == Init => LockInv
<1> SUFFICES ASSUME Init PROVE LockInv
  OBVIOUS
<1>1. Unread \in [Budgets -> [reserved : Nat, spent : Nat]]
  BY DEF Unread
<1>2. Shape
  BY <1>1, Apart DEF Init, Shape, Phases
<1>3. PhasesApart /\ WantsWhenOpen /\ NoLockAcrossCall
  BY Apart DEF Init, PhasesApart, WantsWhenOpen, NoLockAcrossCall
<1>4. LocksToTake
  BY Apart DEF Init, LocksToTake
<1>5. RowsInScope /\ RowsRead
  BY DEF Init, RowsInScope, RowsRead, Holds
<1>6. ReadsAreFresh
  BY Apart DEF Init, ReadsAreFresh
<1>7. QED
  BY <1>2, <1>3, <1>4, <1>5, <1>6 DEF LockInv

(* A task opens a transaction holding no lock, and wants all it is to take.  *)
LEMMA BeginReserveLocks ==
  ASSUME LockInv, NEW t \in Tasks, BeginReserve(t)
  PROVE  LockInv'
<1> USE DEF LockInv
<1>1. ScopesOf[t] \in SUBSET Locks /\ "reserving" \in OpenPhases
  BY LocksAssumption, Apart DEF OpenPhases
<1>2. /\ phase' \in [Sessions -> Phases] /\ wants' \in [Sessions -> SUBSET Locks]
      /\ \A q \in Sessions : phase'[q] = IF q = t THEN "reserving" ELSE phase[q]
      /\ \A q \in Sessions : wants'[q] = IF q = t THEN ScopesOf[t] ELSE wants[q]
      /\ owner' = owner
  BY <1>1, Apart, BeginType DEF BeginReserve
<1>3. Shape'
  BY <1>2 DEF Shape, BeginReserve, passVars, bookVars
<1>4. PhasesApart' /\ WantsWhenOpen'
  BY <1>1, <1>2, Apart DEF PhasesApart, WantsWhenOpen
<1>5. NoLockAcrossCall'
  BY <1>1, <1>2, Apart DEF NoLockAcrossCall, Shape
<1>6. LocksToTake'
  BY <1>2, Apart DEF LocksToTake, BeginReserve, passVars
<1>7. RowsInScope' /\ RowsRead'
  BY <1>2, Apart DEF RowsInScope, RowsRead, BeginReserve, passVars, bookVars
<1>8. ReadsAreFresh'
  BY <1>2, Apart DEF ReadsAreFresh, Fresh, BeginReserve, bookVars
<1>9. QED
  BY <1>3, <1>4, <1>5, <1>6, <1>7, <1>8

(* So for a resolution, whose rows are locked first.                         *)
LEMMA BeginResolveLocks ==
  ASSUME LockInv, NEW t \in Tasks, BeginResolve(t)
  PROVE  LockInv'
<1> USE DEF LockInv
<1>1. {t} \cup ScopesOf[t] \in SUBSET Locks /\ "resolving" \in OpenPhases
  BY LocksAssumption, Apart DEF OpenPhases
<1>2. /\ phase' \in [Sessions -> Phases] /\ wants' \in [Sessions -> SUBSET Locks]
      /\ \A q \in Sessions : phase'[q] = IF q = t THEN "resolving" ELSE phase[q]
      /\ \A q \in Sessions :
           wants'[q] = IF q = t THEN {t} \cup ScopesOf[t] ELSE wants[q]
      /\ owner' = owner
  BY <1>1, Apart, BeginType DEF BeginResolve
<1>3. Shape'
  BY <1>2 DEF Shape, BeginResolve, passVars, bookVars
<1>4. PhasesApart' /\ WantsWhenOpen'
  BY <1>1, <1>2, Apart DEF PhasesApart, WantsWhenOpen
<1>5. NoLockAcrossCall'
  BY <1>1, <1>2, Apart DEF NoLockAcrossCall, Shape
<1>6. LocksToTake'
  BY <1>2, Apart DEF LocksToTake, BeginResolve, passVars
<1>7. RowsInScope' /\ RowsRead'
  BY <1>2, Apart DEF RowsInScope, RowsRead, BeginResolve, passVars, bookVars
<1>8. ReadsAreFresh'
  BY <1>2, Apart DEF ReadsAreFresh, Fresh, BeginResolve, bookVars
<1>9. QED
  BY <1>3, <1>4, <1>5, <1>6, <1>7, <1>8

(* A task that is granted a lock on a budget reads the budget then.          *)
LEMMA AcquireLocks ==
  ASSUME LockInv, NEW p \in Sessions, Acquire(p)
  PROVE  LockInv'
<1> USE DEF LockInv
<1>1. PICK l \in NextLocks(p) :
        /\ Grantable(l)
        /\ owner' = [owner EXCEPT ![l] = p]
        /\ wants' = [wants EXCEPT ![p] = @ \ {l}]
        /\ seen' = IF p \in Tasks /\ l \in Budgets
                   THEN [seen EXCEPT ![p][l] = Fresh[l]] ELSE seen
        /\ UNCHANGED <<phase, passVars, bill, outcome, bookVars>>
  BY DEF Acquire
<1>2. l \in wants[p] /\ l \in Locks /\ owner[l] = Nobody
  BY <1>1 DEF NextLocks, Grantable, Shape
<1>3. phase[p] \in OpenPhases
  BY <1>2 DEF WantsWhenOpen
<1>4. /\ phase' = phase /\ batch' = batch /\ ambiguous' = ambiguous
      /\ bill' = bill /\ outcome' = outcome /\ hold' = hold /\ charge' = charge
      /\ reserved' = reserved /\ spent' = spent
  BY <1>1 DEF passVars, bookVars
<1>5. /\ owner' \in [Locks -> Sessions \cup {Nobody}]
      /\ \A m \in Locks : owner'[m] = IF m = l THEN p ELSE owner[m]
  BY <1>1, <1>2 DEF Shape
<1>6. /\ wants' \in [Sessions -> SUBSET Locks]
      /\ \A q \in Sessions :
           wants'[q] = IF q = p THEN wants[p] \ {l} ELSE wants[q]
  BY <1>1 DEF Shape
<1>7. /\ seen' \in [Sessions -> [Budgets -> [reserved : Nat, spent : Nat]]]
      /\ \A t \in Tasks, b \in Budgets :
           seen'[t][b] = IF t = p /\ b = l THEN Fresh[b] ELSE seen[t][b]
  <2>1. Fresh \in [Budgets -> [reserved : Nat, spent : Nat]]
    BY DEF Fresh, Shape
  <2>2. seen \in [Sessions -> [Budgets -> [reserved : Nat, spent : Nat]]]
    BY DEF Shape
  <2>3. CASE p \in Tasks /\ l \in Budgets
    <3>1. seen' = [seen EXCEPT ![p] = [seen[p] EXCEPT ![l] = Fresh[l]]]
      BY <1>1, <2>3
    <3>2. seen[p] \in [Budgets -> [reserved : Nat, spent : Nat]]
      BY <2>2
    <3>3. Fresh[l] \in [reserved : Nat, spent : Nat]
      BY <2>1, <2>3
    <3>4. /\ [seen[p] EXCEPT ![l] = Fresh[l]]
               \in [Budgets -> [reserved : Nat, spent : Nat]]
          /\ \A b \in Budgets : [seen[p] EXCEPT ![l] = Fresh[l]][b]
                                  = IF b = l THEN Fresh[b] ELSE seen[p][b]
      BY <3>2, <3>3, Zenon
    <3>5. seen' \in [Sessions -> [Budgets -> [reserved : Nat, spent : Nat]]]
      BY <2>2, <3>1, <3>4, Zenon
    <3>6. \A t \in Tasks : seen'[t] = IF t = p THEN [seen[p] EXCEPT ![l] = Fresh[l]]
                                               ELSE seen[t]
      BY <2>2, <3>1, Apart
    <3>7. QED
      BY <3>4, <3>5, <3>6
  <2>4. CASE ~(p \in Tasks /\ l \in Budgets)
    BY <1>1, <2>2, <2>4
  <2>5. QED
    BY <2>3, <2>4
<1>8. Shape'
  BY <1>4, <1>5, <1>6, <1>7 DEF Shape
<1>9. PhasesApart' /\ WantsWhenOpen'
  BY <1>4, <1>6 DEF PhasesApart, WantsWhenOpen
<1>10. NoLockAcrossCall'
  BY <1>3, <1>4, <1>5 DEF NoLockAcrossCall
<1>11. LocksToTake'
  <2>1. ASSUME NEW t \in Tasks, phase[t] \in {"reserving", "resolving"},
               NEW b \in ScopesOf[t]
        PROVE  b \in wants'[t] \/ owner'[b] = t
    <3>1. b \in Locks /\ t \in Sessions
      BY Apart, LocksAssumption
    <3>2. b \in wants[t] \/ owner[b] = t
      BY <2>1 DEF LocksToTake
    <3>3. QED
      BY <1>2, <1>5, <1>6, <3>1, <3>2, Apart
  <2>2. ASSUME NEW t \in Tasks, phase[t] = "resolving"
        PROVE  t \in wants'[t] \/ owner'[t] = t
    BY <1>2, <1>5, <1>6, <2>2, Apart DEF LocksToTake
  <2>3. ASSUME phase[Reconciler] = "reconciling", NEW m \in Locks,
               m \in wants[Reconciler] \/ owner[m] = Reconciler
        PROVE  m \in wants'[Reconciler] \/ owner'[m] = Reconciler
    BY <1>2, <1>5, <1>6, <2>3, Apart
  <2>4. \A h \in batch : h[1] \in Locks /\ h[2] \in Locks
    BY Apart DEF Shape, Holds
  <2>5. QED
    BY <1>4, <2>1, <2>2, <2>3, <2>4 DEF LocksToTake
<1>12. RowsInScope' /\ RowsRead'
  BY <1>4 DEF RowsInScope, RowsRead
<1>13. ReadsAreFresh'
  <2>1. Fresh' = Fresh
    BY <1>4 DEF Fresh
  <2>2. QED
    BY <1>2, <1>5, <1>7, <2>1, Apart DEF ReadsAreFresh
<1>14. QED
  BY <1>8, <1>9, <1>10, <1>11, <1>12, <1>13

(* A task that ends its transaction leaves the others' locks and reads alone, *)
(* whatever it wrote to the rows it had locked.                              *)
LEMMA TaskEnds ==
  ASSUME LockInv, NEW t \in Tasks, NEW next \in {"invoking", "resolved", "stopped"},
         End(t, next), UNCHANGED passVars,
         \A b \in Budgets : owner[b] # t =>
           reserved'[b] = reserved[b] /\ spent'[b] = spent[b]
  PROVE  /\ PhasesApart' /\ WantsWhenOpen' /\ NoLockAcrossCall' /\ LocksToTake'
         /\ ReadsAreFresh'
         /\ phase' \in [Sessions -> Phases] /\ wants' \in [Sessions -> SUBSET Locks]
         /\ owner' \in [Locks -> Sessions \cup {Nobody}]
         /\ seen' \in [Sessions -> [Budgets -> [reserved : Nat, spent : Nat]]]
         /\ \A q \in Tasks : phase'[q] = IF q = t THEN next ELSE phase[q]
<1> USE DEF LockInv
<1>1. next \in Phases /\ t \in Sessions
  BY Apart DEF Phases
<1>2. /\ phase' \in [Sessions -> Phases] /\ wants' \in [Sessions -> SUBSET Locks]
      /\ owner' \in [Locks -> Sessions \cup {Nobody}]
      /\ seen' \in [Sessions -> [Budgets -> [reserved : Nat, spent : Nat]]]
      /\ \A q \in Sessions : phase'[q] = IF q = t THEN next ELSE phase[q]
      /\ \A q \in Sessions : wants'[q] = IF q = t THEN {} ELSE wants[q]
      /\ \A l \in Locks : owner'[l] = IF owner[l] = t THEN Nobody ELSE owner[l]
      /\ \A q \in Sessions : q # t => seen'[q] = seen[q]
  BY <1>1, EndType
<1>3. PhasesApart' /\ WantsWhenOpen'
  BY <1>2, Apart DEF PhasesApart, WantsWhenOpen
<1>4. NoLockAcrossCall'
  BY <1>2, Apart DEF NoLockAcrossCall, Shape
<1>5. LocksToTake'
  <2>1. ASSUME NEW q \in Tasks, phase'[q] \in {"reserving", "resolving"},
               NEW b \in ScopesOf[q]
        PROVE  b \in wants'[q] \/ owner'[b] = q
    <3>1. b \in Locks /\ q \in Sessions /\ q # t
      BY <1>2, <2>1, Apart, LocksAssumption
    <3>2. b \in wants[q] \/ owner[b] = q
      BY <1>2, <2>1, <3>1 DEF LocksToTake
    <3>3. QED
      BY <1>2, <3>1, <3>2
  <2>2. ASSUME NEW q \in Tasks, phase'[q] = "resolving"
        PROVE  q \in wants'[q] \/ owner'[q] = q
    BY <1>2, <2>2, Apart DEF LocksToTake
  <2>3. ASSUME phase[Reconciler] = "reconciling", NEW m \in Locks,
               m \in wants[Reconciler] \/ owner[m] = Reconciler
        PROVE  m \in wants'[Reconciler] \/ owner'[m] = Reconciler
    BY <1>2, <2>3, Apart
  <2>4. \A h \in batch : h[1] \in Locks /\ h[2] \in Locks
    BY Apart DEF Shape, Holds
  <2>5. batch' = batch /\ phase'[Reconciler] = phase[Reconciler]
    BY <1>2, Apart DEF passVars
  <2>6. QED
    BY <2>1, <2>2, <2>3, <2>4, <2>5 DEF LocksToTake
<1>6. ReadsAreFresh'
  <2>1. SUFFICES ASSUME NEW q \in Tasks, NEW b \in Budgets, owner'[b] = q
                 PROVE  seen'[q][b] = Fresh'[b]
    BY DEF ReadsAreFresh
  <2>2. owner[b] = q /\ q # t
    BY <1>2, <2>1, Apart
  <2>3. Fresh'[b] = Fresh[b]
    BY <2>2 DEF Fresh
  <2>4. seen'[q] = seen[q]
    BY <1>2, <2>2, Apart
  <2>5. seen[q][b] = Fresh[b]
    BY <2>2 DEF ReadsAreFresh
  <2>6. QED
    BY <2>3, <2>4, <2>5
<1>7. QED
  BY <1>2, <1>3, <1>4, <1>5, <1>6, Apart

(* A reservation that goes through writes to budgets it has locked.          *)
LEMMA CommitReserveLocks ==
  ASSUME LockInv, NEW t \in Tasks, CommitReserve(t)
  PROVE  LockInv'
<1> USE DEF LockInv
<1>1. /\ phase[t] = "reserving" /\ wants[t] = {} /\ End(t, "invoking")
      /\ UNCHANGED <<passVars, bill, outcome, charge, spent>>
      /\ reserved' = [b \in Budgets |->
                        IF b \in ScopesOf[t] THEN seen[t][b].reserved + Estimate[t]
                                             ELSE reserved[b]]
      /\ hold' = [h \in Holds |-> IF h[1] = t /\ h[2] \in ScopesOf[t]
                                  THEN "ACTIVE" ELSE hold[h]]
  BY DEF CommitReserve
<1>2. \A b \in Budgets : owner[b] # t =>
        reserved'[b] = reserved[b] /\ spent'[b] = spent[b]
  BY <1>1 DEF LocksToTake
<1>3. UNCHANGED passVars
  BY <1>1
<1>4. /\ PhasesApart' /\ WantsWhenOpen' /\ NoLockAcrossCall' /\ LocksToTake'
      /\ ReadsAreFresh'
      /\ phase' \in [Sessions -> Phases] /\ wants' \in [Sessions -> SUBSET Locks]
      /\ owner' \in [Locks -> Sessions \cup {Nobody}]
      /\ seen' \in [Sessions -> [Budgets -> [reserved : Nat, spent : Nat]]]
      /\ \A q \in Tasks : phase'[q] = IF q = t THEN "invoking" ELSE phase[q]
  BY <1>1, <1>2, <1>3, TaskEnds
<1>5. reserved' \in [Budgets -> Nat]
  <2>1. \A b \in Budgets : seen[t][b].reserved \in Nat
    BY Apart DEF Shape
  <2>2. Estimate[t] \in Nat
    BY LocksAssumption
  <2>3. QED
    BY <1>1, <2>1, <2>2 DEF Shape
<1>6. hold' \in [Holds -> {"none", "ACTIVE", "SETTLED", "RELEASED", "EXPIRED"}]
  BY <1>1 DEF Shape
<1>7. Shape'
  BY <1>1, <1>4, <1>5, <1>6 DEF Shape, passVars
<1>8. RowsInScope'
  <2>1. SUFFICES ASSUME NEW q \in Tasks, NEW b \in Budgets
                 PROVE  /\ hold'[<<q, b>>] # "none" => b \in ScopesOf[q]
                        /\ phase'[q] \in {"recorded", "reserving"}
                             => hold'[<<q, b>>] = "none"
                        /\ hold'[<<q, b>>] \in {"none", "ACTIVE"}
                             => charge'[<<q, b>>] = 0
    BY DEF RowsInScope
  <2>2. hold'[<<q, b>>] = IF q = t /\ b \in ScopesOf[t] THEN "ACTIVE"
                                                        ELSE hold[<<q, b>>]
    BY <1>1 DEF Holds
  <2>3. charge' = charge
    BY <1>1
  <2>4. QED
    BY <1>1, <1>4, <2>2, <2>3 DEF RowsInScope
<1>9. RowsRead'
  BY <1>1 DEF RowsRead, Shape, passVars
<1>10. QED
  BY <1>4, <1>7, <1>8, <1>9

(* Any step of t's that touches no row and leaves it outside a transaction.  *)
LEMMA PlainEndLocks ==
  ASSUME LockInv, NEW t \in Tasks, End(t, "stopped"),
         UNCHANGED <<passVars, bill, outcome, bookVars>>
  PROVE  LockInv'
<1> USE DEF LockInv
<1>1. /\ UNCHANGED passVars /\ bill' = bill /\ outcome' = outcome /\ hold' = hold
      /\ charge' = charge /\ reserved' = reserved /\ spent' = spent
  BY DEF bookVars
<1>2. /\ PhasesApart' /\ WantsWhenOpen' /\ NoLockAcrossCall' /\ LocksToTake'
      /\ ReadsAreFresh'
      /\ phase' \in [Sessions -> Phases] /\ wants' \in [Sessions -> SUBSET Locks]
      /\ owner' \in [Locks -> Sessions \cup {Nobody}]
      /\ seen' \in [Sessions -> [Budgets -> [reserved : Nat, spent : Nat]]]
      /\ \A q \in Tasks : phase'[q] = IF q = t THEN "stopped" ELSE phase[q]
  BY <1>1, TaskEnds
<1>3. Shape'
  BY <1>1, <1>2 DEF Shape, passVars
<1>4. RowsInScope' /\ RowsRead'
  BY <1>1, <1>2 DEF RowsInScope, RowsRead, passVars
<1>5. QED
  BY <1>2, <1>3, <1>4

(* A call returns, and an outcome is recorded, while nothing is locked.      *)
LEMMA OutsideLocks ==
  ASSUME LockInv, NEW t \in Tasks, CallReturns(t) \/ Finish(t)
  PROVE  LockInv'
<1> USE DEF LockInv
<1>1. PICK next \in {"returned", "stopped"} :
        /\ phase' = [phase EXCEPT ![t] = next]
        /\ phase[t] \in {"invoking", "resolved"}
        /\ UNCHANGED <<lockVars, passVars, bookVars>>
  BY DEF CallReturns, Finish
<1>2. /\ wants' = wants /\ owner' = owner /\ seen' = seen /\ batch' = batch
      /\ ambiguous' = ambiguous /\ hold' = hold /\ charge' = charge
      /\ reserved' = reserved /\ spent' = spent
  BY <1>1 DEF lockVars, passVars, bookVars
<1>3. /\ phase' \in [Sessions -> Phases]
      /\ \A q \in Sessions : phase'[q] = IF q = t THEN next ELSE phase[q]
  BY <1>1, Apart DEF Shape, Phases
<1>4. bill' \in [Tasks -> Nat]
  <2>1. \/ \E n \in {0, Estimate[t]} : bill' = [bill EXCEPT ![t] = n]
        \/ bill' = bill
    BY DEF CallReturns, Finish
  <2>2. Estimate[t] \in Nat /\ bill \in [Tasks -> Nat]
    BY LocksAssumption DEF Shape
  <2>3. QED
    BY <2>1, <2>2
<1>5. outcome' \in [Tasks -> {"null", "recorded", "abandoned"}]
  BY DEF CallReturns, Finish, Shape
<1>6. Shape'
  BY <1>2, <1>3, <1>4, <1>5 DEF Shape
<1>7. phase[t] \notin OpenPhases /\ next \notin {"idle", "reconciling"}
  BY <1>1 DEF OpenPhases
<1>8. PhasesApart' /\ WantsWhenOpen'
  BY <1>2, <1>3, <1>7, Apart DEF PhasesApart, WantsWhenOpen
<1>9. NoLockAcrossCall'
  BY <1>2, <1>3, <1>7 DEF NoLockAcrossCall, Shape
<1>10. LocksToTake'
  BY <1>2, <1>3, Apart DEF LocksToTake
<1>11. RowsInScope' /\ RowsRead'
  BY <1>2, <1>3, Apart DEF RowsInScope, RowsRead
<1>12. ReadsAreFresh'
  BY <1>2 DEF ReadsAreFresh, Fresh
<1>13. QED
  BY <1>6, <1>8, <1>9, <1>10, <1>11, <1>12

(* A resolution writes to budgets it has locked, and the counters stay       *)
(* natural because _resolve clamps reserved at zero.                         *)
LEMMA CommitResolveLocks ==
  ASSUME LockInv, NEW t \in Tasks, CommitResolve(t)
  PROVE  LockInv'
<1> USE DEF LockInv
<1> DEFINE moved == {b \in Budgets : <<t, b>> \in HeldFor(t)}
<1>1. /\ phase[t] = "resolving" /\ wants[t] = {} /\ End(t, "resolved")
      /\ UNCHANGED passVars /\ bill' = bill /\ outcome' = outcome
      /\ reserved' = [b \in Budgets |->
                        IF b \in moved
                        THEN AtLeastZero(seen[t][b].reserved - Estimate[t])
                        ELSE reserved[b]]
      /\ spent' = [b \in Budgets |-> IF b \in moved
                                     THEN seen[t][b].spent + bill[t]
                                     ELSE spent[b]]
      /\ hold' = [h \in Holds |-> IF h \notin HeldFor(t) THEN hold[h]
                             ELSE IF bill[t] > 0 THEN "SETTLED" ELSE "RELEASED"]
      /\ charge' = [h \in Holds |-> IF h \in HeldFor(t) THEN bill[t]
                                                        ELSE charge[h]]
  BY DEF CommitResolve
<1>2. \A b \in moved : owner[b] = t
  <2>1. \A b \in moved : b \in ScopesOf[t]
    BY DEF HeldFor, RowsInScope
  <2>2. QED
    BY <1>1, <2>1 DEF LocksToTake
<1>3. \A b \in Budgets : owner[b] # t =>
        reserved'[b] = reserved[b] /\ spent'[b] = spent[b]
  BY <1>1, <1>2
<1>4. /\ PhasesApart' /\ WantsWhenOpen' /\ NoLockAcrossCall' /\ LocksToTake'
      /\ ReadsAreFresh'
      /\ phase' \in [Sessions -> Phases] /\ wants' \in [Sessions -> SUBSET Locks]
      /\ owner' \in [Locks -> Sessions \cup {Nobody}]
      /\ seen' \in [Sessions -> [Budgets -> [reserved : Nat, spent : Nat]]]
      /\ \A q \in Tasks : phase'[q] = IF q = t THEN "resolved" ELSE phase[q]
  BY <1>1, <1>3, TaskEnds
<1>5. \A b \in Budgets : seen[t][b].reserved \in Nat /\ seen[t][b].spent \in Nat
  BY Apart DEF Shape
<1>6. bill[t] \in Nat /\ Estimate[t] \in Nat
  BY LocksAssumption DEF Shape
<1>7. reserved' \in [Budgets -> Nat] /\ spent' \in [Budgets -> Nat]
  <2>1. \A b \in Budgets : /\ AtLeastZero(seen[t][b].reserved - Estimate[t]) \in Nat
                           /\ seen[t][b].spent + bill[t] \in Nat
    BY <1>5, <1>6 DEF AtLeastZero
  <2>2. QED
    BY <1>1, <2>1 DEF Shape
<1>8. hold' \in [Holds -> {"none", "ACTIVE", "SETTLED", "RELEASED", "EXPIRED"}]
  BY <1>1 DEF Shape
<1>9. charge' \in [Holds -> Nat]
  BY <1>1, <1>6 DEF Shape
<1>10. Shape'
  BY <1>1, <1>4, <1>7, <1>8, <1>9 DEF Shape, passVars
<1>11. RowsInScope'
  <2>1. SUFFICES ASSUME NEW q \in Tasks, NEW b \in Budgets
                 PROVE  /\ hold'[<<q, b>>] # "none" => b \in ScopesOf[q]
                        /\ phase'[q] \in {"recorded", "reserving"}
                             => hold'[<<q, b>>] = "none"
                        /\ hold'[<<q, b>>] \in {"none", "ACTIVE"}
                             => charge'[<<q, b>>] = 0
    BY DEF RowsInScope
  <2>2. <<q, b>> \in Holds
    BY DEF Holds
  <2>3. CASE <<q, b>> \in HeldFor(t)
    <3>1. hold[<<q, b>>] = "ACTIVE" /\ q = t
      BY <2>3 DEF HeldFor
    <3>2. hold'[<<q, b>>] \in {"SETTLED", "RELEASED"}
      BY <1>1, <2>2, <2>3
    <3>3. QED
      BY <1>4, <3>1, <3>2 DEF RowsInScope
  <2>4. CASE <<q, b>> \notin HeldFor(t)
    <3>1. hold'[<<q, b>>] = hold[<<q, b>>] /\ charge'[<<q, b>>] = charge[<<q, b>>]
      BY <1>1, <2>2, <2>4
    <3>2. QED
      BY <1>4, <3>1 DEF RowsInScope
  <2>5. QED
    BY <2>3, <2>4
<1>12. RowsRead'
  BY <1>1 DEF RowsRead, Shape, passVars
<1>13. QED
  BY <1>4, <1>10, <1>11, <1>12

(* A pass wants every row it is to change and the budget of each.            *)
LEMMA BeginReconcileLocks ==
  ASSUME LockInv, BeginReconcile
  PROVE  LockInv'
<1> USE DEF LockInv
<1>1. PICK X \in (SUBSET {t \in Tasks : HeldFor(t) # {}}) \ {{}} :
        /\ batch' = UNION {HeldFor(t) : t \in X}
        /\ \E C \in SUBSET batch' :
             /\ \A t \in X : Cardinality({h \in C : h[1] = t})
                               = IF outcome[t] = "null" THEN 1 ELSE 0
             /\ ambiguous' = C
        /\ Begin(Reconciler, "reconciling", X \cup {h[2] : h \in batch'})
  BY DEF BeginReconcile
<1>2. /\ batch' \subseteq Holds /\ ambiguous' \subseteq batch'
      /\ \A h \in batch' : h[1] \in X /\ h[2] \in Budgets
  BY <1>1 DEF HeldFor, Holds
<1> DEFINE locks == X \cup {h[2] : h \in batch'}
<1>3. locks \in SUBSET Locks
  BY <1>2, Apart
<1>4. "reconciling" \in OpenPhases
  BY DEF OpenPhases
<1>5. /\ phase' \in [Sessions -> Phases] /\ wants' \in [Sessions -> SUBSET Locks]
      /\ \A q \in Sessions : phase'[q] = IF q = Reconciler THEN "reconciling"
                                                           ELSE phase[q]
      /\ \A q \in Sessions : wants'[q] = IF q = Reconciler THEN locks ELSE wants[q]
      /\ owner' = owner
  <2>1. Shape /\ Reconciler \in Sessions /\ Begin(Reconciler, "reconciling", locks)
    BY <1>1, Apart
  <2> HIDE DEF locks, LockInv
  <2>2. QED
    BY <2>1, <1>3, <1>4, BeginType
<1>6. /\ seen' = [seen EXCEPT ![Reconciler] = Fresh]
      /\ bill' = bill /\ outcome' = outcome /\ hold' = hold /\ charge' = charge
      /\ reserved' = reserved /\ spent' = spent
  BY DEF BeginReconcile, bookVars
<1>7. /\ seen' \in [Sessions -> [Budgets -> [reserved : Nat, spent : Nat]]]
      /\ \A t \in Tasks : seen'[t] = seen[t]
  <2>1. Fresh \in [Budgets -> [reserved : Nat, spent : Nat]]
    BY DEF Fresh, Shape
  <2>2. QED
    BY <1>6, <2>1, Apart DEF Shape
<1>8. Shape'
  BY <1>2, <1>5, <1>6, <1>7 DEF Shape
<1>9. PhasesApart' /\ WantsWhenOpen'
  BY <1>4, <1>5, Apart DEF PhasesApart, WantsWhenOpen
<1>10. NoLockAcrossCall'
  BY <1>4, <1>5, Apart DEF NoLockAcrossCall, Shape
<1>11. LocksToTake'
  <2>1. \A h \in batch' : h[1] \in locks /\ h[2] \in locks
    BY <1>2
  <2>2. QED
    BY <1>5, <2>1, Apart DEF LocksToTake
<1>12. RowsInScope' /\ RowsRead'
  BY <1>1, <1>5, <1>6, Apart DEF RowsInScope, RowsRead, HeldFor
<1>13. ReadsAreFresh'
  BY <1>5, <1>6, <1>7 DEF ReadsAreFresh, Fresh
<1>14. QED
  BY <1>8, <1>9, <1>10, <1>11, <1>12, <1>13

(* A pass writes to rows and budgets it has locked by then.                  *)
LEMMA CommitReconcileLocks ==
  ASSUME LockInv, CommitReconcile
  PROVE  LockInv'
<1> USE DEF LockInv
<1> DEFINE mine == seen[Reconciler]
<1>1. /\ phase[Reconciler] = "reconciling" /\ wants[Reconciler] = {}
      /\ End(Reconciler, "idle")
      /\ batch' = {} /\ ambiguous' = {} /\ bill' = bill
      /\ reserved' = [b \in Budgets |->
                        IF batch \cap HoldsOn(b) # {}
                        THEN AtLeastZero(mine[b].reserved - OfBudget(batch, b))
                        ELSE reserved[b]]
      /\ spent' = [b \in Budgets |->
                     IF ambiguous \cap HoldsOn(b) # {}
                     THEN mine[b].spent + OfBudget(ambiguous, b)
                     ELSE spent[b]]
      /\ hold' = [h \in Holds |-> IF h \in ambiguous THEN "EXPIRED"
                                  ELSE IF h \in batch THEN "RELEASED" ELSE hold[h]]
      /\ charge' = [h \in Holds |-> IF h \in ambiguous THEN Amount[h]
                                    ELSE IF h \in batch THEN 0 ELSE charge[h]]
      /\ outcome' = [t \in Tasks |-> IF \E h \in ambiguous : h[1] = t
                                     THEN "abandoned" ELSE outcome[t]]
  BY DEF CommitReconcile
<1>2. batch \subseteq Holds /\ ambiguous \subseteq batch
  BY DEF Shape
<1>3. \A b \in Budgets : batch \cap HoldsOn(b) # {} => owner[b] = Reconciler
  BY <1>1, <1>2 DEF LocksToTake, HoldsOn
<1>4. \A b \in Budgets : owner[b] # Reconciler =>
        reserved'[b] = reserved[b] /\ spent'[b] = spent[b]
  BY <1>1, <1>2, <1>3
<1>5. Reconciler \in Sessions /\ "idle" \in Phases
  BY Apart DEF Phases
<1>6. /\ phase' \in [Sessions -> Phases] /\ wants' \in [Sessions -> SUBSET Locks]
      /\ owner' \in [Locks -> Sessions \cup {Nobody}]
      /\ seen' \in [Sessions -> [Budgets -> [reserved : Nat, spent : Nat]]]
      /\ \A q \in Sessions : phase'[q] = IF q = Reconciler THEN "idle" ELSE phase[q]
      /\ \A q \in Sessions : wants'[q] = IF q = Reconciler THEN {} ELSE wants[q]
      /\ \A l \in Locks : owner'[l] = IF owner[l] = Reconciler THEN Nobody
                                                               ELSE owner[l]
      /\ \A q \in Sessions : q # Reconciler => seen'[q] = seen[q]
  BY <1>1, <1>5, EndType
<1>7. reserved' \in [Budgets -> Nat] /\ spent' \in [Budgets -> Nat]
  <2>1. ASSUME NEW b \in Budgets
        PROVE  /\ AtLeastZero(mine[b].reserved - OfBudget(batch, b)) \in Nat
               /\ mine[b].spent + OfBudget(ambiguous, b) \in Nat
    <3>1. OfBudget(batch, b) \in Nat /\ OfBudget(ambiguous, b) \in Nat
      BY <1>2, RowSums
    <3>2. mine[b].reserved \in Nat /\ mine[b].spent \in Nat
      BY Apart DEF Shape
    <3>3. QED
      BY <3>1, <3>2 DEF AtLeastZero
  <2>2. QED
    BY <1>1, <2>1 DEF Shape
<1>8. hold' \in [Holds -> {"none", "ACTIVE", "SETTLED", "RELEASED", "EXPIRED"}]
  BY <1>1 DEF Shape
<1>9. charge' \in [Holds -> Nat]
  BY <1>1, RowSums DEF Shape
<1>10. outcome' \in [Tasks -> {"null", "recorded", "abandoned"}]
  BY <1>1 DEF Shape
<1>11. Shape'
  BY <1>1, <1>6, <1>7, <1>8, <1>9, <1>10 DEF Shape
<1>12. PhasesApart' /\ WantsWhenOpen'
  BY <1>6, Apart DEF PhasesApart, WantsWhenOpen
<1>13. NoLockAcrossCall'
  BY <1>6, Apart DEF NoLockAcrossCall, Shape
<1>14. LocksToTake'
  <2>1. ASSUME NEW t \in Tasks, phase'[t] \in {"reserving", "resolving"},
               NEW b \in ScopesOf[t]
        PROVE  b \in wants'[t] \/ owner'[b] = t
    <3>1. b \in Locks /\ t \in Sessions /\ t # Reconciler
      BY Apart, LocksAssumption
    <3>2. b \in wants[t] \/ owner[b] = t
      BY <1>6, <2>1, <3>1 DEF LocksToTake
    <3>3. QED
      BY <1>6, <3>1, <3>2
  <2>2. QED
    BY <1>6, <2>1, Apart DEF LocksToTake
<1>15. RowsInScope'
  <2>1. SUFFICES ASSUME NEW q \in Tasks, NEW b \in Budgets
                 PROVE  /\ hold'[<<q, b>>] # "none" => b \in ScopesOf[q]
                        /\ phase'[q] \in {"recorded", "reserving"}
                             => hold'[<<q, b>>] = "none"
                        /\ hold'[<<q, b>>] \in {"none", "ACTIVE"}
                             => charge'[<<q, b>>] = 0
    BY DEF RowsInScope
  <2>2. <<q, b>> \in Holds /\ phase'[q] = phase[q]
    BY <1>6, Apart DEF Holds
  <2>3. CASE <<q, b>> \in batch
    <3>1. hold[<<q, b>>] # "none"
      BY <2>3 DEF RowsRead
    <3>2. hold'[<<q, b>>] \in {"EXPIRED", "RELEASED"}
      BY <1>1, <2>2, <2>3
    <3>3. QED
      BY <2>2, <3>1, <3>2 DEF RowsInScope
  <2>4. CASE <<q, b>> \notin batch
    <3>1. hold'[<<q, b>>] = hold[<<q, b>>] /\ charge'[<<q, b>>] = charge[<<q, b>>]
      BY <1>1, <1>2, <2>2, <2>4
    <3>2. QED
      BY <2>2, <3>1 DEF RowsInScope
  <2>5. QED
    BY <2>3, <2>4
<1>16. ReadsAreFresh'
  <2>1. SUFFICES ASSUME NEW q \in Tasks, NEW b \in Budgets, owner'[b] = q
                 PROVE  seen'[q][b] = Fresh'[b]
    BY DEF ReadsAreFresh
  <2>2. owner[b] = q /\ q # Reconciler
    BY <1>6, <2>1, Apart
  <2>3. Fresh'[b] = Fresh[b]
    BY <1>4, <2>2 DEF Fresh
  <2>4. seen'[q] = seen[q]
    BY <1>6, <2>2, Apart
  <2>5. seen[q][b] = Fresh[b]
    BY <2>2 DEF ReadsAreFresh
  <2>6. QED
    BY <2>3, <2>4, <2>5
<1>17. RowsRead'
  BY <1>1 DEF RowsRead
<1>18. QED
  BY <1>11, <1>12, <1>13, <1>14, <1>15, <1>16, <1>17

(* A pass that is given up leaves everything as it was.                      *)
LEMMA AbandonPassLocks ==
  ASSUME LockInv, AbandonPass
  PROVE  LockInv'
<1> USE DEF LockInv
<1>1. /\ End(Reconciler, "idle") /\ batch' = {} /\ ambiguous' = {}
      /\ bill' = bill /\ outcome' = outcome /\ hold' = hold /\ charge' = charge
      /\ reserved' = reserved /\ spent' = spent
  BY DEF AbandonPass, bookVars
<1>2. Reconciler \in Sessions /\ "idle" \in Phases
  BY Apart DEF Phases
<1>3. /\ phase' \in [Sessions -> Phases] /\ wants' \in [Sessions -> SUBSET Locks]
      /\ owner' \in [Locks -> Sessions \cup {Nobody}]
      /\ seen' \in [Sessions -> [Budgets -> [reserved : Nat, spent : Nat]]]
      /\ \A q \in Sessions : phase'[q] = IF q = Reconciler THEN "idle" ELSE phase[q]
      /\ \A q \in Sessions : wants'[q] = IF q = Reconciler THEN {} ELSE wants[q]
      /\ \A l \in Locks : owner'[l] = IF owner[l] = Reconciler THEN Nobody
                                                               ELSE owner[l]
      /\ \A q \in Sessions : q # Reconciler => seen'[q] = seen[q]
  BY <1>1, <1>2, EndType
<1>4. Shape'
  BY <1>1, <1>3 DEF Shape
<1>5. PhasesApart' /\ WantsWhenOpen'
  BY <1>3, Apart DEF PhasesApart, WantsWhenOpen
<1>6. NoLockAcrossCall'
  BY <1>3, Apart DEF NoLockAcrossCall, Shape
<1>7. LocksToTake'
  <2>1. ASSUME NEW t \in Tasks, phase'[t] \in {"reserving", "resolving"},
               NEW b \in ScopesOf[t]
        PROVE  b \in wants'[t] \/ owner'[b] = t
    <3>1. b \in Locks /\ t \in Sessions /\ t # Reconciler
      BY Apart, LocksAssumption
    <3>2. b \in wants[t] \/ owner[b] = t
      BY <1>3, <2>1, <3>1 DEF LocksToTake
    <3>3. QED
      BY <1>3, <3>1, <3>2
  <2>2. QED
    BY <1>3, <2>1, Apart DEF LocksToTake
<1>8. RowsInScope' /\ RowsRead'
  BY <1>1, <1>3, Apart DEF RowsInScope, RowsRead
<1>9. ReadsAreFresh'
  <2>1. \A q \in Tasks, b \in Budgets : owner'[b] = q =>
          owner[b] = q /\ seen'[q] = seen[q]
    BY <1>3, Apart
  <2>2. Fresh' = Fresh
    BY <1>1 DEF Fresh
  <2>3. QED
    BY <2>1, <2>2 DEF ReadsAreFresh
<1>10. QED
  BY <1>4, <1>5, <1>6, <1>7, <1>8, <1>9

(* Every step keeps the invariant.                                           *)
LEMMA LockStep == LockInv /\ [Next]_vars => LockInv'
<1> SUFFICES ASSUME LockInv, [Next]_vars PROVE LockInv'
  OBVIOUS
<1>1. ASSUME NEW t \in Tasks, Step(t) PROVE LockInv'
  <2>1. CASE BeginReserve(t)
    BY <2>1, BeginReserveLocks
  <2>2. CASE CommitReserve(t)
    BY <2>2, CommitReserveLocks
  <2>3. CASE Deny(t)
    BY <2>3, PlainEndLocks DEF Deny
  <2>4. CASE CallReturns(t) \/ Finish(t)
    BY <2>4, OutsideLocks
  <2>5. CASE BeginResolve(t)
    BY <2>5, BeginResolveLocks
  <2>6. CASE CommitResolve(t)
    BY <2>6, CommitResolveLocks
  <2>7. CASE Crash(t)
    BY <2>7, PlainEndLocks DEF Crash
  <2>8. QED
    BY <1>1, <2>1, <2>2, <2>3, <2>4, <2>5, <2>6, <2>7 DEF Step
<1>2. CASE UNCHANGED vars
  BY <1>2 DEF vars, lockVars, passVars, bookVars, LockInv, Shape, PhasesApart,
     WantsWhenOpen, NoLockAcrossCall, LocksToTake, RowsInScope, RowsRead,
     ReadsAreFresh, Fresh
<1>3. QED
  BY <1>1, <1>2, AcquireLocks, BeginReconcileLocks, CommitReconcileLocks,
     AbandonPassLocks DEF Next

(* The invariant of the row locks: what every open transaction has locked,     *)
(* wants and has read.  It holds with any reconciler, alone or not.          *)
THEOREM RowLocks == Spec => []LockInv
<1>1. Init => LockInv
  BY LockInit
<1>2. LockInv /\ [Next]_vars => LockInv'
  BY LockStep
<1>3. QED
  BY <1>1, <1>2, PTL DEF Spec

(* Locks belong to open transactions: none is held across a provider call, by *)
(* a task that is between transactions or by one whose process has died      *)
(* (budget.py, lines 26-29).                                                 *)
THEOREM CallsHoldNoLock == Spec => []NoLockAcrossCall
<1>1. LockInv => NoLockAcrossCall
  BY DEF LockInv
<1>2. QED
  BY <1>1, RowLocks, PTL

-----------------------------------------------------------------------------
(* What a pass has read stays what is there, except where a task commits.    *)
LEMMA PassReadsStep ==
  ASSUME LockInv, PassReads, [Next]_vars
  PROVE  PassReads'
<1> USE DEF LockInv
<1>1. ASSUME phase'[Reconciler] = phase[Reconciler], batch' = batch,
             seen'[Reconciler] = seen[Reconciler], drifted' = drifted,
             NEW B \in SUBSET Budgets,
             stale' = IF phase[Reconciler] = "reconciling" THEN stale \cup B
                                                           ELSE stale,
             \A b \in Budgets : b \in B \/ Fresh'[b] = Fresh[b],
             \A h \in batch : hold[h] = "ACTIVE" => h[2] \in B \/ hold'[h] = "ACTIVE"
      PROVE  PassReads'
  BY <1>1 DEF PassReads
<1>2. ASSUME phase'[Reconciler] = phase[Reconciler], batch' = batch,
             seen'[Reconciler] = seen[Reconciler], UNCHANGED historyVars,
             UNCHANGED bookVars
      PROVE  PassReads'
  BY <1>2 DEF PassReads, historyVars, bookVars, Fresh
<1>3. ASSUME NEW t \in Tasks, NEW next \in Phases, End(t, next)
      PROVE  /\ phase'[Reconciler] = phase[Reconciler]
             /\ seen'[Reconciler] = seen[Reconciler]
  BY <1>3, EndType, Apart
<1>4. ASSUME NEW t \in Tasks, BeginReserve(t) \/ BeginResolve(t) PROVE PassReads'
  <2>1. /\ phase' \in {[phase EXCEPT ![t] = "reserving"],
                       [phase EXCEPT ![t] = "resolving"]}
        /\ batch' = batch /\ seen' = seen /\ UNCHANGED historyVars
        /\ UNCHANGED bookVars
    BY <1>4 DEF BeginReserve, BeginResolve, Begin, passVars
  <2>2. phase'[Reconciler] = phase[Reconciler]
    BY <2>1, Apart DEF Shape
  <2>3. QED
    BY <1>2, <2>1, <2>2
<1>5. ASSUME NEW t \in Tasks, CommitReserve(t) PROVE PassReads'
  <2>1. /\ End(t, "invoking") /\ Overtakes(ScopesOf[t])
        /\ batch' = batch /\ spent' = spent
        /\ reserved' = [b \in Budgets |->
                          IF b \in ScopesOf[t] THEN seen[t][b].reserved + Estimate[t]
                                               ELSE reserved[b]]
        /\ hold' = [h \in Holds |-> IF h[1] = t /\ h[2] \in ScopesOf[t]
                                    THEN "ACTIVE" ELSE hold[h]]
    BY <1>5 DEF CommitReserve, passVars
  <2>2. ScopesOf[t] \in SUBSET Budgets /\ "invoking" \in Phases
    BY LocksAssumption DEF Phases
  <2>3. \A b \in Budgets : b \in ScopesOf[t] \/ Fresh'[b] = Fresh[b]
    BY <2>1 DEF Fresh
  <2>4. \A h \in batch : hold[h] = "ACTIVE" => hold'[h] = "ACTIVE"
    BY <2>1 DEF Shape
  <2>5. /\ stale' = IF phase[Reconciler] = "reconciling" THEN stale \cup ScopesOf[t]
                                                         ELSE stale
        /\ drifted' = drifted
    BY <2>1 DEF Overtakes
  <2>6. /\ phase'[Reconciler] = phase[Reconciler]
        /\ seen'[Reconciler] = seen[Reconciler]
    BY <1>3, <2>1, <2>2
  <2>7. QED
    BY <1>1, <2>1, <2>2, <2>3, <2>4, <2>5, <2>6
<1>6. ASSUME NEW t \in Tasks, CommitResolve(t) PROVE PassReads'
  <2> DEFINE moved == {b \in Budgets : <<t, b>> \in HeldFor(t)}
  <2>1. /\ End(t, "resolved") /\ Overtakes(moved) /\ batch' = batch
        /\ \A b \in Budgets : b \in moved \/ /\ reserved'[b] = reserved[b]
                                             /\ spent'[b] = spent[b]
        /\ hold' = [h \in Holds |-> IF h \notin HeldFor(t) THEN hold[h]
                             ELSE IF bill[t] > 0 THEN "SETTLED" ELSE "RELEASED"]
    BY <1>6 DEF CommitResolve, passVars
  <2>2. moved \in SUBSET Budgets /\ "resolved" \in Phases
    BY DEF Phases
  <2>3. \A b \in Budgets : b \in moved \/ Fresh'[b] = Fresh[b]
    BY <2>1 DEF Fresh
  <2>4. \A h \in batch : hold[h] = "ACTIVE" => h[2] \in moved \/ hold'[h] = "ACTIVE"
    <3>1. TAKE h \in batch
    <3>2. h \in Holds
      BY DEF Shape
    <3>3. CASE h \in HeldFor(t)
      <4>1. h = <<t, h[2]>> /\ h[2] \in Budgets
        BY <3>2, <3>3 DEF HeldFor, Holds
      <4>2. QED
        BY <3>3, <4>1
    <3>4. CASE h \notin HeldFor(t)
      BY <2>1, <3>2, <3>4
    <3>5. QED
      BY <3>3, <3>4
  <2>5. /\ stale' = IF phase[Reconciler] = "reconciling" THEN stale \cup moved
                                                         ELSE stale
        /\ drifted' = drifted
    BY <2>1 DEF Overtakes
  <2>6. /\ phase'[Reconciler] = phase[Reconciler]
        /\ seen'[Reconciler] = seen[Reconciler]
    BY <1>3, <2>1, <2>2
  <2> HIDE DEF moved
  <2>7. QED
    BY <1>1, <2>1, <2>2, <2>3, <2>4, <2>5, <2>6
<1>7. ASSUME NEW t \in Tasks, Deny(t) \/ Crash(t) PROVE PassReads'
  <2>1. /\ End(t, "stopped") /\ batch' = batch /\ UNCHANGED historyVars
        /\ UNCHANGED bookVars
    BY <1>7 DEF Deny, Crash, passVars
  <2>2. "stopped" \in Phases
    BY DEF Phases
  <2>3. QED
    BY <1>2, <1>3, <2>1, <2>2
<1>8. ASSUME NEW t \in Tasks, CallReturns(t) \/ Finish(t) PROVE PassReads'
  <2>1. /\ phase' \in {[phase EXCEPT ![t] = "returned"],
                       [phase EXCEPT ![t] = "stopped"]}
        /\ batch' = batch /\ seen' = seen /\ UNCHANGED historyVars
        /\ UNCHANGED bookVars
    BY <1>8 DEF CallReturns, Finish, lockVars, passVars
  <2>2. phase'[Reconciler] = phase[Reconciler]
    BY <2>1, Apart DEF Shape
  <2>3. QED
    BY <1>2, <2>1, <2>2
<1>9. ASSUME NEW p \in Sessions, Acquire(p) PROVE PassReads'
  <2>1. /\ phase' = phase /\ batch' = batch /\ UNCHANGED historyVars
        /\ UNCHANGED bookVars
    BY <1>9 DEF Acquire, passVars
  <2>2. seen'[Reconciler] = seen[Reconciler]
    BY <1>9, Apart DEF Acquire, Shape
  <2>3. QED
    BY <1>2, <2>1, <2>2
<1>10. ASSUME BeginReconcile PROVE PassReads'
  <2>1. PICK X \in (SUBSET {t \in Tasks : HeldFor(t) # {}}) \ {{}} :
          /\ batch' = UNION {HeldFor(t) : t \in X}
          /\ Begin(Reconciler, "reconciling", X \cup {h[2] : h \in batch'})
    BY <1>10 DEF BeginReconcile
  <2>2. /\ seen' = [seen EXCEPT ![Reconciler] = Fresh]
        /\ hold' = hold /\ reserved' = reserved /\ spent' = spent
        /\ stale' = stale /\ drifted' = drifted
    BY <1>10 DEF BeginReconcile, bookVars, historyVars
  <2>3. phase' = [phase EXCEPT ![Reconciler] = "reconciling"]
    BY <2>1 DEF Begin
  <2>4. phase'[Reconciler] = "reconciling"
    BY <2>3, Apart DEF Shape
  <2>5. seen'[Reconciler] = Fresh /\ Fresh' = Fresh
    BY <2>2, Apart DEF Shape, Fresh
  <2>6. \A h \in batch' : hold'[h] = "ACTIVE"
    BY <2>1, <2>2 DEF HeldFor
  <2>7. QED
    BY <2>2, <2>4, <2>5, <2>6 DEF PassReads
<1>11. ASSUME CommitReconcile \/ AbandonPass PROVE PassReads'
  <2>1. /\ batch' = {} /\ stale' = {}
        /\ phase' = [phase EXCEPT ![Reconciler] = "idle"]
        /\ drifted' \subseteq drifted \cup stale
    BY <1>11 DEF CommitReconcile, AbandonPass, End
  <2>2. phase'[Reconciler] = "idle"
    BY <2>1, Apart DEF Shape
  <2>3. QED
    BY <2>1, <2>2 DEF PassReads
<1>12. CASE UNCHANGED vars
  BY <1>2, <1>12 DEF vars, lockVars, passVars
<1>13. QED
  BY <1>4, <1>5, <1>6, <1>7, <1>8, <1>9, <1>10, <1>11, <1>12 DEF Next, Step

(* A call is charged nothing or its estimate.                                *)
LEMMA BillStep ==
  ASSUME LockInv, BillIsEstimate, [Next]_vars
  PROVE  BillIsEstimate'
<1>1. ASSUME NEW t \in Tasks, CallReturns(t) PROVE BillIsEstimate'
  BY <1>1 DEF CallReturns, BillIsEstimate, LockInv, Shape
<1>2. CASE bill' = bill
  BY <1>2 DEF BillIsEstimate
<1>3. QED
  BY <1>1, <1>2 DEF Next, Step, BeginReserve, CommitReserve, Deny, BeginResolve,
     CommitResolve, Finish, Crash, Acquire, BeginReconcile, CommitReconcile,
     AbandonPass, vars

-----------------------------------------------------------------------------
(* Resolving ACTIVE rows of a budget, each for at most its amount, with        *)
(* counters computed from what is there, keeps them equal to the sums and    *)
(* frees room: the argument common to a task's resolution and to a pass.     *)
LEMMA CloseRows ==
  ASSUME Shape, RowsInScope, charge' \in [Holds -> Nat],
         NEW b \in Budgets, Balanced(b), spent[b] + reserved[b] <= HardLimit[b],
         NEW B, B \subseteq Active \cap HoldsOn(b),
         Active' \cap HoldsOn(b) = (Active \cap HoldsOn(b)) \ B,
         \A h \in HoldsOn(b) : h \notin B => charge'[h] = charge[h],
         \A h \in B : charge'[h] <= Amount[h],
         reserved'[b] = AtLeastZero(reserved[b] - SumOver(B, Amount)),
         spent'[b] = spent[b] + SumOver(B, charge')
  PROVE  Balanced(b)' /\ spent'[b] + reserved'[b] <= HardLimit[b]
<1> DEFINE H == HoldsOn(b)
           A == Active \cap H
           heldA == SumOver(A, Amount)
           heldB == SumOver(B, Amount)
           rest  == SumOver(A \ B, Amount)
           paid  == SumOver(B, charge')
           was   == SumOver(H, charge)
<1>1. H \subseteq Holds /\ A \subseteq H /\ B \subseteq A /\ B \subseteq H
  BY DEF HoldsOn, Active
<1>2. IsFiniteSet(H) /\ IsFiniteSet(A) /\ IsFiniteSet(B) /\ IsFiniteSet(A \ B)
  <2>1. A \ B \subseteq Holds /\ A \subseteq Holds /\ B \subseteq Holds
    BY <1>1
  <2>2. QED
    BY <1>1, <2>1, RowSums, FS_Subset
<1>3. \A h \in H : Amount[h] \in Nat /\ charge[h] \in Nat /\ charge'[h] \in Nat
  BY <1>1, RowSums DEF Shape
<1>4. \A h \in B : charge[h] = 0 /\ charge'[h] <= Amount[h]
  BY DEF RowsInScope, Active, Holds
<1>5. \A h \in H : h \notin B => charge'[h] = charge[h]
  OBVIOUS
<1>6. /\ reserved[b] = heldA /\ spent[b] = was
      /\ spent[b] + reserved[b] <= HardLimit[b] /\ HardLimit[b] \in Nat
  BY LocksAssumption DEF Balanced, OfBudget, Active
<1>7. reserved'[b] = AtLeastZero(reserved[b] - heldB) /\ spent'[b] = spent[b] + paid
  OBVIOUS
<1>8. OfBudget(Active', b) = rest
  BY DEF OfBudget
<1> HIDE DEF H, A
<1>9. heldA = rest + heldB
  <2>1. \A h \in A : Amount[h] \in Nat
    BY <1>1, <1>3
  <2>2. QED
    BY <1>1, <1>2, <2>1, SumRemove
<1>10. heldB \in Nat /\ rest \in Nat /\ was \in Nat /\ paid \in Nat
  <2>1. /\ \A h \in B : Amount[h] \in Nat /\ charge'[h] \in Nat
        /\ \A h \in A \ B : Amount[h] \in Nat
        /\ \A h \in H : charge[h] \in Nat
    BY <1>1, <1>3
  <2>2. QED
    BY <1>2, <2>1, SumType
<1>11. SumOver(H, charge') = was + paid
  <2>1. /\ \A h \in H : charge[h] \in Nat /\ charge'[h] \in Nat
        /\ \A h \in B : charge[h] = 0
    BY <1>3, <1>4
  <2>2. QED
    BY <1>1, <1>2, <1>5, <2>1, SumCharge
<1>12. paid <= heldB
  <2>1. \A h \in B : Amount[h] \in Nat /\ charge'[h] \in Nat /\ charge'[h] <= Amount[h]
    BY <1>1, <1>3, <1>4
  <2>2. QED
    BY <1>2, <2>1, SumMonotone
<1> HIDE DEF heldA, heldB, rest, paid, was
<1>13. reserved'[b] = rest
  BY <1>6, <1>7, <1>9, <1>10 DEF AtLeastZero
<1>14. spent'[b] + reserved'[b] <= HardLimit[b]
  BY <1>6, <1>7, <1>9, <1>10, <1>12, <1>13
<1>15. reserved'[b] = OfBudget(Active', b) /\ spent'[b] = SumOver(HoldsOn(b), charge')
  BY <1>6, <1>7, <1>8, <1>11, <1>13 DEF H
<1>16. QED
  BY <1>14, <1>15 DEF Balanced, Active

(* What a task computes from is what is there.                               *)
LEMMA TaskReads ==
  ASSUME ReadsAreFresh, NEW t \in Tasks, NEW b \in Budgets, owner[b] = t
  PROVE  seen[t][b].reserved = reserved[b] /\ seen[t][b].spent = spent[b]
<1>1. seen[t][b] = Fresh[b]
  BY DEF ReadsAreFresh
<1>2. Fresh[b] = [reserved |-> reserved[b], spent |-> spent[b]]
  BY DEF Fresh
<1>3. QED
  BY <1>1, <1>2

(* A reservation adds its estimate to each budget of its scopes, where there *)
(* was room for it.                                                          *)
LEMMA ReserveBooks ==
  ASSUME LockInv, Conservation, WithinLimit, NEW t \in Tasks, CommitReserve(t)
  PROVE  Conservation' /\ WithinLimit'
<1> USE DEF LockInv
<1>1. /\ phase[t] = "reserving" /\ wants[t] = {} /\ spent' = spent /\ charge' = charge
      /\ \A b \in ScopesOf[t] : Headroom(t, b) >= Estimate[t]
      /\ reserved' = [b \in Budgets |->
                        IF b \in ScopesOf[t] THEN seen[t][b].reserved + Estimate[t]
                                             ELSE reserved[b]]
      /\ hold' = [h \in Holds |-> IF h[1] = t /\ h[2] \in ScopesOf[t]
                                  THEN "ACTIVE" ELSE hold[h]]
      /\ drifted' = drifted
  BY DEF CommitReserve, Overtakes
<1>2. SUFFICES ASSUME NEW b \in Budgets, b \notin drifted
               PROVE  /\ reserved'[b] = OfBudget(Active', b)
                      /\ spent'[b] = SumOver(HoldsOn(b), charge')
                      /\ spent'[b] + reserved'[b] <= HardLimit[b]
  BY <1>1 DEF Conservation, Balanced, WithinLimit, Active
<1>3. /\ reserved[b] = OfBudget(Active, b)
      /\ spent[b] = SumOver(HoldsOn(b), charge)
      /\ spent[b] + reserved[b] <= HardLimit[b]
  BY <1>2 DEF Conservation, Balanced, WithinLimit, Active
<1>4. CASE b \in ScopesOf[t]
  <2> DEFINE h == <<t, b>>
             A == Active \cap HoldsOn(b)
  <2>1. h \in Holds /\ hold[h] = "none"
    BY <1>1 DEF Holds, RowsInScope
  <2>2. Active' \cap HoldsOn(b) = A \cup {h}
    BY <1>1, <1>4 DEF Active, HoldsOn, Holds
  <2>3. h \notin A
    BY <2>1 DEF Active
  <2>4. IsFiniteSet(A)
    <3>1. A \subseteq Holds
      BY DEF Active
    <3>2. QED
      BY <3>1, RowSums, FS_Subset
  <2>5. Amount[h] = Estimate[t]
    BY <2>1, RowSums
  <2>6. \A x \in A \cup {h} : Amount[x] \in Nat
    BY <2>1, RowSums DEF Active
  <2>7. Estimate[t] \in Nat /\ reserved[b] \in Nat /\ spent[b] \in Nat
        /\ HardLimit[b] \in Nat
    BY LocksAssumption DEF Shape
  <2>8. owner[b] = t
    BY <1>1, <1>4 DEF LocksToTake
  <2>9. seen[t][b].reserved = reserved[b] /\ seen[t][b].spent = spent[b]
    BY <2>8, TaskReads
  <2>10. reserved'[b] = reserved[b] + Estimate[t]
    BY <1>1, <1>4, <2>9
  <2>11. HardLimit[b] - spent[b] - reserved[b] >= Estimate[t]
    BY <1>1, <1>4, <2>9 DEF Headroom
  <2>12. spent'[b] + reserved'[b] <= HardLimit[b]
    BY <1>1, <2>7, <2>10, <2>11
  <2>13. OfBudget(Active', b) = SumOver(A \cup {h}, Amount)
    BY <2>2 DEF OfBudget
  <2> HIDE DEF h, A
  <2>14. SumOver(A \cup {h}, Amount) = SumOver(A, Amount) + Amount[h]
    BY <2>3, <2>4, <2>6, SumOpen
  <2>15. SumOver(A, Amount) = reserved[b]
    BY <1>3 DEF OfBudget, A
  <2>16. QED
    BY <1>1, <1>3, <2>5, <2>10, <2>12, <2>13, <2>14, <2>15
<1>5. CASE b \notin ScopesOf[t]
  <2>1. Active' \cap HoldsOn(b) = Active \cap HoldsOn(b)
    BY <1>1, <1>5 DEF Active, HoldsOn
  <2>2. reserved'[b] = reserved[b]
    BY <1>1, <1>5
  <2>3. QED
    BY <1>1, <1>3, <2>1, <2>2 DEF OfBudget
<1>6. QED
  BY <1>4, <1>5

(* A task resolving its rows closes those still ACTIVE.                      *)
LEMMA ResolveBooks ==
  ASSUME LockInv, LockInv', BillIsEstimate, Conservation, WithinLimit,
         NEW t \in Tasks, CommitResolve(t)
  PROVE  Conservation' /\ WithinLimit'
<1> USE DEF LockInv
<1> DEFINE moved == {b \in Budgets : <<t, b>> \in HeldFor(t)}
<1>1. /\ phase[t] = "resolving" /\ wants[t] = {} /\ drifted' = drifted
      /\ reserved' = [b \in Budgets |->
                        IF b \in moved
                        THEN AtLeastZero(seen[t][b].reserved - Estimate[t])
                        ELSE reserved[b]]
      /\ spent' = [b \in Budgets |-> IF b \in moved
                                     THEN seen[t][b].spent + bill[t]
                                     ELSE spent[b]]
      /\ hold' = [h \in Holds |-> IF h \notin HeldFor(t) THEN hold[h]
                             ELSE IF bill[t] > 0 THEN "SETTLED" ELSE "RELEASED"]
      /\ charge' = [h \in Holds |-> IF h \in HeldFor(t) THEN bill[t] ELSE charge[h]]
  BY DEF CommitResolve, Overtakes
<1>2. bill[t] \in Nat /\ Estimate[t] \in Nat /\ bill[t] <= Estimate[t]
  <2>1. Estimate[t] \in Nat
    BY LocksAssumption
  <2>2. bill[t] \in {0, Estimate[t]}
    BY DEF BillIsEstimate
  <2>3. QED
    BY <2>1, <2>2
<1>3. SUFFICES ASSUME NEW b \in Budgets, b \notin drifted
               PROVE  Balanced(b)' /\ spent'[b] + reserved'[b] <= HardLimit[b]
  BY <1>1 DEF Conservation, WithinLimit
<1>4. Balanced(b) /\ spent[b] + reserved[b] <= HardLimit[b]
  BY <1>3 DEF Conservation, WithinLimit
<1>5. charge' \in [Holds -> Nat] /\ reserved[b] \in Nat /\ spent[b] \in Nat
  BY DEF Shape
<1> DEFINE h == <<t, b>>
           B == HeldFor(t) \cap HoldsOn(b)
<1>6. B \subseteq Active \cap HoldsOn(b)
  BY DEF HeldFor, Active, HoldsOn
<1>7. Active' \cap HoldsOn(b) = (Active \cap HoldsOn(b)) \ B
  BY <1>1 DEF Active, HoldsOn
<1>8. \A x \in HoldsOn(b) : x \notin B => charge'[x] = charge[x]
  BY <1>1 DEF HoldsOn
<1>9. \A x \in B : charge'[x] = bill[t] /\ Amount[x] = Estimate[t]
  BY <1>1, RowSums DEF HeldFor, HoldsOn
<1>10. \A x \in B : charge'[x] <= Amount[x]
  BY <1>2, <1>9
<1>11. /\ reserved'[b] = AtLeastZero(reserved[b] - SumOver(B, Amount))
       /\ spent'[b] = spent[b] + SumOver(B, charge')
  <2>1. CASE h \in HeldFor(t)
    <3>1. B = {h}
      BY <2>1 DEF HeldFor, HoldsOn, Holds
    <3>2. SumOver({h}, Amount) = Estimate[t] /\ SumOver({h}, charge') = bill[t]
      <4>1. Amount[h] = Estimate[t] /\ charge'[h] = bill[t]
        BY <1>9, <3>1
      <4> HIDE DEF h
      <4>2. QED
        BY <1>2, <4>1, SumSingleton
    <3>3. b \in ScopesOf[t]
      BY <2>1 DEF RowsInScope, HeldFor
    <3>4. owner[b] = t
      BY <1>1, <3>3 DEF LocksToTake
    <3>5. seen[t][b].reserved = reserved[b] /\ seen[t][b].spent = spent[b]
      BY <3>4, TaskReads
    <3>6. reserved'[b] = AtLeastZero(reserved[b] - Estimate[t])
          /\ spent'[b] = spent[b] + bill[t]
      BY <1>1, <2>1, <3>5
    <3>7. QED
      BY <3>1, <3>2, <3>6
  <2>2. CASE h \notin HeldFor(t)
    <3>1. B = {}
      BY <2>2 DEF HeldFor, HoldsOn, Holds
    <3>2. SumOver({}, Amount) = 0 /\ SumOver({}, charge') = 0
      BY SumEmpty
    <3>3. reserved'[b] = reserved[b] /\ spent'[b] = spent[b]
      BY <1>1, <2>2
    <3>4. reserved[b] = AtLeastZero(reserved[b] - 0) /\ spent[b] = spent[b] + 0
      BY <1>5 DEF AtLeastZero
    <3>5. QED
      BY <3>1, <3>2, <3>3, <3>4
  <2>3. QED
    BY <2>1, <2>2
<1> HIDE DEF B, h, moved
<1>12. QED
  BY <1>4, <1>5, <1>6, <1>7, <1>8, <1>10, <1>11, CloseRows

(* A pass closes the rows it read and charges some of them.  It does right by *)
(* every budget that no task has written since.                              *)
LEMMA ReconcileBooks ==
  ASSUME LockInv, LockInv', PassReads, Conservation, WithinLimit, CommitReconcile
  PROVE  Conservation' /\ WithinLimit'
<1> USE DEF LockInv
<1> DEFINE mine == seen[Reconciler]
<1>1. /\ phase[Reconciler] = "reconciling"
      /\ reserved' = [b \in Budgets |->
                        IF batch \cap HoldsOn(b) # {}
                        THEN AtLeastZero(mine[b].reserved - OfBudget(batch, b))
                        ELSE reserved[b]]
      /\ spent' = [b \in Budgets |->
                     IF ambiguous \cap HoldsOn(b) # {}
                     THEN mine[b].spent + OfBudget(ambiguous, b)
                     ELSE spent[b]]
      /\ hold' = [h \in Holds |-> IF h \in ambiguous THEN "EXPIRED"
                                  ELSE IF h \in batch THEN "RELEASED" ELSE hold[h]]
      /\ charge' = [h \in Holds |-> IF h \in ambiguous THEN Amount[h]
                                    ELSE IF h \in batch THEN 0 ELSE charge[h]]
      /\ drifted' = drifted \cup (stale \cap {h[2] : h \in batch})
  BY DEF CommitReconcile
<1>2. ambiguous \subseteq batch /\ batch \subseteq Holds
  BY DEF Shape
<1>3. SUFFICES ASSUME NEW b \in Budgets, b \notin drifted'
               PROVE  Balanced(b)' /\ spent'[b] + reserved'[b] <= HardLimit[b]
  BY DEF Conservation, WithinLimit
<1>4. Balanced(b) /\ spent[b] + reserved[b] <= HardLimit[b]
  BY <1>1, <1>3 DEF Conservation, WithinLimit
<1>5. charge' \in [Holds -> Nat] /\ reserved[b] \in Nat /\ spent[b] \in Nat
  BY DEF Shape
<1> DEFINE D == batch \cap HoldsOn(b)
           C == ambiguous \cap HoldsOn(b)
<1>6. D # {} => b \notin stale
  BY <1>1, <1>3 DEF HoldsOn
<1>7. D # {} => mine[b].reserved = reserved[b] /\ mine[b].spent = spent[b]
  <2>1. Fresh[b] = [reserved |-> reserved[b], spent |-> spent[b]]
    BY DEF Fresh
  <2>2. D # {} => mine[b] = Fresh[b]
    BY <1>1, <1>6 DEF PassReads
  <2>3. QED
    BY <2>1, <2>2
<1>8. D \subseteq Active \cap HoldsOn(b)
  BY <1>1, <1>2, <1>6 DEF PassReads, Active, HoldsOn
<1>9. Active' \cap HoldsOn(b) = (Active \cap HoldsOn(b)) \ D
  BY <1>1, <1>2 DEF Active, HoldsOn
<1>10. \A h \in HoldsOn(b) : h \notin D => charge'[h] = charge[h]
  BY <1>1, <1>2 DEF HoldsOn
<1>11. /\ \A h \in C : charge'[h] = Amount[h]
       /\ \A h \in D : h \notin C => charge'[h] = 0
  BY <1>1, <1>2 DEF HoldsOn
<1>12. \A h \in D : charge'[h] <= Amount[h]
  BY <1>2, <1>11, RowSums
<1>13. reserved'[b] = AtLeastZero(reserved[b] - SumOver(D, Amount))
  <2>1. CASE D # {}
    BY <1>1, <1>7, <2>1 DEF OfBudget
  <2>2. CASE D = {}
    <3>1. SumOver(D, Amount) = 0
      BY <2>2, SumEmpty
    <3>2. reserved'[b] = reserved[b]
      BY <1>1, <2>2
    <3>3. QED
      BY <1>5, <3>1, <3>2 DEF AtLeastZero
  <2>3. QED
    BY <2>1, <2>2
<1>14. C \subseteq D /\ D \subseteq Holds
  BY <1>2
<1>15. spent'[b] = spent[b] + SumOver(C, Amount)
  <2>1. CASE C # {}
    BY <1>1, <1>7, <1>14, <2>1 DEF OfBudget
  <2>2. CASE C = {}
    <3>1. SumOver(C, Amount) = 0
      BY <2>2, SumEmpty
    <3>2. spent'[b] = spent[b]
      BY <1>1, <2>2
    <3>3. QED
      BY <1>5, <3>1, <3>2
  <2>3. QED
    BY <2>1, <2>2
<1>16. spent'[b] = spent[b] + SumOver(D, charge')
  <2>1. IsFiniteSet(D) /\ IsFiniteSet(C)
    BY <1>14, RowSums, FS_Subset
  <2>2. /\ \A h \in D : charge'[h] \in Nat
        /\ \A h \in C : Amount[h] \in Nat /\ charge'[h] = Amount[h]
        /\ \A h \in D \ C : charge'[h] = 0
    BY <1>5, <1>11, <1>14, RowSums
  <2> HIDE DEF C, D
  <2>3. SumOver(D, charge') = SumOver(D \ C, charge') + SumOver(C, charge')
    BY <1>14, <2>1, <2>2, SumRemove
  <2>4. SumOver(D \ C, charge') = 0
    BY <2>2, SumZero
  <2>5. SumOver(C, charge') = SumOver(C, Amount)
    BY <2>2, SumAgree
  <2>6. SumOver(C, Amount) \in Nat
    BY <2>1, <2>2, SumType
  <2>7. SumOver(D, charge') = SumOver(C, Amount)
    BY <2>3, <2>4, <2>5, <2>6
  <2>8. QED
    BY <1>15, <2>7
<1> HIDE DEF D, C
<1>17. QED
  BY <1>4, <1>5, <1>8, <1>9, <1>10, <1>12, <1>13, <1>16, CloseRows

(* A step that moves no row and no counter.                                  *)
LEMMA OtherBooks ==
  ASSUME Conservation, WithinLimit, UNCHANGED bookVars, drifted' = drifted
  PROVE  Conservation' /\ WithinLimit'
BY DEF Conservation, Balanced, WithinLimit, bookVars, OfBudget

LEMMA LedgerStep ==
  ASSUME LedgerInv, [Next]_vars
  PROVE  LedgerInv'
<1> USE DEF LedgerInv
<1>1. LockInv'
  BY LockStep
<1>2. PassReads'
  BY PassReadsStep
<1>3. BillIsEstimate'
  BY BillStep
<1>4. Conservation' /\ WithinLimit'
  <2>1. ASSUME NEW t \in Tasks, CommitReserve(t) PROVE Conservation' /\ WithinLimit'
    BY <2>1, ReserveBooks
  <2>2. ASSUME NEW t \in Tasks, CommitResolve(t) PROVE Conservation' /\ WithinLimit'
    BY <1>1, <2>2, ResolveBooks
  <2>3. ASSUME CommitReconcile PROVE Conservation' /\ WithinLimit'
    BY <1>1, <2>3, ReconcileBooks
  <2>4. CASE UNCHANGED bookVars /\ drifted' = drifted
    BY <2>4, OtherBooks
  <2>5. QED
    BY <2>1, <2>2, <2>3, <2>4 DEF Next, Step, BeginReserve, Deny, CallReturns,
       BeginResolve, Finish, Crash, Acquire, BeginReconcile, AbandonPass, vars,
       historyVars
<1>5. QED
  BY <1>1, <1>2, <1>3, <1>4

LEMMA LedgerInit == Init => LedgerInv
<1> SUFFICES ASSUME Init PROVE LedgerInv
  OBVIOUS
<1>1. LockInv
  BY LockInit
<1>2. PassReads /\ BillIsEstimate
  BY Apart DEF Init, PassReads, BillIsEstimate
<1>3. ASSUME NEW b \in Budgets
      PROVE  /\ reserved[b] = OfBudget({h \in Holds : hold[h] = "ACTIVE"}, b)
             /\ spent[b] = SumOver(HoldsOn(b), charge)
             /\ spent[b] + reserved[b] <= HardLimit[b]
  <2>1. {h \in Holds : hold[h] = "ACTIVE"} \cap HoldsOn(b) = {}
    BY DEF Init
  <2>2. OfBudget({h \in Holds : hold[h] = "ACTIVE"}, b) = 0
    BY <2>1, SumEmpty DEF OfBudget
  <2>3. \A h \in HoldsOn(b) : charge[h] = 0
    BY DEF Init, HoldsOn
  <2>4. SumOver(HoldsOn(b), charge) = 0
    BY <2>3, SumZero
  <2>5. reserved[b] = 0 /\ spent[b] = 0 /\ HardLimit[b] \in Nat
    BY LocksAssumption DEF Init
  <2>6. QED
    BY <2>2, <2>4, <2>5
<1>4. Conservation /\ WithinLimit
  BY <1>3 DEF Conservation, Balanced, WithinLimit
<1>5. QED
  BY <1>1, <1>2, <1>4 DEF LedgerInv

(* The invariant of the ledger on PostgreSQL, beside any reconciler.         *)
THEOREM LedgerOnLocks == Spec => []LedgerInv
<1>1. Init => LedgerInv
  BY LedgerInit
<1>2. LedgerInv /\ [Next]_vars => LedgerInv'
  BY LedgerStep
<1>3. QED
  BY <1>1, <1>2, PTL DEF Spec

(* No task's update is lost: taken one lock at a time, the reservations and    *)
(* the resolutions of any number of tasks and the passes of a reconciler that *)
(* waits for none of them leave each counter the sum of its rows              *)
(* (budget.py, lines 180-185), but for a budget that a pass has written over  *)
(* after a task moved it behind the pass's back.                             *)
THEOREM NoLostUpdate == Spec => []Conservation
<1>1. LedgerInv => Conservation
  BY DEF LedgerInv
<1>2. QED
  BY <1>1, LedgerOnLocks, PTL

(* Nor does either counter of such a budget pass its hard limit, or both      *)
(* together; no counter at all falls below zero.                             *)
THEOREM LimitsOnPostgres == Spec => [](TypeOK /\ WithinLimit)
<1>1. LedgerInv => TypeOK /\ WithinLimit
  <2> SUFFICES ASSUME LedgerInv PROVE TypeOK
    BY DEF LedgerInv
  <2>1. Shape /\ WithinLimit /\ PassReads
    BY DEF LedgerInv, LockInv
  <2>2. ASSUME NEW b \in Budgets, b \notin drifted
        PROVE  reserved[b] <= HardLimit[b] /\ spent[b] <= HardLimit[b]
    <3>1. reserved[b] \in Nat /\ spent[b] \in Nat /\ HardLimit[b] \in Nat
      BY <2>1, LocksAssumption DEF Shape
    <3>2. spent[b] + reserved[b] <= HardLimit[b]
      BY <2>1, <2>2 DEF WithinLimit
    <3>3. QED
      BY <3>1, <3>2
  <2>3. QED
    BY <2>1, <2>2 DEF TypeOK, Shape, PassReads
<1>2. QED
  BY <1>1, LedgerOnLocks, PTL

-----------------------------------------------------------------------------
(* Of two locks a session may take, one comes before the other, if both are   *)
(* budgets or the session a task's.                                          *)
LEMMA OneComesFirst ==
  ASSUME NEW p, phase[p] \in OpenPhases,
         NEW l, NEW m, l # m,
         \/ l \in Budgets /\ m \in Budgets
         \/ /\ phase[p] = "resolving" /\ p \in Tasks
            /\ l \in Budgets \cup {p} /\ m \in Budgets \cup {p}
  PROVE  Before(p, l, m) \/ Before(p, m, l)
<1>1. CASE l \in Budgets /\ m \in Budgets
  <2>1. /\ ScopeRank[l] \in Nat /\ ScopeRank[m] \in Nat /\ ScopeRank[l] # ScopeRank[m]
        /\ IdRank[l] \in Nat /\ IdRank[m] \in Nat /\ IdRank[l] # IdRank[m]
    BY <1>1, LocksAssumption
  <2>2. QED
    BY <1>1, <2>1 DEF Before
<1>2. CASE ~(l \in Budgets /\ m \in Budgets)
  <2>1. /\ phase[p] = "resolving" /\ p \in Tasks
        /\ \/ l = p /\ m \in Budgets
           \/ m = p /\ l \in Budgets
    BY <1>2
  <2>2. QED
    BY <2>1 DEF Before
<1>3. QED
  BY <1>1, <1>2

(* The next lock of a session comes before those it has still to take.       *)
LEMMA NextIsFirst ==
  ASSUME LockInv, LockedInOrder, NEW p \in Sessions,
         NEW l \in NextLocks(p), NEW m \in wants[p], m # l,
         p \in Tasks \/ {l, m} \subseteq Budgets
  PROVE  Before(p, l, m)
<1> USE DEF LockInv
<1>1. l \in wants[p] /\ ~Before(p, m, l)
  BY DEF NextLocks
<1>2. phase[p] \in OpenPhases
  BY <1>1 DEF WantsWhenOpen
<1>3. CASE {l, m} \subseteq Budgets
  BY <1>1, <1>2, <1>3, OneComesFirst
<1>4. CASE p \in Tasks /\ ~({l, m} \subseteq Budgets)
  <2>1. l \in Budgets \cup {p} /\ m \in Budgets \cup {p}
    BY <1>1, <1>4 DEF LockedInOrder
  <2>2. phase[p] = "resolving"
    BY <1>1, <1>2, <1>4, <2>1 DEF LockedInOrder, PhasesApart, OpenPhases
  <2>3. QED
    BY <1>1, <1>2, <1>4, <2>1, <2>2, OneComesFirst
<1>5. QED
  BY <1>3, <1>4

(* Every session takes its locks in its order.                               *)
LEMMA OrderStep ==
  ASSUME LockInv, LockedInOrder, [Next]_vars
  PROVE  LockedInOrder'
<1> USE DEF LockInv
<1>1. ASSUME NEW p \in Sessions, phase[p] \notin OpenPhases,
             NEW opened \in OpenPhases, NEW locks \in SUBSET Locks,
             Begin(p, opened, locks),
             p \in Tasks => locks \subseteq Budgets \cup {p},
             p \in Tasks /\ opened = "reserving" => locks \subseteq Budgets
      PROVE  LockedInOrder'
  <2>1. /\ \A q \in Sessions : phase'[q] = IF q = p THEN opened ELSE phase[q]
        /\ \A q \in Sessions : wants'[q] = IF q = p THEN locks ELSE wants[q]
        /\ owner' = owner
    BY <1>1, BeginType
  <2>2. \A l \in Locks : owner[l] # p
    BY <1>1, Apart DEF NoLockAcrossCall, Sessions
  <2>3. ASSUME NEW t \in Tasks
        PROVE  /\ wants'[t] \subseteq Budgets \cup {t}
               /\ \A l \in Locks : owner'[l] = t => l \in Budgets \cup {t}
               /\ phase'[t] = "reserving" =>
                    /\ wants'[t] \subseteq Budgets
                    /\ \A l \in Locks : owner'[l] = t => l \in Budgets
    BY <1>1, <2>1, <2>2, Apart DEF LockedInOrder
  <2>4. ASSUME NEW q \in Sessions, NEW l \in Locks, NEW m \in wants'[q],
               owner'[l] = q, q \in Tasks \/ {l, m} \subseteq Budgets
        PROVE  Before(q, l, m)'
    <3>1. q # p /\ owner[l] = q /\ m \in wants[q] /\ phase'[q] = phase[q]
      BY <2>1, <2>2, <2>4
    <3>2. Before(q, l, m)
      BY <2>4, <3>1 DEF LockedInOrder
    <3>3. QED
      BY <3>1, <3>2 DEF Before
  <2>5. QED
    BY <2>3, <2>4 DEF LockedInOrder
<1>2. ASSUME NEW p \in Sessions, NEW next \in Phases, End(p, next),
             next # "reserving"
      PROVE  LockedInOrder'
  <2>1. /\ \A q \in Sessions : phase'[q] = IF q = p THEN next ELSE phase[q]
        /\ \A q \in Sessions : wants'[q] = IF q = p THEN {} ELSE wants[q]
        /\ \A l \in Locks : owner'[l] = IF owner[l] = p THEN Nobody ELSE owner[l]
    BY <1>2, EndType
  <2>2. \A q \in Sessions, l \in Locks : owner'[l] = q => owner[l] = q
    BY <2>1, LocksAssumption DEF Sessions
  <2>3. ASSUME NEW t \in Tasks
        PROVE  /\ wants'[t] \subseteq Budgets \cup {t}
               /\ \A l \in Locks : owner'[l] = t => l \in Budgets \cup {t}
               /\ phase'[t] = "reserving" =>
                    /\ wants'[t] \subseteq Budgets
                    /\ \A l \in Locks : owner'[l] = t => l \in Budgets
    <3>1. t \in Sessions
      BY Apart
    <3>2. wants'[t] \subseteq wants[t] /\ (phase'[t] = "reserving" => phase[t] = "reserving")
      BY <1>2, <2>1, <3>1
    <3>3. QED
      BY <2>2, <3>1, <3>2 DEF LockedInOrder
  <2>4. ASSUME NEW q \in Sessions, NEW l \in Locks, NEW m \in wants'[q],
               owner'[l] = q, q \in Tasks \/ {l, m} \subseteq Budgets
        PROVE  Before(q, l, m)'
    <3>1. q # p /\ owner[l] = q /\ m \in wants[q] /\ phase'[q] = phase[q]
      BY <2>1, <2>2, <2>4
    <3>2. Before(q, l, m)
      BY <2>4, <3>1 DEF LockedInOrder
    <3>3. QED
      BY <3>1, <3>2 DEF Before
  <2>5. QED
    BY <2>3, <2>4 DEF LockedInOrder
<1>3. ASSUME NEW t \in Tasks, BeginReserve(t) PROVE LockedInOrder'
  <2>1. Begin(t, "reserving", ScopesOf[t]) /\ phase[t] = "recorded"
    BY <1>3 DEF BeginReserve
  <2>2. ScopesOf[t] \subseteq Budgets /\ ScopesOf[t] \in SUBSET Locks
    BY LocksAssumption, Apart
  <2>3. "reserving" \in OpenPhases /\ phase[t] \notin OpenPhases
    BY <2>1 DEF OpenPhases
  <2>4. QED
    BY <1>1, <2>1, <2>2, <2>3, Apart
<1>4. ASSUME NEW t \in Tasks, BeginResolve(t) PROVE LockedInOrder'
  <2>1. Begin(t, "resolving", {t} \cup ScopesOf[t]) /\ phase[t] = "returned"
    BY <1>4 DEF BeginResolve
  <2>2. {t} \cup ScopesOf[t] \subseteq Budgets \cup {t}
        /\ {t} \cup ScopesOf[t] \in SUBSET Locks
    BY LocksAssumption, Apart
  <2>3. "resolving" \in OpenPhases /\ phase[t] \notin OpenPhases
    BY <2>1 DEF OpenPhases
  <2>4. QED
    BY <1>1, <2>1, <2>2, <2>3, Apart
<1>5. ASSUME NEW t \in Tasks,
             CommitReserve(t) \/ Deny(t) \/ CommitResolve(t) \/ Crash(t)
      PROVE  LockedInOrder'
  BY <1>2, <1>5, Apart DEF CommitReserve, Deny, CommitResolve, Crash, Phases
<1>6. ASSUME CommitReconcile \/ AbandonPass PROVE LockedInOrder'
  BY <1>2, <1>6, Apart DEF CommitReconcile, AbandonPass, Phases
<1>7. ASSUME NEW t \in Tasks, CallReturns(t) \/ Finish(t) PROVE LockedInOrder'
  <2>1. /\ phase' \in {[phase EXCEPT ![t] = "returned"],
                       [phase EXCEPT ![t] = "stopped"]}
        /\ phase[t] \in {"invoking", "resolved"}
        /\ owner' = owner /\ wants' = wants
    BY <1>7 DEF CallReturns, Finish, lockVars
  <2>2. \A q \in Sessions : phase'[q] = "reserving" => phase[q] = "reserving"
    BY <2>1, Apart DEF Shape
  <2>3. ASSUME NEW q \in Sessions, NEW l \in Locks, NEW m \in wants[q],
               owner[l] = q, q \in Tasks \/ {l, m} \subseteq Budgets
        PROVE  Before(q, l, m)'
    <3>1. phase[q] \in OpenPhases
      BY <2>3 DEF WantsWhenOpen
    <3>2. phase'[q] = phase[q]
      BY <2>1, <3>1, Apart DEF Shape, OpenPhases
    <3>3. Before(q, l, m)
      BY <2>3 DEF LockedInOrder
    <3>4. QED
      BY <3>2, <3>3 DEF Before
  <2>4. \A q \in Tasks : q \in Sessions
    BY Apart
  <2>5. QED
    BY <2>1, <2>2, <2>3, <2>4 DEF LockedInOrder
<1>8. ASSUME BeginReconcile PROVE LockedInOrder'
  <2>1. PICK X \in (SUBSET {t \in Tasks : HeldFor(t) # {}}) \ {{}} :
          /\ batch' = UNION {HeldFor(t) : t \in X}
          /\ Begin(Reconciler, "reconciling", X \cup {h[2] : h \in batch'})
    BY <1>8 DEF BeginReconcile
  <2> DEFINE locks == X \cup {h[2] : h \in batch'}
  <2>2. locks \in SUBSET Locks
    BY <2>1, Apart DEF HeldFor, Holds
  <2>3. "reconciling" \in OpenPhases /\ phase[Reconciler] \notin OpenPhases
    BY <1>8 DEF BeginReconcile, OpenPhases
  <2>4. Reconciler \in Sessions /\ Reconciler \notin Tasks
    BY Apart, LocksAssumption
  <2>5. Begin(Reconciler, "reconciling", locks)
    BY <2>1
  <2> HIDE DEF locks
  <2>6. QED
    BY <1>1, <2>2, <2>3, <2>4, <2>5
<1>9. ASSUME NEW p \in Sessions, Acquire(p) PROVE LockedInOrder'
  <2>1. PICK l \in NextLocks(p) :
          /\ owner' = [owner EXCEPT ![l] = p]
          /\ wants' = [wants EXCEPT ![p] = @ \ {l}]
          /\ phase' = phase
    BY <1>9 DEF Acquire
  <2>2. l \in wants[p] /\ l \in Locks
    BY DEF NextLocks, Shape
  <2>3. /\ \A k \in Locks : owner'[k] = IF k = l THEN p ELSE owner[k]
        /\ \A q \in Sessions : wants'[q] = IF q = p THEN wants[q] \ {l} ELSE wants[q]
    BY <2>1, <2>2 DEF Shape
  <2>4. ASSUME NEW t \in Tasks
        PROVE  /\ wants'[t] \subseteq Budgets \cup {t}
               /\ \A k \in Locks : owner'[k] = t => k \in Budgets \cup {t}
               /\ phase'[t] = "reserving" =>
                    /\ wants'[t] \subseteq Budgets
                    /\ \A k \in Locks : owner'[k] = t => k \in Budgets
    <3>1. wants'[t] \subseteq wants[t]
      BY <2>3, Apart
    <3>2. \A k \in Locks : owner'[k] = t => owner[k] = t \/ k \in wants[t]
      BY <2>2, <2>3
    <3>3. QED
      BY <2>1, <3>1, <3>2 DEF LockedInOrder
  <2>5. ASSUME NEW q \in Sessions, NEW k \in Locks, NEW m \in wants'[q],
               owner'[k] = q, q \in Tasks \/ {k, m} \subseteq Budgets
        PROVE  Before(q, k, m)'
    <3>1. m \in wants[q] /\ (k = l /\ q = p => m # l)
      BY <2>3, <2>5
    <3>2. CASE owner[k] = q
      BY <2>1, <2>5, <3>1, <3>2 DEF LockedInOrder, Before
    <3>3. CASE owner[k] # q
      <4>1. k = l /\ q = p
        BY <2>3, <2>5, <3>3
      <4>2. Before(p, l, m)
        BY <2>5, <3>1, <4>1, NextIsFirst
      <4>3. QED
        BY <2>1, <4>1, <4>2 DEF Before
    <3>4. QED
      BY <3>2, <3>3
  <2>6. QED
    BY <2>4, <2>5 DEF LockedInOrder
<1>10. CASE UNCHANGED vars
  BY <1>10 DEF vars, lockVars, LockedInOrder, Before
<1>11. QED
  BY <1>3, <1>4, <1>5, <1>6, <1>7, <1>8, <1>9, <1>10 DEF Next, Step

-----------------------------------------------------------------------------
Awaited(S) == {l \in Locks : \E p \in S : l \in wants[p] /\ owner[l] \in S \ {p}}

(* In a circle everyone holds an awaited lock or waits for one; where what     *)
(* each holds is placed below what it waits for, the owner of the highest     *)
(* awaited lock waits for none: there is no circle.                          *)
LEMMA NoCircle ==
  ASSUME LockInv, NEW S \in SUBSET Sessions, S # {}, Circle(S),
         NEW Place, \A l \in Awaited(S) : Place[l] \in Nat,
         \A q \in S : \A l, m \in Awaited(S) :
           owner[l] = q /\ m \in wants[q] => Place[l] < Place[m]
  PROVE  FALSE
<1> USE DEF LockInv
<1>1. \A p \in S : \E l \in Awaited(S) : l \in wants[p]
  <2>1. TAKE p \in S
  <2>2. PICK q \in S : WaitsFor(p, q)
    BY DEF Circle
  <2>3. PICK l \in NextLocks(p) : p # q /\ owner[l] = q
    BY <2>2 DEF WaitsFor
  <2>4. l \in wants[p] /\ l \in Locks
    BY DEF NextLocks, Shape
  <2>5. QED
    BY <2>3, <2>4 DEF Awaited
<1>2. Awaited(S) # {}
  BY <1>1
<1>3. IsFiniteSet(Awaited(S))
  <2>1. IsFiniteSet(Locks)
    BY LocksAssumption, FS_Union DEF Locks
  <2>2. Awaited(S) \subseteq Locks
    BY DEF Awaited
  <2>3. QED
    BY <2>1, <2>2, FS_Subset
<1>4. PICK l \in Awaited(S) : \A m \in Awaited(S) : Place[m] <= Place[l]
  BY <1>2, <1>3, Highest
<1>5. PICK q \in S : owner[l] = q
  BY DEF Awaited
<1>6. PICK m \in Awaited(S) : m \in wants[q]
  BY <1>1
<1>7. Place[l] < Place[m]
  BY <1>5, <1>6
<1>8. Place[m] <= Place[l] /\ Place[m] \in Nat /\ Place[l] \in Nat
  BY <1>4
<1>9. QED
  BY <1>7, <1>8

(* In a circle everyone has an open transaction, and a task in it waits for   *)
(* its own rows or a budget.                                                 *)
LEMMA InCircle ==
  ASSUME LockInv, LockedInOrder, NEW S \in SUBSET Sessions, Circle(S), NEW p \in S
  PROVE  phase[p] \in OpenPhases
<1>1. PICK q \in S : WaitsFor(p, q)
  BY DEF Circle
<1>2. wants[p] # {}
  BY <1>1 DEF WaitsFor, NextLocks
<1>3. QED
  BY <1>2 DEF LockInv, WantsWhenOpen

(* Among resolutions rows come before budgets and budgets in the order of their *)
(* ids.                                                                      *)
LEMMA ResolutionsDoNotCircle ==
  ASSUME LockInv, LockedInOrder, NEW S \in SUBSET Tasks, S # {},
         \A p \in S : phase[p] = "resolving"
  PROVE  ~Circle(S)
<1> DEFINE Place == [l \in Locks |-> IF l \in Budgets THEN IdRank[l] + 1 ELSE 0]
<1>1. SUFFICES ASSUME Circle(S) PROVE FALSE
  OBVIOUS
<1>2. \A l \in Awaited(S) : l \in Locks /\ Place[l] \in Nat
  BY LocksAssumption DEF Awaited
<1>3. ASSUME NEW q \in S, NEW l \in Awaited(S), NEW m \in Awaited(S),
             owner[l] = q, m \in wants[q]
      PROVE  Place[l] < Place[m]
  <2>1. q \in Sessions /\ l \in Locks /\ m \in Locks
    BY <1>2, Apart
  <2>2. Before(q, l, m)
    BY <1>3, <2>1 DEF LockedInOrder
  <2>3. l \in Budgets \cup {q} /\ m \in Budgets \cup {q} /\ q \notin Budgets
    BY <1>3, <2>1, Apart DEF LockedInOrder
  <2>4. m \in Budgets
    BY <2>2, <2>3, Apart DEF Before
  <2>5. CASE l \in Budgets
    <3>1. IdRank[l] < IdRank[m] /\ IdRank[l] \in Nat /\ IdRank[m] \in Nat
      BY <2>2, <2>4, <2>5, Apart, LocksAssumption DEF Before
    <3>2. QED
      BY <2>1, <2>4, <2>5, <3>1
  <2>6. CASE l \notin Budgets
    <3>1. IdRank[m] \in Nat
      BY <2>4, LocksAssumption
    <3>2. QED
      BY <2>1, <2>4, <2>6, <3>1
  <2>7. QED
    BY <2>5, <2>6
<1>4. S \in SUBSET Sessions
  BY Apart
<1> HIDE DEF Place
<1>5. QED
  BY <1>1, <1>2, <1>3, <1>4, NoCircle

(* Among reservations, budgets come in the order of their scopes; so they do   *)
(* for everyone, where ids agree with scopes and no resolution meets a pass.  *)
LEMMA ReservationsDoNotCircle ==
  ASSUME LockInv, LockedInOrder, NEW S \in SUBSET Sessions, S # {},
         \E p \in S : phase[p] = "reserving",
         (\A p \in S : phase[p] = "reserving") \/ OneOrder(S),
         Reconciler \in S => \A p \in S : phase[p] # "resolving"
  PROVE  ~Circle(S)
<1> USE DEF LockInv
<1> DEFINE Place == [l \in Locks |-> IF l \in Budgets THEN ScopeRank[l] + 1 ELSE 0]
<1>1. SUFFICES ASSUME Circle(S) PROVE FALSE
  OBVIOUS
<1>2. \A l \in Awaited(S) : l \in Locks /\ Place[l] \in Nat
  BY LocksAssumption DEF Awaited
<1>3. ASSUME NEW q \in S, NEW l \in Awaited(S), NEW m \in Awaited(S),
             owner[l] = q, m \in wants[q]
      PROVE  Place[l] < Place[m]
  <2>1. q \in Sessions /\ l \in Locks /\ m \in Locks /\ phase[q] \in OpenPhases
    BY <1>1, <1>2, InCircle
  <2>2. m \in Budgets
    <3>1. CASE q \in Tasks
      <4>1. l \in Budgets \cup {q} /\ m \in Budgets \cup {q} /\ q \notin Budgets
        BY <1>3, <2>1, <3>1, Apart DEF LockedInOrder
      <4>2. Before(q, l, m)
        BY <1>3, <2>1, <3>1 DEF LockedInOrder
      <4>3. CASE phase[q] = "reserving"
        BY <1>3, <2>1, <3>1, <4>3 DEF LockedInOrder
      <4>4. CASE phase[q] # "reserving"
        BY <4>1, <4>2, <4>4, Apart DEF Before
      <4>5. QED
        BY <4>3, <4>4
    <3>2. CASE q = Reconciler
      <4>1. PICK p \in S : m \in wants[p] /\ owner[m] \in S \ {p}
        BY DEF Awaited
      <4>2. \A r \in S : r \in Tasks => phase[r] = "reserving"
        BY <1>1, <3>2, InCircle DEF PhasesApart, OpenPhases
      <4>3. p \in Tasks \/ owner[m] \in Tasks
        BY <4>1 DEF Sessions
      <4>4. QED
        BY <2>1, <4>1, <4>2, <4>3 DEF LockedInOrder
    <3>3. QED
      BY <2>1, <3>1, <3>2 DEF Sessions
  <2>3. CASE l \notin Budgets
    <3>1. ScopeRank[m] \in Nat
      BY <2>2, LocksAssumption
    <3>2. QED
      BY <2>1, <2>2, <2>3, <3>1
  <2>4. CASE l \in Budgets
    <3>1. Before(q, l, m)
      BY <1>3, <2>1, <2>2, <2>4 DEF LockedInOrder
    <3>2. ScopeRank[l] < ScopeRank[m]
      <4>1. CASE phase[q] = "reserving"
        BY <3>1, <4>1 DEF Before
      <4>2. CASE phase[q] # "reserving"
        <5>1. OneOrder(S)
          BY <4>2
        <5>2. IdRank[l] < IdRank[m]
          BY <2>2, <2>4, <3>1, <4>2, Apart DEF Before
        <5>3. l \in Touched(q) /\ m \in Touched(q)
          BY <1>3, <2>2, <2>4 DEF Touched
        <5>4. QED
          BY <5>1, <5>2, <5>3 DEF OneOrder
      <4>3. QED
        BY <4>1, <4>2
    <3>3. ScopeRank[l] \in Nat /\ ScopeRank[m] \in Nat
      BY <2>2, <2>4, LocksAssumption
    <3>4. QED
      BY <2>1, <2>2, <2>4, <3>2, <3>3
  <2>5. QED
    BY <2>3, <2>4
<1> HIDE DEF Place
<1>4. QED
  BY <1>1, <1>2, <1>3, NoCircle

(* Whatever the orders and whoever runs, the invariant leaves no other circle. *)
LEMMA CirclesAreMixed ==
  ASSUME LockInv, LockedInOrder
  PROVE  NoWaitCycle
<1> USE DEF LockInv
<1>1. SUFFICES ASSUME NEW S \in SUBSET Sessions, S # {}, Circle(S),
                      ~(Reconciler \in S /\ \E t \in S : phase[t] = "resolving"),
                      ~(/\ \E p \in S : phase[p] = "reserving"
                        /\ \E p \in S : phase[p] # "reserving"
                        /\ ~OneOrder(S))
               PROVE  FALSE
  BY DEF NoWaitCycle
<1>2. \A p \in S : phase[p] \in OpenPhases
  BY <1>1, InCircle
<1>3. CASE \E p \in S : phase[p] = "reserving"
  <2>1. (\A p \in S : phase[p] = "reserving") \/ OneOrder(S)
    BY <1>1, <1>3
  <2>2. Reconciler \in S => \A p \in S : phase[p] # "resolving"
    BY <1>1
  <2>3. QED
    BY <1>1, <1>3, <2>1, <2>2, ReservationsDoNotCircle
<1>4. CASE \A p \in S : phase[p] # "reserving"
  <2>1. CASE Reconciler \in S
    <3>1. \A p \in S : phase[p] = "reconciling"
      BY <1>1, <1>2, <1>4, <2>1 DEF OpenPhases
    <3>2. \A p \in S : p = Reconciler
      BY <3>1 DEF PhasesApart, Sessions
    <3>3. QED
      BY <1>1, <2>1, <3>2 DEF Circle, WaitsFor
  <2>2. CASE Reconciler \notin S
    <3>1. S \in SUBSET Tasks
      BY <2>2 DEF Sessions
    <3>2. \A p \in S : phase[p] = "resolving"
      BY <1>2, <1>4, <3>1 DEF PhasesApart, OpenPhases
    <3>3. QED
      BY <1>1, <3>1, <3>2, ResolutionsDoNotCircle
  <2>3. QED
    BY <2>1, <2>2
<1>5. QED
  BY <1>3, <1>4

(* Reservations never wait for each other in a circle (budget.py, line 85),    *)
(* nor do resolutions (lines 187-188), however many and whatever the ids.  A  *)
(* circle that mixes them takes budgets whose ids do not follow their scopes; *)
(* one with a pass in it takes that or a resolution.                         *)
THEOREM NoDeadlock == Spec => []NoWaitCycle
<1>1. Init => LockedInOrder
  <2> SUFFICES ASSUME Init PROVE LockedInOrder
    OBVIOUS
  <2>1. \A p \in Sessions : wants[p] = {} /\ \A l \in Locks : owner[l] # p
    BY LocksAssumption DEF Init, Sessions
  <2>2. \A t \in Tasks : t \in Sessions
    BY Apart
  <2>3. QED
    BY <2>1, <2>2 DEF LockedInOrder
<1>2. LockInv /\ LockedInOrder /\ [Next]_vars => LockedInOrder'
  BY OrderStep
<1>3. LockInv /\ LockedInOrder => NoWaitCycle
  BY CirclesAreMixed
<1>4. QED
  BY <1>1, <1>2, <1>3, RowLocks, PTL DEF Spec

-----------------------------------------------------------------------------
(* What the book commits against a limit is what the counters add up to.     *)
LEMMA CommittedIsCounted ==
  ASSUME Shape, RowsInScope, NEW b \in Budgets, Balanced(b)
  PROVE  Book!Committed(b) = spent[b] + reserved[b]
<1> DEFINE H == HoldsOn(b)
           A == Active \cap H
<1>1. Book!Committed(b) = SumOver(H, BookAmount)
  BY DEF Book!Committed, Book!HoldsOn, Book!Holds, Book!SumOver, Book!Units,
         Book!Cardinality, Cardinality, SumOver, Units, HoldsOn, Holds
<1>2. H \subseteq Holds /\ A \subseteq H
  BY DEF HoldsOn
<1>3. IsFiniteSet(H) /\ IsFiniteSet(H \ A)
  <2>1. H \ A \subseteq Holds
    BY <1>2
  <2>2. QED
    BY <1>2, <2>1, RowSums, FS_Subset
<1>4. \A h \in H : /\ BookAmount[h] = IF hold[h] = "ACTIVE" THEN Amount[h] ELSE charge[h]
                  /\ BookAmount[h] \in Nat /\ charge[h] \in Nat
  BY <1>2, RowSums DEF BookAmount, Shape
<1>5. /\ \A h \in A : BookAmount[h] = Amount[h] /\ charge[h] = 0
      /\ \A h \in H \ A : BookAmount[h] = charge[h]
  BY <1>2, <1>4 DEF Active, RowsInScope, Holds
<1>6. reserved[b] = SumOver(A, Amount) /\ spent[b] = SumOver(H, charge)
  BY DEF Balanced, OfBudget, Active
<1>7. reserved[b] \in Nat /\ spent[b] \in Nat
  BY DEF Shape
<1> HIDE DEF H, A
<1>8. SumOver(H, BookAmount) = SumOver(H \ A, BookAmount) + SumOver(A, BookAmount)
  BY <1>2, <1>3, <1>4, SumRemove
<1>9. SumOver(H, charge) = SumOver(H \ A, charge) + SumOver(A, charge)
  BY <1>2, <1>3, <1>4, SumRemove
<1>10. SumOver(A, BookAmount) = SumOver(A, Amount)
  BY <1>5, SumAgree
<1>11. SumOver(H \ A, BookAmount) = SumOver(H \ A, charge)
  BY <1>5, SumAgree
<1>12. SumOver(A, charge) = 0
  BY <1>5, SumZero
<1>13. SumOver(H \ A, charge) \in Nat
  <2>1. \A h \in H \ A : charge[h] \in Nat
    BY <1>4
  <2>2. QED
    BY <1>3, <2>1, SumType
<1>14. QED
  BY <1>1, <1>6, <1>7, <1>8, <1>9, <1>10, <1>11, <1>12, <1>13

(* Committing a transaction that resolves ACTIVE rows, each for at most its   *)
(* amount, is a Close.                                                       *)
LEMMA BookCloses ==
  ASSUME NEW B, B \subseteq Active, charge' \in [Holds -> Nat],
         \A h \in Holds : h \notin B => hold'[h] = hold[h] /\ charge'[h] = charge[h],
         \A h \in B : hold'[h] \notin {"none", "ACTIVE"} /\ charge'[h] <= Amount[h]
  PROVE  Book!Next
<1>1. B \subseteq Holds /\ \A h \in B : hold[h] = "ACTIVE"
  BY DEF Active
<1>2. \A h \in B : BookStatus[h] = "held"
  BY <1>1 DEF BookStatus
<1>3. BookStatus' = [h \in Holds |-> IF h \in B THEN "closed" ELSE BookStatus[h]]
  BY <1>1 DEF BookStatus
<1>4. BookAmount' = [h \in Holds |->
                       IF hold'[h] = "ACTIVE" THEN Amount[h] ELSE charge'[h]]
  BY DEF BookAmount, Amount
<1>5. BookAmount' \in [Holds -> Nat]
  BY <1>4, RowSums
<1>6. \A h \in Holds : IF h \in B THEN BookAmount'[h] <= BookAmount[h]
                                  ELSE BookAmount'[h] = BookAmount[h]
  BY <1>1, <1>4 DEF BookAmount
<1>7. Book!Holds = Holds
  BY DEF Book!Holds, Holds
<1>8. Book!Close(B)
  BY <1>2, <1>3, <1>5, <1>6, <1>7 DEF Book!Close
<1>9. QED
  BY <1>1, <1>7, <1>8 DEF Book!Next

(* Committing a reservation is a Place, of the estimate, on every budget of    *)
(* the task's scopes: there was room on each, by the counters and so by the   *)
(* rows.                                                                     *)
LEMMA BookPlaces ==
  ASSUME LockInv, \A b \in Budgets : Balanced(b), NEW t \in Tasks, CommitReserve(t)
  PROVE  Book!Next \/ UNCHANGED <<BookStatus, BookAmount>>
<1> USE DEF LockInv
<1> DEFINE e == Estimate[t]
<1>1. /\ phase[t] = "reserving" /\ wants[t] = {} /\ charge' = charge
      /\ \A b \in ScopesOf[t] : Headroom(t, b) >= Estimate[t]
      /\ hold' = [h \in Holds |-> IF h[1] = t /\ h[2] \in ScopesOf[t]
                                  THEN "ACTIVE" ELSE hold[h]]
  BY DEF CommitReserve
<1>2. e \in Nat /\ ScopesOf[t] \subseteq Budgets
  BY LocksAssumption
<1>3. \A b \in Budgets : <<t, b>> \in Holds /\ hold[<<t, b>>] = "none"
  BY <1>1 DEF Holds, RowsInScope
<1>4. BookStatus' = [h \in Holds |-> IF h[1] = t /\ h[2] \in ScopesOf[t]
                                     THEN "held" ELSE BookStatus[h]]
  BY <1>1 DEF BookStatus
<1>5. \A h \in Holds : h[1] = t => Amount[h] = e
  BY RowSums
<1>6. BookAmount' = [h \in Holds |-> IF h[1] = t /\ h[2] \in ScopesOf[t]
                                     THEN e ELSE BookAmount[h]]
  <2>1. BookAmount' = [h \in Holds |->
                         IF hold'[h] = "ACTIVE" THEN Amount[h] ELSE charge[h]]
    BY <1>1 DEF BookAmount, Amount
  <2>2. QED
    BY <1>1, <1>5, <2>1 DEF BookAmount
<1>7. CASE ScopesOf[t] = {}
  BY <1>4, <1>6, <1>7 DEF BookStatus, BookAmount
<1>8. CASE ScopesOf[t] # {}
  <2>1. PICK b \in ScopesOf[t] : TRUE
    BY <1>8
  <2>2. BookAmount'[<<t, b>>] = e
    BY <1>2, <1>3, <1>6, <2>1
  <2>3. \A c \in Budgets : BookStatus[<<t, c>>] = "free"
    BY <1>3 DEF BookStatus
  <2>4. \A c \in ScopesOf[t] : Book!Committed(c) + e <= HardLimit[c]
    <3>1. TAKE c \in ScopesOf[t]
    <3>2. c \in Budgets /\ spent[c] \in Nat /\ reserved[c] \in Nat
          /\ HardLimit[c] \in Nat
      BY <1>2, LocksAssumption DEF Shape
    <3>3. owner[c] = t
      BY <1>1 DEF LocksToTake
    <3>4. seen[t][c].reserved = reserved[c] /\ seen[t][c].spent = spent[c]
      BY <3>2, <3>3, TaskReads
    <3>5. HardLimit[c] - spent[c] - reserved[c] >= e
      BY <1>1, <3>4 DEF Headroom
    <3>6. Book!Committed(c) = spent[c] + reserved[c]
      BY <3>2, CommittedIsCounted
    <3> HIDE DEF e
    <3>7. QED
      BY <1>2, <3>2, <3>5, <3>6
  <2>5. Book!Holds = Holds
    BY DEF Book!Holds, Holds
  <2>6. Book!Place(t, e)
    BY <1>4, <1>6, <2>3, <2>4, <2>5 DEF Book!Place
  <2>7. Book!Place(t, BookAmount'[<<t, b>>])
    BY <2>2, <2>6
  <2>8. QED
    BY <2>1, <2>7 DEF Book!Next
<1>9. QED
  BY <1>7, <1>8

(* Nothing but a commit moves the book, and a commit moves it as the book     *)
(* says while no pass has written over what it has not seen.                 *)
LEMMA BookStep ==
  ASSUME LockInv, LockInv', PassReads, BillIsEstimate, Conservation, Next, drifted' = {}
  PROVE  Book!Next \/ UNCHANGED <<BookStatus, BookAmount>>
<1> USE DEF LockInv
<1>1. ASSUME NEW t \in Tasks, CommitResolve(t) PROVE Book!Next
  <2> DEFINE B == HeldFor(t)
  <2>1. /\ hold' = [h \in Holds |-> IF h \notin B THEN hold[h]
                             ELSE IF bill[t] > 0 THEN "SETTLED" ELSE "RELEASED"]
        /\ charge' = [h \in Holds |-> IF h \in B THEN bill[t] ELSE charge[h]]
    BY <1>1 DEF CommitResolve
  <2>2. B \subseteq Active /\ B \subseteq Holds /\ \A h \in B : h[1] = t
    BY DEF HeldFor, Active
  <2>3. bill[t] <= Estimate[t]
    <3>1. Estimate[t] \in Nat
      BY LocksAssumption
    <3>2. bill[t] \in {0, Estimate[t]}
      BY DEF BillIsEstimate
    <3>3. QED
      BY <3>1, <3>2
  <2>4. charge' \in [Holds -> Nat]
    BY DEF Shape
  <2>5. \A h \in Holds : h \notin B => hold'[h] = hold[h] /\ charge'[h] = charge[h]
    BY <2>1
  <2>6. \A h \in B : hold'[h] \notin {"none", "ACTIVE"} /\ charge'[h] <= Amount[h]
    BY <2>1, <2>2, <2>3, RowSums
  <2> HIDE DEF B
  <2>7. QED
    BY <2>2, <2>4, <2>5, <2>6, BookCloses
<1>2. ASSUME CommitReconcile PROVE Book!Next
  <2>1. /\ phase[Reconciler] = "reconciling"
        /\ hold' = [h \in Holds |-> IF h \in ambiguous THEN "EXPIRED"
                                  ELSE IF h \in batch THEN "RELEASED" ELSE hold[h]]
        /\ charge' = [h \in Holds |-> IF h \in ambiguous THEN Amount[h]
                                    ELSE IF h \in batch THEN 0 ELSE charge[h]]
        /\ stale \cap {h[2] : h \in batch} = {}
    BY <1>2 DEF CommitReconcile
  <2>2. ambiguous \subseteq batch /\ batch \subseteq Holds
    BY DEF Shape
  <2>3. batch \subseteq Active
    BY <2>1, <2>2 DEF PassReads, Active
  <2>4. charge' \in [Holds -> Nat]
    BY DEF Shape
  <2>5. \A h \in Holds : h \notin batch => hold'[h] = hold[h] /\ charge'[h] = charge[h]
    BY <2>1, <2>2
  <2>6. \A h \in batch : hold'[h] \notin {"none", "ACTIVE"} /\ charge'[h] <= Amount[h]
    BY <2>1, <2>2, RowSums
  <2>7. QED
    BY <2>3, <2>4, <2>5, <2>6, BookCloses
<1>3. ASSUME UNCHANGED bookVars PROVE UNCHANGED <<BookStatus, BookAmount>>
  BY <1>3 DEF bookVars, BookStatus, BookAmount, Amount
<1>4. ASSUME NEW t \in Tasks, CommitReserve(t)
      PROVE  Book!Next \/ UNCHANGED <<BookStatus, BookAmount>>
  <2>1. drifted = {}
    BY <1>4 DEF CommitReserve, Overtakes
  <2>2. \A b \in Budgets : Balanced(b)
    BY <2>1 DEF Conservation
  <2>3. QED
    BY <1>4, <2>2, BookPlaces
<1>5. QED
  BY <1>1, <1>2, <1>3, <1>4 DEF Next, Step, BeginReserve, Deny, CallReturns,
     BeginResolve, Finish, Crash, Acquire, BeginReconcile, AbandonPass

(* The row locks make the transactions atomic: one lock at a time, the          *)
(* sessions implement the book that sums the rows and moves in single steps,  *)
(* until a pass first writes over what it has not seen.                      *)
THEOREM LocksRefineBook == Spec => ImplementsBook
<1>1. Init => Book!Init
  BY DEF Init, Book!Init, Book!Holds, Holds, BookStatus, BookAmount
<1>2. LedgerInv /\ LedgerInv' /\ [Next]_vars
        => [drifted' = {} => Book!Next]_(Book!bookVars)
  <2>1. CASE UNCHANGED vars
    BY <2>1 DEF vars, bookVars, Book!bookVars, BookStatus, BookAmount, Amount
  <2>2. CASE LedgerInv /\ LedgerInv' /\ Next /\ drifted' = {}
    BY <2>2, BookStep DEF LedgerInv, Book!bookVars
  <2>3. QED
    BY <2>1, <2>2
<1>3. QED
  BY <1>1, <1>2, LedgerOnLocks, PTL DEF Spec, ImplementsBook
=============================================================================
