-------------------------- MODULE RequestLoopProofs --------------------------
(***************************************************************************)
(* What Orchestrator.run keeps for any requests, routes, providers, plan   *)
(* limits, breaker threshold and failures.                                 *)
(*                                                                         *)
(* RepeatedForAReason and EndsAsItsLastAttempt speak of the attempt rows   *)
(* alone and are not inductive: whether the next call may repeat a model   *)
(* depends on the row the task is working on.  Sound adds it: which row    *)
(* that is, that it has an adapter to be called again, and that the        *)
(* task's counter of repairs covers the repairs on the current model.      *)
(***************************************************************************)
EXTENDS RequestLoop, SumsProofs, SequenceTheorems

\* RepairsIn[rows][i]: the repair calls on candidate i among rows.
RepairsIn ==
  [rows \in Seq(Row) |->
     [i \in Nat |-> {k \in 1..Len(rows) : rows[k].at = i /\ rows[k].kind = "REPAIR"}]]

\* A row after which a further call may follow.
Unsuccessful == {row \in Row : ~row.emitted /\ row.verdict # "PASS"}

\* A call that may be repeated on its model as it is.
Retryable == {row \in Row : row.outcome \in RetryableOutcomes /\ row.retryable}

\* Histories[r]: the attempts a request may have made.
Histories ==
  [r \in Requests |->
     {rows \in Seq(Row) :
        /\ Len(rows) <= MaxAttempts
        /\ \A k \in 1..Len(rows) : rows[k].at <= Len(Route[r])
        /\ \A k \in 1..Len(rows), l \in 1..Len(rows) :
             k < l => rows[k].at <= rows[l].at /\ rows[k] \in Unsuccessful
        /\ \A k \in 1..Len(rows) : rows[k].kind = "REPAIR" =>
             k > 1 /\ rows[k-1].at = rows[k].at /\ rows[k-1].verdict = "FAIL_REPAIRABLE"
        /\ \A k \in 2..Len(rows) : \/ rows[k-1].at < rows[k].at
                                   \/ rows[k].kind = "REPAIR"
                                   \/ rows[k-1] \in Retryable
        /\ \A i \in 1..Len(Route[r]) : Cardinality(RepairsIn[rows][i]) <= MaxRepairs}]

\* The row of the task's current or last call.
Working(r) == log[r][Len(log[r])]

Sound(r) ==
  /\ log[r] \in Histories[r]
  /\ pc[r] = "new" => log[r] = <<>>
  /\ pc[r] # "done" => state[r] = "READY" /\ (log[r] # <<>> => Working(r) \in Unsuccessful)
  /\ pc[r] = "done" => state[r] \in Terminal
  /\ pc[r] \in {"calling", "waiting"} =>
       /\ log[r] # <<>> /\ Working(r).at = at[r] /\ Route[r][at[r]] \in Adapters
       /\ Cardinality(RepairsIn[log[r]][at[r]]) <= repairs[r]
  /\ pc[r] = "waiting" => Working(r) \in Retryable
  /\ state[r] = "SUCCEEDED" => Working(r).verdict = "PASS"
  /\ state[r] = "FAILED_PARTIAL" => Working(r).emitted
  /\ state[r] = "REJECTED_BUDGET" => Working(r).outcome = "CANCELLED"

Shape ==
  /\ pc       \in [Requests -> {"new", "calling", "waiting", "done", "gone"}]
  /\ at       \in [Requests -> Nat \ {0}]
  /\ repairs  \in [Requests -> 0..MaxRepairs]
  /\ log      \in [Requests -> Seq(Row)]
  /\ left     \in [Requests -> 0..Horizon]
  /\ state    \in [Requests -> Terminal \cup {"READY"}]
  /\ failures \in [Providers -> 0..Threshold]
  /\ circuit  \in [Providers -> {"closed", "open", "cooled"}]
  /\ \A r \in Requests : at[r] <= Len(Route[r]) + 1

LoopInv == Shape /\ \A r \in Requests : Sound(r)

-----------------------------------------------------------------------------
(* The rows of a history, and the repairs among them.                        *)
LEMMA HistoryType ==
  ASSUME NEW r \in Requests, NEW rows \in Histories[r]
  PROVE  /\ rows \in Seq(Row) /\ Len(rows) \in Nat
         /\ \A k \in 1..Len(rows) : rows[k] \in Row /\ rows[k].at \in Nat \ {0}
         /\ rows # <<>> => Len(rows) \in 1..Len(rows)
<1>1. rows \in Seq(Row)
  BY DEF Histories
<1>2. Len(rows) \in Nat /\ \A k \in 1..Len(rows) : rows[k] \in Row
  BY <1>1, ElementOfSeq, LenProperties
<1>3. rows # <<>> => Len(rows) \in 1..Len(rows)
  BY <1>1, EmptySeq
<1>4. QED
  BY <1>1, <1>2, <1>3 DEF Row

LEMMA RepairsType ==
  ASSUME NEW rows \in Seq(Row), NEW i \in Nat
  PROVE  /\ RepairsIn[rows][i] = {k \in 1..Len(rows) : rows[k].at = i /\ rows[k].kind = "REPAIR"}
         /\ IsFiniteSet(RepairsIn[rows][i])
         /\ Cardinality(RepairsIn[rows][i]) \in Nat
<1>1. RepairsIn[rows][i] = {k \in 1..Len(rows) : rows[k].at = i /\ rows[k].kind = "REPAIR"}
  BY DEF RepairsIn
<1>2. IsFiniteSet(1..Len(rows))
  <2>1. 1 \in Int /\ Len(rows) \in Int
    BY LenProperties
  <2>2. QED
    BY <2>1, FS_Interval
<1>3. RepairsIn[rows][i] \subseteq 1..Len(rows)
  BY <1>1
<1>4. IsFiniteSet(RepairsIn[rows][i])
  BY <1>2, <1>3, FS_Subset
<1>5. QED
  BY <1>1, <1>4, FS_CardinalityType

(* No model after the current one has been repaired.                         *)
LEMMA NoRepairsBeyond ==
  ASSUME NEW r \in Requests, NEW rows \in Histories[r], NEW i \in Nat,
         rows # <<>> => rows[Len(rows)].at < i
  PROVE  Cardinality(RepairsIn[rows][i]) = 0
<1>1. ASSUME NEW k \in RepairsIn[rows][i] PROVE FALSE
  <2>1. rows \in Seq(Row) /\ k \in 1..Len(rows) /\ rows[k].at = i
    <3>1. rows \in Seq(Row)
      BY HistoryType
    <3>2. RepairsIn[rows][i] =
            {l \in 1..Len(rows) : rows[l].at = i /\ rows[l].kind = "REPAIR"}
      BY <3>1, RepairsType
    <3>3. QED
      BY <1>1, <3>1, <3>2
  <2>2. rows # <<>> /\ Len(rows) \in 1..Len(rows) /\ Len(rows) \in Nat
    BY <2>1, HistoryType, EmptySeq
  <2>3. rows[k].at <= rows[Len(rows)].at
    <3>1. CASE k = Len(rows)
      <4>1. rows[k].at \in Nat
        BY <2>1, HistoryType
      <4>2. QED
        BY <3>1, <4>1
    <3>2. CASE k < Len(rows)
      BY <2>1, <2>2, <3>2 DEF Histories
    <3>3. QED
      BY <2>1, <2>2, <3>1, <3>2
  <2>4. rows[Len(rows)].at \in Nat
    BY <2>2, HistoryType
  <2>5. QED
    BY <2>1, <2>2, <2>3, <2>4
<1>2. RepairsIn[rows][i] = {}
  BY <1>1
<1>3. QED
  BY <1>2, FS_EmptySet

(* Filling in the outcome of the last row keeps a history.                   *)
LEMMA Amend ==
  ASSUME NEW r \in Requests, NEW rows \in Histories[r], rows # <<>>,
         NEW row \in Row, row.at = rows[Len(rows)].at, row.kind = rows[Len(rows)].kind,
         NEW new, new = [rows EXCEPT ![Len(rows)] = row]
  PROVE  /\ new \in Histories[r] /\ new # <<>> /\ Len(new) = Len(rows)
         /\ new[Len(new)] = row
         /\ \A i \in Nat : RepairsIn[new][i] = RepairsIn[rows][i]
<1>1. rows \in Seq(Row) /\ Len(rows) \in Nat /\ Len(rows) \in 1..Len(rows)
  BY HistoryType
<1>2. /\ new \in Seq(Row) /\ Len(new) = Len(rows)
      /\ \A k \in 1..Len(rows) : new[k] = IF k = Len(rows) THEN row ELSE rows[k]
  BY <1>1, ExceptSeq
<1>3. new # <<>> /\ new[Len(new)] = row
  BY <1>1, <1>2, EmptySeq
<1>4. \A k \in 1..Len(rows) : new[k].at = rows[k].at /\ new[k].kind = rows[k].kind
  BY <1>1, <1>2
<1>5. \A k \in 1..Len(rows) : k < Len(rows) => new[k] = rows[k]
  <2>1. ASSUME NEW k \in 1..Len(rows), k < Len(rows) PROVE k # Len(rows)
    BY <1>1, <2>1
  <2>2. QED
    BY <1>2, <2>1
<1>6. ASSUME NEW i \in Nat PROVE RepairsIn[new][i] = RepairsIn[rows][i]
  <2>1. new \in Seq(Row)
    BY <1>2
  <2>2. RepairsIn[new][i] = {k \in 1..Len(new) : new[k].at = i /\ new[k].kind = "REPAIR"}
    BY <2>1, RepairsType
  <2>3. RepairsIn[rows][i] = {k \in 1..Len(rows) : rows[k].at = i /\ rows[k].kind = "REPAIR"}
    BY <1>1, RepairsType
  <2>4. Len(new) = Len(rows)
    BY <1>2
  <2>5. QED
    BY <1>4, <2>2, <2>3, <2>4
<1>7. Len(new) <= MaxAttempts /\ \A k \in 1..Len(new) : new[k].at <= Len(Route[r])
  BY <1>2, <1>4 DEF Histories
<1>8. \A k \in 1..Len(new), l \in 1..Len(new) :
        k < l => new[k].at <= new[l].at /\ new[k] \in Unsuccessful
  <2>1. SUFFICES ASSUME NEW k \in 1..Len(rows), NEW l \in 1..Len(rows), k < l
                 PROVE  new[k].at <= new[l].at /\ new[k] \in Unsuccessful
    BY <1>2
  <2>2. k < Len(rows)
    BY <1>1, <2>1
  <2>3. rows[k].at <= rows[l].at /\ rows[k] \in Unsuccessful
    BY <2>1 DEF Histories
  <2>4. QED
    BY <1>4, <1>5, <2>2, <2>3
<1>9. \A k \in 1..Len(new) : new[k].kind = "REPAIR" =>
        k > 1 /\ new[k-1].at = new[k].at /\ new[k-1].verdict = "FAIL_REPAIRABLE"
  <2>1. SUFFICES ASSUME NEW k \in 1..Len(rows), rows[k].kind = "REPAIR"
                 PROVE  k > 1 /\ new[k-1].at = new[k].at
                        /\ new[k-1].verdict = "FAIL_REPAIRABLE"
    BY <1>2, <1>4
  <2>2. k > 1 /\ rows[k-1].at = rows[k].at /\ rows[k-1].verdict = "FAIL_REPAIRABLE"
    BY <2>1 DEF Histories
  <2>3. k - 1 \in 1..Len(rows) /\ k - 1 < Len(rows)
    BY <1>1, <2>1, <2>2
  <2>4. QED
    BY <1>4, <1>5, <2>1, <2>2, <2>3
<1>10. \A k \in 2..Len(new) : \/ new[k-1].at < new[k].at
                              \/ new[k].kind = "REPAIR"
                              \/ new[k-1] \in Retryable
  <2>1. SUFFICES ASSUME NEW k \in 2..Len(rows)
                 PROVE  \/ new[k-1].at < new[k].at
                        \/ new[k].kind = "REPAIR"
                        \/ new[k-1] \in Retryable
    BY <1>2
  <2>2. \/ rows[k-1].at < rows[k].at
        \/ rows[k].kind = "REPAIR"
        \/ rows[k-1] \in Retryable
    BY <2>1 DEF Histories
  <2>3. k \in 1..Len(rows) /\ k - 1 \in 1..Len(rows) /\ k - 1 < Len(rows)
    BY <1>1, <2>1
  <2>4. QED
    BY <1>4, <1>5, <2>2, <2>3
<1>11. \A i \in 1..Len(Route[r]) : Cardinality(RepairsIn[new][i]) <= MaxRepairs
  <2>1. \A i \in 1..Len(Route[r]) : i \in Nat /\ Cardinality(RepairsIn[rows][i]) <= MaxRepairs
    BY DEF Histories
  <2>2. QED
    BY <1>6, <2>1
<1>12. new \in Histories[r]
  BY <1>2, <1>7, <1>8, <1>9, <1>10, <1>11 DEF Histories
<1>13. QED
  BY <1>2, <1>3, <1>6, <1>12

(* A further call adds one repair if it is one.                              *)
LEMMA RepairCount ==
  ASSUME NEW rows \in Seq(Row), NEW row \in Row, NEW i \in Nat
  PROVE  Cardinality(RepairsIn[Append(rows, row)][i]) =
           Cardinality(RepairsIn[rows][i]) + (IF row.at = i /\ row.kind = "REPAIR" THEN 1 ELSE 0)
<1> DEFINE new == Append(rows, row)
<1>1. /\ new \in Seq(Row) /\ Len(rows) \in Nat /\ Len(new) = Len(rows) + 1
      /\ new[Len(rows) + 1] = row
      /\ \A k \in 1..Len(rows) : new[k] = rows[k]
  BY AppendProperties, LenProperties
<1>2. /\ RepairsIn[new][i] = {k \in 1..Len(new) : new[k].at = i /\ new[k].kind = "REPAIR"}
      /\ RepairsIn[rows][i] = {k \in 1..Len(rows) : rows[k].at = i /\ rows[k].kind = "REPAIR"}
      /\ IsFiniteSet(RepairsIn[rows][i]) /\ Cardinality(RepairsIn[rows][i]) \in Nat
  BY <1>1, RepairsType
<1> HIDE DEF new
<1>3. CASE row.at = i /\ row.kind = "REPAIR"
  <2>1. /\ RepairsIn[new][i] = RepairsIn[rows][i] \cup {Len(rows) + 1}
        /\ Len(rows) + 1 \notin RepairsIn[rows][i]
    BY <1>1, <1>2, <1>3
  <2>2. Cardinality(RepairsIn[new][i]) = Cardinality(RepairsIn[rows][i]) + 1
    BY <1>2, <2>1, FS_AddElement
  <2>3. QED
    BY <1>3, <2>2 DEF new
<1>4. CASE ~(row.at = i /\ row.kind = "REPAIR")
  <2>1. RepairsIn[new][i] = RepairsIn[rows][i]
    BY <1>1, <1>2, <1>4
  <2>2. Cardinality(RepairsIn[rows][i]) + 0 = Cardinality(RepairsIn[rows][i])
    BY <1>2
  <2>3. QED
    BY <1>4, <2>1, <2>2, Zenon DEF new
<1>5. QED
  BY <1>3, <1>4

(* A further call keeps a history when it moves on, when the last call may be
   repeated, or when it repairs the output of that call.                      *)
LEMMA Extend ==
  ASSUME NEW r \in Requests, NEW rows \in Histories[r], NEW row \in Row,
         Len(rows) < MaxAttempts, row.at <= Len(Route[r]),
         rows # <<>> => /\ rows[Len(rows)] \in Unsuccessful
                        /\ rows[Len(rows)].at <= row.at
                        /\ \/ rows[Len(rows)].at < row.at
                           \/ row.kind = "REPAIR"
                           \/ rows[Len(rows)] \in Retryable,
         row.kind = "REPAIR" => /\ rows # <<>>
                                /\ rows[Len(rows)].at = row.at
                                /\ rows[Len(rows)].verdict = "FAIL_REPAIRABLE"
                                /\ Cardinality(RepairsIn[rows][row.at]) < MaxRepairs
  PROVE  Append(rows, row) \in Histories[r]
<1> DEFINE new == Append(rows, row)
           n   == Len(rows)
<1>1. /\ rows \in Seq(Row) /\ n \in Nat /\ MaxAttempts \in Nat /\ MaxRepairs \in Nat
      /\ rows # <<>> <=> n >= 1
  BY HistoryType, EmptySeq, LoopAssumption
<1>2. /\ new \in Seq(Row) /\ Len(new) = n + 1 /\ new[n + 1] = row
      /\ \A k \in 1..n : new[k] = rows[k]
  BY <1>1, AppendProperties
<1>3. \A k \in 1..n : rows[k].at \in Nat
  BY HistoryType
<1>4. row.at \in Nat
  BY DEF Row
<1>5. \A k \in 1..n, l \in 1..n : k < l => rows[k].at <= rows[l].at /\ rows[k] \in Unsuccessful
  BY DEF Histories
<1>6. \A i \in Nat : Cardinality(RepairsIn[new][i]) =
        Cardinality(RepairsIn[rows][i]) + (IF row.at = i /\ row.kind = "REPAIR" THEN 1 ELSE 0)
  BY <1>1, RepairCount
<1> HIDE DEF new, n
<1>7. \A k \in 1..n : rows[k] \in Unsuccessful /\ rows[k].at <= row.at
  <2>1. ASSUME NEW k \in 1..n PROVE rows[k] \in Unsuccessful /\ rows[k].at <= row.at
    <3>1. rows # <<>> /\ n \in 1..n
      BY <1>1, <2>1
    <3>2. rows[n] \in Unsuccessful /\ rows[n].at <= row.at
      BY <3>1 DEF n
    <3>3. CASE k = n
      BY <3>2, <3>3
    <3>4. CASE k < n
      <4>1. rows[k] \in Unsuccessful /\ rows[k].at <= rows[n].at
        BY <1>5, <3>1, <3>4
      <4>2. QED
        BY <1>3, <1>4, <3>1, <3>2, <4>1
    <3>5. QED
      BY <1>1, <3>3, <3>4
  <2>2. QED
    BY <2>1
<1>8. Len(new) <= MaxAttempts /\ \A k \in 1..Len(new) : new[k].at <= Len(Route[r])
  <2>1. \A k \in 1..n : rows[k].at <= Len(Route[r])
    BY DEF Histories, n
  <2>2. n < MaxAttempts
    BY DEF n
  <2>3. QED
    BY <1>1, <1>2, <2>1, <2>2
<1>9. \A k \in 1..Len(new), l \in 1..Len(new) :
        k < l => new[k].at <= new[l].at /\ new[k] \in Unsuccessful
  <2>1. SUFFICES ASSUME NEW k \in 1..(n + 1), NEW l \in 1..(n + 1), k < l
                 PROVE  new[k].at <= new[l].at /\ new[k] \in Unsuccessful
    BY <1>2
  <2>2. k \in 1..n /\ new[k] = rows[k]
    BY <1>1, <1>2, <2>1
  <2>3. CASE l = n + 1
    BY <1>2, <1>7, <2>2, <2>3
  <2>4. CASE l \in 1..n
    BY <1>2, <1>5, <2>1, <2>2, <2>4
  <2>5. QED
    BY <1>1, <2>3, <2>4
<1>10. \A k \in 1..Len(new) : new[k].kind = "REPAIR" =>
         k > 1 /\ new[k-1].at = new[k].at /\ new[k-1].verdict = "FAIL_REPAIRABLE"
  <2>1. SUFFICES ASSUME NEW k \in 1..(n + 1), new[k].kind = "REPAIR"
                 PROVE  k > 1 /\ new[k-1].at = new[k].at /\ new[k-1].verdict = "FAIL_REPAIRABLE"
    BY <1>2
  <2>2. CASE k = n + 1
    <3>1. /\ rows # <<>> /\ rows[n].at = row.at /\ rows[n].verdict = "FAIL_REPAIRABLE"
      BY <1>2, <2>1, <2>2 DEF n
    <3>2. n \in 1..n /\ k > 1 /\ k - 1 = n
      BY <1>1, <2>2, <3>1
    <3>3. QED
      BY <1>2, <2>2, <3>1, <3>2
  <2>3. CASE k \in 1..n
    <3>1. k > 1 /\ rows[k-1].at = rows[k].at /\ rows[k-1].verdict = "FAIL_REPAIRABLE"
      BY <1>2, <2>1, <2>3 DEF Histories, n
    <3>2. k - 1 \in 1..n
      BY <1>1, <2>3, <3>1
    <3>3. QED
      BY <1>2, <2>3, <3>1, <3>2
  <2>4. QED
    BY <1>1, <2>2, <2>3
<1>11. \A k \in 2..Len(new) : \/ new[k-1].at < new[k].at
                              \/ new[k].kind = "REPAIR"
                              \/ new[k-1] \in Retryable
  <2>1. SUFFICES ASSUME NEW k \in 2..(n + 1)
                 PROVE  \/ new[k-1].at < new[k].at
                        \/ new[k].kind = "REPAIR"
                        \/ new[k-1] \in Retryable
    BY <1>2
  <2>2. k - 1 \in 1..n /\ new[k-1] = rows[k-1]
    BY <1>1, <1>2, <2>1
  <2>3. CASE k = n + 1
    <3>1. rows # <<>> /\ k - 1 = n
      BY <1>1, <2>2, <2>3
    <3>2. rows[n].at < row.at \/ row.kind = "REPAIR" \/ rows[n] \in Retryable
      BY <3>1 DEF n
    <3>3. QED
      BY <1>2, <2>2, <2>3, <3>1, <3>2
  <2>4. CASE k \in 2..n
    <3>1. \/ rows[k-1].at < rows[k].at
          \/ rows[k].kind = "REPAIR"
          \/ rows[k-1] \in Retryable
      BY <2>4 DEF Histories, n
    <3>2. k \in 1..n
      BY <1>1, <2>4
    <3>3. QED
      BY <1>2, <2>2, <3>1, <3>2
  <2>5. QED
    BY <1>1, <2>3, <2>4
<1>12. \A i \in 1..Len(Route[r]) : Cardinality(RepairsIn[new][i]) <= MaxRepairs
  <2>1. SUFFICES ASSUME NEW i \in 1..Len(Route[r])
                 PROVE  Cardinality(RepairsIn[new][i]) <= MaxRepairs
    OBVIOUS
  <2>2. i \in Nat /\ Cardinality(RepairsIn[rows][i]) <= MaxRepairs
    BY DEF Histories
  <2>3. Cardinality(RepairsIn[rows][i]) \in Nat
    BY <1>1, <2>2, RepairsType
  <2>4. CASE row.at = i /\ row.kind = "REPAIR"
    <3>1. Cardinality(RepairsIn[rows][i]) < MaxRepairs
      BY <2>4
    <3>2. Cardinality(RepairsIn[new][i]) = Cardinality(RepairsIn[rows][i]) + 1
      BY <1>6, <2>2, <2>4
    <3>3. QED
      BY <1>1, <2>3, <3>1, <3>2
  <2>5. CASE ~(row.at = i /\ row.kind = "REPAIR")
    BY <1>6, <2>2, <2>3, <2>5
  <2>6. QED
    BY <2>4, <2>5
<1>13. new \in Histories[r]
  BY <1>2, <1>8, <1>9, <1>10, <1>11, <1>12 DEF Histories
<1>14. QED
  BY <1>13 DEF new

-----------------------------------------------------------------------------
(* What a step of r's task leaves alone, and the types it keeps.             *)
Moved(r) ==
  /\ pc'    \in [Requests -> {"new", "calling", "waiting", "done", "gone"}]
  /\ at'    \in [Requests -> Nat \ {0}]
  /\ log'   \in [Requests -> Seq(Row)]
  /\ state' \in [Requests -> Terminal \cup {"READY"}]
  /\ \A s \in Requests : at'[s] <= Len(Route[s]) + 1
  /\ \A s \in Requests \ {r} :
       pc'[s] = pc[s] /\ at'[s] = at[s] /\ log'[s] = log[s] /\ state'[s] = state[s]

(* A row for a call as it starts: it says nothing yet.                       *)
LEMMA NewRowType ==
  ASSUME NEW r, NEW i \in Nat \ {0}, NEW repair \in BOOLEAN
  PROVE  /\ NewRow(r, i, repair) \in Row
         /\ [NewRow(r, i, repair) EXCEPT !.outcome = "CANCELLED"] \in Row
         /\ NewRow(r, i, repair).at = i
         /\ NewRow(r, i, repair).kind = "REPAIR" <=> repair
         /\ ~NewRow(r, i, repair).emitted /\ NewRow(r, i, repair).verdict # "PASS"
BY DEF NewRow, Row, Verdicts

(* A call is stopped with the rows it has made.                              *)
LEMMA Stopped ==
  ASSUME NEW r \in Requests, NEW rows \in Histories[r], NEW final \in Terminal,
         Shape, Stop(r, rows, final),
         final = "SUCCEEDED" => rows[Len(rows)].verdict = "PASS",
         final = "FAILED_PARTIAL" => rows[Len(rows)].emitted,
         final = "REJECTED_BUDGET" => rows[Len(rows)].outcome = "CANCELLED"
  PROVE  Moved(r) /\ Sound(r)' /\ log'[r] = rows
<1>1. rows \in Seq(Row)
  BY HistoryType
<1>2. pc'[r] = "done" /\ log'[r] = rows /\ state'[r] = final
  BY DEF Stop, Shape
<1>3. Moved(r)
  BY <1>1 DEF Stop, Shape, Moved
<1>4. Sound(r)'
  BY <1>2 DEF Sound, Working, Terminal
<1>5. QED
  BY <1>2, <1>3, <1>4

(* After rows, a call -- a repair or not -- may be made on candidate i.      *)
MayFollow(rows, i, repair) ==
  /\ rows # <<>> => /\ rows[Len(rows)] \in Unsuccessful
                    /\ rows[Len(rows)].at <= i
                    /\ rows[Len(rows)].at < i \/ repair \/ rows[Len(rows)] \in Retryable
  /\ repair => /\ rows # <<>>
               /\ rows[Len(rows)].at = i
               /\ rows[Len(rows)].verdict = "FAIL_REPAIRABLE"
               /\ Cardinality(RepairsIn[rows][i]) < MaxRepairs

(* A call that may follow is made, or its reservation is refused.            *)
LEMMA Called ==
  ASSUME NEW r \in Requests, NEW rows \in Histories[r], NEW i \in 1..Len(Route[r]),
         NEW repair \in BOOLEAN, Shape, state[r] = "READY", Call(r, i, repair, rows),
         Len(rows) < MaxAttempts, Route[r][i] \in Adapters, MayFollow(rows, i, repair),
         Cardinality(RepairsIn[rows][i]) + (IF repair THEN 1 ELSE 0) <= repairs'[r]
  PROVE  Moved(r) /\ Sound(r)' /\ Last(log'[r]).at = i
<1> DEFINE row  == NewRow(r, i, repair)
           void == [row EXCEPT !.outcome = "CANCELLED"]
<1>1. i \in Nat \ {0} /\ i <= Len(Route[r]) /\ Len(Route[r]) \in Nat
  BY LoopAssumption, LenProperties
<1>2. /\ row \in Row /\ void \in Row /\ row.at = i /\ void.at = i
      /\ row.kind = "REPAIR" <=> repair
      /\ void.kind = row.kind /\ void.outcome = "CANCELLED"
      /\ ~row.emitted /\ row.verdict # "PASS"
  <2>1. /\ row \in Row /\ void \in Row /\ row.at = i
        /\ row.kind = "REPAIR" <=> repair
        /\ ~row.emitted /\ row.verdict # "PASS"
    BY <1>1, NewRowType
  <2>2. void.at = row.at /\ void.kind = row.kind /\ void.outcome = "CANCELLED"
    BY DEF NewRow
  <2>3. QED
    BY <2>1, <2>2
<1> HIDE DEF row, void
<1>3. Append(rows, row) \in Histories[r]
  BY <1>1, <1>2, Extend DEF MayFollow
<1>4. Append(rows, void) \in Histories[r]
  BY <1>1, <1>2, Extend DEF MayFollow
<1>5. /\ Append(rows, row) \in Seq(Row) /\ Append(rows, void) \in Seq(Row)
      /\ Append(rows, row) # <<>> /\ Append(rows, void) # <<>>
      /\ Append(rows, row)[Len(Append(rows, row))] = row
      /\ Append(rows, void)[Len(Append(rows, void))] = void
  <2>1. rows \in Seq(Row)
    BY HistoryType
  <2>2. QED
    BY <1>2, <2>1, AppendProperties
<1>6. CASE Stop(r, Append(rows, void), "REJECTED_BUDGET")
  <2>1. "REJECTED_BUDGET" \in Terminal
    BY DEF Terminal
  <2>2. Moved(r) /\ Sound(r)' /\ log'[r] = Append(rows, void)
    BY <1>2, <1>4, <1>5, <1>6, <2>1, Stopped
  <2>3. QED
    BY <1>2, <1>5, <2>2 DEF Last
<1>7. CASE /\ log' = [log EXCEPT ![r] = Append(rows, row)]
           /\ pc' = [pc EXCEPT ![r] = "calling"]
           /\ at' = [at EXCEPT ![r] = i]
           /\ UNCHANGED state
  <2>1. Moved(r)
    <3>1. /\ pc'    \in [Requests -> {"new", "calling", "waiting", "done", "gone"}]
          /\ at'    \in [Requests -> Nat \ {0}]
          /\ log'   \in [Requests -> Seq(Row)]
          /\ state' \in [Requests -> Terminal \cup {"READY"}]
      BY <1>1, <1>5, <1>7 DEF Shape
    <3>2. \A s \in Requests \ {r} :
            pc'[s] = pc[s] /\ at'[s] = at[s] /\ log'[s] = log[s] /\ state'[s] = state[s]
      BY <1>7 DEF Shape
    <3>3. ASSUME NEW s \in Requests PROVE at'[s] <= Len(Route[s]) + 1
      <4>1. CASE s = r
        BY <1>1, <1>7, <4>1 DEF Shape
      <4>2. CASE s # r
        BY <3>2, <4>2 DEF Shape
      <4>3. QED
        BY <4>1, <4>2
    <3>4. QED
      BY <3>1, <3>2, <3>3 DEF Moved
  <2>2. /\ log'[r] = Append(rows, row) /\ pc'[r] = "calling" /\ at'[r] = i
        /\ state'[r] = "READY"
    BY <1>7 DEF Shape
  <2>3. row \in Unsuccessful
    BY <1>2 DEF Unsuccessful
  <2>4. Cardinality(RepairsIn[Append(rows, row)][i]) <= repairs'[r]
    <3>1. Cardinality(RepairsIn[Append(rows, row)][i]) =
            Cardinality(RepairsIn[rows][i]) + (IF repair THEN 1 ELSE 0)
      BY <1>1, <1>2, HistoryType, RepairCount
    <3>2. QED
      BY <3>1
  <2>5. Sound(r)'
    BY <1>2, <1>3, <1>5, <2>2, <2>3, <2>4 DEF Sound, Working
  <2>6. QED
    BY <1>2, <1>5, <2>1, <2>2, <2>5 DEF Last
<1>8. QED
  BY <1>6, <1>7 DEF Call, row, void

(* The head of the loop stops the request or calls the first usable candidate *)
(* from i on: candidate i itself when it is usable.                          *)
LEMMA FirstUsable ==
  ASSUME NEW r \in Requests, NEW i \in Nat \ {0}, NextUsable(r, i) # {}
  PROVE  /\ Min(NextUsable(r, i)) \in i..Len(Route[r])
         /\ Usable(r, Min(NextUsable(r, i)))
         /\ i <= Len(Route[r]) /\ Usable(r, i) => Min(NextUsable(r, i)) = i
<1> DEFINE S == NextUsable(r, i)
<1>1. Len(Route[r]) \in Nat
  BY LoopAssumption, LenProperties
<1>2. S \in SUBSET Nat /\ \A j \in S : j \in i..Len(Route[r]) /\ Usable(r, j)
  BY <1>1 DEF NextUsable
<1>3. i <= Len(Route[r]) /\ Usable(r, i) => i \in S
  BY <1>1 DEF NextUsable
<1> HIDE DEF S
<1>4. \E m \in S : \A k \in S : m <= k
  BY <1>2, LeastNat DEF S
<1>5. Min(S) \in S /\ \A k \in S : Min(S) <= k
  BY <1>4 DEF Min
<1>6. ASSUME i <= Len(Route[r]), Usable(r, i) PROVE Min(S) = i
  <2>1. Min(S) \in i..Len(Route[r])
    BY <1>2, <1>5
  <2>2. Min(S) <= i
    BY <1>3, <1>5, <1>6
  <2>3. QED
    BY <1>1, <2>1, <2>2
<1>7. QED
  BY <1>2, <1>5, <1>6 DEF S

(* The head of the loop, entered at a candidate that may follow: a repair at  *)
(* one that is still usable.  A candidate further on may follow as well.     *)
LEMMA HeadStep ==
  ASSUME NEW r \in Requests, NEW rows \in Histories[r], NEW i \in Nat \ {0},
         NEW repair \in BOOLEAN, Shape, state[r] = "READY", LoopHead(r, i, repair, rows),
         MayFollow(rows, i, repair),
         repair => i <= Len(Route[r]) /\ Usable(r, i),
         repairs'[r] \in Nat,
         Cardinality(RepairsIn[rows][i]) + (IF repair THEN 1 ELSE 0) <= repairs'[r]
  PROVE  /\ Moved(r) /\ Sound(r)'
         /\ Len(log'[r]) > Len(rows) => circuit'[Route[r][Last(log'[r]).at]] # "open"
<1>1. Len(rows) \in Nat /\ MaxAttempts \in Nat /\ Len(Route[r]) \in Nat
  BY HistoryType, LoopAssumption, LenProperties
<1>2. ASSUME NEW final \in {"FAILED_EXHAUSTED", "EXPIRED"}, Stop(r, rows, final)
      PROVE  Moved(r) /\ Sound(r)' /\ ~(Len(log'[r]) > Len(rows))
  <2>1. final \in Terminal
    BY DEF Terminal
  <2>2. Moved(r) /\ Sound(r)' /\ log'[r] = rows
    BY <1>2, <2>1, Stopped
  <2>3. QED
    BY <1>1, <2>2
<1>3. ASSUME NextUsable(r, i) # {}, Len(rows) < MaxAttempts,
             Call(r, Min(NextUsable(r, i)), repair, rows)
      PROVE  Moved(r) /\ Sound(r)' /\ circuit'[Route[r][Last(log'[r]).at]] # "open"
  <2> DEFINE j == Min(NextUsable(r, i))
  <2>1. /\ j \in i..Len(Route[r]) /\ j \in 1..Len(Route[r]) /\ Usable(r, j)
        /\ repair => j = i
    BY <1>1, <1>3, FirstUsable
  <2>2. Call(r, j, repair, rows)
    BY <1>3
  <2> HIDE DEF j
  <2>3. rows # <<>> => rows[Len(rows)].at \in Nat
    BY HistoryType
  <2>4. MayFollow(rows, j, repair)
    BY <1>1, <2>1, <2>3 DEF MayFollow
  <2>5. Cardinality(RepairsIn[rows][j]) + (IF repair THEN 1 ELSE 0) <= repairs'[r]
    <3>1. CASE j = i
      BY <3>1
    <3>2. CASE j # i
      <4>1. ~repair /\ j \in Nat /\ i < j
        BY <1>1, <2>1, <3>2
      <4>2. rows # <<>> => rows[Len(rows)].at < j
        BY <2>3, <4>1 DEF MayFollow
      <4>3. Cardinality(RepairsIn[rows][j]) = 0
        BY <4>1, <4>2, NoRepairsBeyond
      <4>4. QED
        BY <4>1, <4>3
    <3>3. QED
      BY <3>1, <3>2
  <2>6. Route[r][j] \in Adapters /\ circuit'[Route[r][j]] # "open"
    BY <2>1 DEF Usable
  <2>7. Moved(r) /\ Sound(r)' /\ Last(log'[r]).at = j
    BY <1>3, <2>1, <2>2, <2>4, <2>5, <2>6, Called
  <2>8. QED
    BY <2>6, <2>7
<1>4. CASE Stop(r, rows, "FAILED_EXHAUSTED")
  BY <1>2, <1>4
<1>5. CASE Stop(r, rows, "EXPIRED")
  BY <1>2, <1>5
<1>6. CASE /\ NextUsable(r, i) # {} /\ ~AttemptsUsed(rows)
           /\ Call(r, Min(NextUsable(r, i)), repair, rows)
  <2>1. Len(rows) < MaxAttempts
    BY <1>1, <1>6 DEF AttemptsUsed
  <2>2. QED
    BY <1>3, <1>6, <2>1
<1>7. QED
  BY <1>4, <1>5, <1>6 DEF LoopHead

(* Where the answer of a call goes: into the row it was made for.            *)
LEMMA Answered ==
  ASSUME NEW r \in Requests, Sound(r), pc[r] \in {"calling", "waiting"}, Shape
  PROVE  /\ log[r] \in Histories[r] /\ log[r] # <<>> /\ state[r] = "READY"
         /\ log[r] \in Seq(Row) /\ Len(log[r]) \in 1..Len(log[r])
         /\ Working(r) \in Row /\ Working(r) \in Unsuccessful /\ Working(r).at = at[r]
         /\ at[r] \in 1..Len(Route[r]) /\ at[r] \in Nat \ {0}
         /\ Route[r][at[r]] \in Adapters /\ Route[r][at[r]] \in Providers
         /\ Cardinality(RepairsIn[log[r]][at[r]]) \in Nat
         /\ Cardinality(RepairsIn[log[r]][at[r]]) <= repairs[r]
         /\ repairs[r] \in 0..MaxRepairs /\ repairs[r] \in Nat
<1>1. /\ log[r] \in Histories[r] /\ log[r] # <<>> /\ state[r] = "READY"
      /\ Working(r) \in Unsuccessful /\ Working(r).at = at[r] /\ Route[r][at[r]] \in Adapters
      /\ Cardinality(RepairsIn[log[r]][at[r]]) <= repairs[r]
  BY DEF Sound
<1>2. log[r] \in Seq(Row) /\ Len(log[r]) \in 1..Len(log[r])
  BY <1>1, HistoryType
<1>3. Working(r) \in Row
  BY <1>2, ElementOfSeq DEF Working
<1>4. Working(r).at <= Len(Route[r])
  BY <1>1, <1>2 DEF Histories, Working
<1>5. at[r] \in Nat \ {0} /\ Len(Route[r]) \in Nat
  BY LoopAssumption, LenProperties DEF Shape
<1>6. at[r] \in 1..Len(Route[r])
  BY <1>1, <1>4, <1>5
<1>7. Cardinality(RepairsIn[log[r]][at[r]]) \in Nat
  BY <1>2, <1>5, RepairsType
<1>8. repairs[r] \in 0..MaxRepairs /\ repairs[r] \in Nat
  BY LoopAssumption DEF Shape
<1>9. Route[r][at[r]] \in Providers
  BY <1>1, LoopAssumption
<1>10. QED
  BY <1>1, <1>2, <1>3, <1>5, <1>6, <1>7, <1>8, <1>9

-----------------------------------------------------------------------------
(* No call of r starts, in this step, on a provider whose circuit is open.   *)
NoneIntoOpen(r) ==
  Len(log'[r]) > Len(log[r]) => circuit'[Route[r][Last(log'[r]).at]] # "open"

\* The variables a step of r's task shares with others keep their types.
Aside(r) ==
  /\ repairs'  \in [Requests -> 0..MaxRepairs]
  /\ left'     \in [Requests -> 0..Horizon]
  /\ failures' \in [Providers -> 0..Threshold]
  /\ circuit'  \in [Providers -> {"closed", "open", "cooled"}]
  /\ \A s \in Requests \ {r} : repairs'[s] = repairs[s]

(* A step of one task keeps the invariant for all.                           *)
LEMMA Elsewhere ==
  ASSUME NEW r \in Requests, LoopInv, Moved(r), Aside(r), Sound(r)', NoneIntoOpen(r)
  PROVE  LoopInv' /\ \A s \in Requests : NoneIntoOpen(s)
<1>1. Shape'
  BY DEF Moved, Aside, Shape
<1>2. ASSUME NEW s \in Requests PROVE Sound(s)'
  <2>1. CASE s = r
    BY <2>1
  <2>2. CASE s # r
    <3>1. /\ pc'[s] = pc[s] /\ at'[s] = at[s] /\ log'[s] = log[s] /\ state'[s] = state[s]
          /\ repairs'[s] = repairs[s]
      BY <2>2 DEF Moved, Aside
    <3>2. Sound(s)
      BY DEF LoopInv
    <3>3. QED
      BY <3>1, <3>2 DEF Sound, Working
  <2>3. QED
    BY <2>1, <2>2
<1>3. ASSUME NEW s \in Requests PROVE NoneIntoOpen(s)
  <2>1. CASE s = r
    BY <2>1
  <2>2. CASE s # r
    <3>1. log'[s] = log[s] /\ Len(log[s]) \in Nat
      BY <2>2, LenProperties DEF Moved, LoopInv, Shape
    <3>2. QED
      BY <3>1 DEF NoneIntoOpen
  <2>3. QED
    BY <2>1, <2>2
<1>4. QED
  BY <1>1, <1>2, <1>3 DEF LoopInv

LEMMA ElapseType ==
  ASSUME NEW r \in Requests, Shape, Elapse(r)
  PROVE  left' \in [Requests -> 0..Horizon]
<1>1. PICK t \in 0..left[r] : left' = [left EXCEPT ![r] = t]
  BY DEF Elapse
<1>2. left[r] \in 0..Horizon /\ Horizon \in Nat
  BY LoopAssumption DEF Shape
<1>3. t \in 0..Horizon
  BY <1>2
<1>4. QED
  BY <1>1, <1>3 DEF Shape

LEMMA FailureType ==
  ASSUME NEW p \in Providers, NEW f \in Failures, Shape, RecordFailure(p, f)
  PROVE  /\ failures' \in [Providers -> 0..Threshold]
         /\ circuit'  \in [Providers -> {"closed", "open", "cooled"}]
<1> DEFINE S == {failures[p] + 1, Threshold}
<1>1. failures[p] \in 0..Threshold /\ Threshold \in Nat
  BY LoopAssumption DEF Shape
<1>2. S \in SUBSET Nat /\ S # {} /\ Threshold \in S
  BY <1>1
<1>3. Min(S) \in S /\ Min(S) <= Threshold
  <2>1. \E m \in S : \A k \in S : m <= k
    BY <1>2, LeastNat
  <2> HIDE DEF S
  <2>2. QED
    BY <1>2, <2>1 DEF Min
<1>4. Min(S) \in 0..Threshold
  BY <1>1, <1>2, <1>3
<1>5. failures' = [failures EXCEPT ![p] = Min(S)]
  BY DEF RecordFailure
<1> HIDE DEF S
<1>6. failures' \in [Providers -> 0..Threshold]
  BY <1>4, <1>5 DEF Shape
<1>7. circuit' \in [Providers -> {"closed", "open", "cooled"}]
  BY DEF RecordFailure, Shape
<1>8. QED
  BY <1>6, <1>7

LEMMA StartStep ==
  ASSUME NEW r \in Requests, LoopInv, Start(r)
  PROVE  Moved(r) /\ Aside(r) /\ Sound(r)' /\ NoneIntoOpen(r)
<1>1. Shape /\ Sound(r) /\ pc[r] = "new"
  BY DEF LoopInv, Start
<1>2. log[r] = <<>> /\ <<>> \in Histories[r] /\ state[r] = "READY"
  BY <1>1 DEF Sound
<1>3. Aside(r)
  BY <1>1 DEF Start, breakerVars, Aside, Shape
<1>4. CASE Stop(r, <<>>, "REJECTED_NO_ROUTE")
  <2>1. Moved(r) /\ Sound(r)' /\ log'[r] = <<>>
    BY <1>1, <1>2, <1>4, Stopped DEF Terminal
  <2>2. NoneIntoOpen(r)
    BY <1>2, <2>1 DEF NoneIntoOpen
  <2>3. QED
    BY <1>3, <2>1, <2>2
<1>5. CASE LoopHead(r, 1, FALSE, <<>>)
  <2>1. log[r] \in Histories[r]
    BY <1>2
  <2> PICK i \in Nat \ {0} : LoopHead(r, i, FALSE, log[r])
    <3>1. LoopHead(r, 1, FALSE, log[r])
      BY <1>2, <1>5
    <3>2. 1 \in Nat \ {0}
      OBVIOUS
    <3>3. QED
      BY <3>1, <3>2, Zenon
  <2>2. Cardinality(RepairsIn[log[r]][i]) = 0 /\ repairs'[r] \in Nat
    BY <1>2, <1>3, <2>1, NoRepairsBeyond, LoopAssumption DEF Aside
  <2>3. Cardinality(RepairsIn[log[r]][i]) + 0 <= repairs'[r]
    BY <2>2
  <2>4. MayFollow(log[r], i, FALSE)
    BY <1>2 DEF MayFollow
  <2>5. /\ Moved(r) /\ Sound(r)'
        /\ Len(log'[r]) > Len(log[r]) => circuit'[Route[r][Last(log'[r]).at]] # "open"
    BY <1>1, <1>2, <2>1, <2>2, <2>3, <2>4, HeadStep
  <2>6. QED
    BY <1>3, <2>5 DEF NoneIntoOpen
<1>6. QED
  BY <1>4, <1>5 DEF Start

LEMMA WakeStep ==
  ASSUME NEW r \in Requests, LoopInv, Wake(r)
  PROVE  Moved(r) /\ Aside(r) /\ Sound(r)' /\ NoneIntoOpen(r)
<1>1. Shape /\ Sound(r) /\ pc[r] = "waiting" /\ Working(r) \in Retryable
  BY DEF LoopInv, Wake, Sound
<1>2. /\ log[r] \in Histories[r] /\ state[r] = "READY"
      /\ Working(r) \in Unsuccessful /\ Working(r).at = at[r] /\ at[r] \in Nat \ {0}
      /\ Cardinality(RepairsIn[log[r]][at[r]]) \in Nat
      /\ Cardinality(RepairsIn[log[r]][at[r]]) <= repairs[r]
      /\ repairs[r] \in Nat
  BY <1>1, Answered
<1>3. Aside(r) /\ repairs'[r] = repairs[r]
  BY <1>1, ElapseType DEF Wake, breakerVars, Aside, Shape
<1>4. MayFollow(log[r], at[r], FALSE)
  BY <1>1, <1>2 DEF MayFollow, Working
<1>5. LoopHead(r, at[r], FALSE, log[r])
  BY DEF Wake
<1>6. Cardinality(RepairsIn[log[r]][at[r]]) + 0 <= repairs'[r] /\ repairs'[r] \in Nat
  BY <1>2, <1>3
<1>7. /\ Moved(r) /\ Sound(r)'
      /\ Len(log'[r]) > Len(log[r]) => circuit'[Route[r][Last(log'[r]).at]] # "open"
  BY <1>1, <1>2, <1>4, <1>5, <1>6, HeadStep
<1>8. QED
  BY <1>3, <1>7 DEF NoneIntoOpen

LEMMA FailsStep ==
  ASSUME NEW r \in Requests, NEW f \in Failures, LoopInv, CallFails(r, f)
  PROVE  Moved(r) /\ Aside(r) /\ Sound(r)' /\ NoneIntoOpen(r)
<1> DEFINE row  == [Working(r) EXCEPT !.outcome = f.outcome, !.retryable = f.retryable,
                                      !.emitted = f.emitted]
           rows == Failed(r, f)
<1>1. Shape /\ Sound(r) /\ pc[r] = "calling"
  BY DEF LoopInv, CallFails
<1>2. /\ log[r] \in Histories[r] /\ log[r] # <<>> /\ state[r] = "READY"
      /\ Working(r) \in Row /\ Working(r) \in Unsuccessful /\ Working(r).at = at[r]
      /\ at[r] \in Nat \ {0} /\ Route[r][at[r]] \in Providers
      /\ Route[r][at[r]] \in Adapters
      /\ Cardinality(RepairsIn[log[r]][at[r]]) <= repairs[r]
      /\ repairs[r] \in 0..MaxRepairs /\ repairs[r] \in Nat
  BY <1>1, Answered
<1>3. /\ row \in Row /\ row.at = at[r] /\ row.kind = Working(r).kind
      /\ row.verdict # "PASS" /\ row.outcome = f.outcome
      /\ row.retryable = f.retryable /\ row.emitted = f.emitted
  <2>1. f.outcome \in {g.outcome : g \in Failures} /\ f.retryable \in BOOLEAN /\ f.emitted \in BOOLEAN
    BY LoopAssumption
  <2>2. Working(r).verdict # "PASS"
    BY <1>2 DEF Unsuccessful
  <2>3. QED
    BY <1>2, <2>1, <2>2 DEF Row
<1>4. rows = [log[r] EXCEPT ![Len(log[r])] = row]
  BY DEF Failed, Working
<1> HIDE DEF row, rows
<1>5. /\ rows \in Histories[r] /\ rows # <<>> /\ Len(rows) = Len(log[r])
      /\ rows[Len(rows)] = row
      /\ \A i \in Nat : RepairsIn[rows][i] = RepairsIn[log[r]][i]
  <2>1. row.at = log[r][Len(log[r])].at /\ row.kind = log[r][Len(log[r])].kind
    BY <1>2, <1>3 DEF Working
  <2>2. log[r] \in Histories[r] /\ log[r] # <<>> /\ row \in Row
    BY <1>2, <1>3
  <2>3. QED
    BY <1>4, <2>1, <2>2, Amend
<1>6. left' \in [Requests -> 0..Horizon]
  BY <1>1, ElapseType DEF CallFails
<1>7. /\ failures' \in [Providers -> 0..Threshold]
      /\ circuit'  \in [Providers -> {"closed", "open", "cooled"}]
  BY <1>1, <1>2, FailureType DEF CallFails
<1>8. ASSUME repairs' = repairs \/ repairs' = [repairs EXCEPT ![r] = 0] PROVE Aside(r)
  <2>1. 0 \in 0..MaxRepairs /\ repairs \in [Requests -> 0..MaxRepairs]
    BY <1>1, LoopAssumption DEF Shape
  <2>2. CASE repairs' = repairs
    BY <1>6, <1>7, <2>1, <2>2 DEF Aside
  <2>3. CASE repairs' = [repairs EXCEPT ![r] = 0]
    BY <1>6, <1>7, <2>1, <2>3 DEF Aside
  <2>4. QED
    BY <1>8, <2>2, <2>3
<1>9. CASE f.emitted /\ Stop(r, rows, "FAILED_PARTIAL") /\ UNCHANGED repairs
  <2>1. Moved(r) /\ Sound(r)' /\ log'[r] = rows
    BY <1>1, <1>3, <1>5, <1>9, Stopped DEF Terminal
  <2>2. NoneIntoOpen(r)
    BY <1>5, <2>1, HistoryType DEF NoneIntoOpen
  <2>3. QED
    BY <1>8, <1>9, <2>1, <2>2
<1>10. CASE /\ ~f.emitted /\ MayRetry(r, f)
            /\ log' = [log EXCEPT ![r] = rows]
            /\ pc' = [pc EXCEPT ![r] = "waiting"]
            /\ UNCHANGED <<at, repairs, state>>
  <2>1. rows \in Seq(Row)
    BY <1>5, HistoryType
  <2>2. Moved(r)
    BY <1>1, <1>10, <2>1 DEF Shape, Moved
  <2>3. /\ log'[r] = rows /\ pc'[r] = "waiting" /\ at'[r] = at[r]
        /\ state'[r] = "READY" /\ repairs'[r] = repairs[r]
    BY <1>1, <1>2, <1>10 DEF Shape
  <2>4. row \in Unsuccessful /\ row \in Retryable
    BY <1>3, <1>10 DEF Unsuccessful, Retryable, MayRetry, RetryPermitted
  <2>5. Cardinality(RepairsIn[rows][at[r]]) <= repairs[r]
    BY <1>2, <1>5
  <2>6. Sound(r)'
    BY <1>2, <1>3, <1>5, <2>3, <2>4, <2>5 DEF Sound, Working
  <2>7. NoneIntoOpen(r)
    BY <1>5, <2>3, HistoryType DEF NoneIntoOpen
  <2>8. QED
    BY <1>8, <1>10, <2>2, <2>6, <2>7
<1>11. CASE /\ ~f.emitted
            /\ repairs' = [repairs EXCEPT ![r] =
                             IF f.outcome \in FallbackOutcomes \/ f.retryable THEN 0 ELSE @]
            /\ LoopHead(r, at[r] + 1, FALSE, rows)
  <2>1. repairs' = repairs \/ repairs' = [repairs EXCEPT ![r] = 0]
    BY <1>1, <1>11 DEF Shape
  <2>2. Aside(r) /\ repairs'[r] \in Nat
    BY <1>8, <2>1, LoopAssumption DEF Aside
  <2>3. at[r] + 1 \in Nat \ {0} /\ row.at < at[r] + 1 /\ row.at <= at[r] + 1
    BY <1>2, <1>3
  <2>4. Cardinality(RepairsIn[rows][at[r] + 1]) = 0
    BY <1>5, <2>3, NoRepairsBeyond
  <2>5. Cardinality(RepairsIn[rows][at[r] + 1]) + 0 <= repairs'[r]
    BY <2>2, <2>4
  <2>6. row \in Unsuccessful
    BY <1>3, <1>11 DEF Unsuccessful
  <2>7. MayFollow(rows, at[r] + 1, FALSE)
    BY <1>5, <2>3, <2>6 DEF MayFollow
  <2>8. /\ Moved(r) /\ Sound(r)'
        /\ Len(log'[r]) > Len(rows) => circuit'[Route[r][Last(log'[r]).at]] # "open"
    BY <1>1, <1>2, <1>5, <1>11, <2>2, <2>3, <2>5, <2>7, HeadStep
  <2>9. QED
    BY <1>5, <2>2, <2>8 DEF NoneIntoOpen
<1>12. QED
  BY <1>9, <1>10, <1>11 DEF CallFails, GiveUpAfterOutput, rows

LEMMA SucceedsStep ==
  ASSUME NEW r \in Requests, NEW v \in Verdicts, LoopInv, CallSucceeds(r, v)
  PROVE  Moved(r) /\ Aside(r) /\ Sound(r)' /\ NoneIntoOpen(r)
<1> DEFINE row  == [Working(r) EXCEPT !.outcome = "SUCCESS", !.verdict = v]
           rows == Judged(r, v)
<1>1. Shape /\ Sound(r) /\ pc[r] = "calling"
  BY DEF LoopInv, CallSucceeds
<1>2. /\ log[r] \in Histories[r] /\ log[r] # <<>> /\ state[r] = "READY"
      /\ Working(r) \in Row /\ Working(r) \in Unsuccessful /\ Working(r).at = at[r]
      /\ at[r] \in Nat \ {0} /\ at[r] \in 1..Len(Route[r])
      /\ Route[r][at[r]] \in Providers /\ Route[r][at[r]] \in Adapters
      /\ Cardinality(RepairsIn[log[r]][at[r]]) \in Nat
      /\ Cardinality(RepairsIn[log[r]][at[r]]) <= repairs[r]
      /\ repairs[r] \in 0..MaxRepairs /\ repairs[r] \in Nat
  BY <1>1, Answered
<1>3. /\ row \in Row /\ row.at = at[r] /\ row.kind = Working(r).kind
      /\ row.verdict = v /\ ~row.emitted
  <2>1. ~Working(r).emitted
    BY <1>2 DEF Unsuccessful
  <2>2. QED
    BY <1>2, <2>1 DEF Row
<1>4. rows = [log[r] EXCEPT ![Len(log[r])] = row]
  BY DEF Judged, Working
<1> HIDE DEF row, rows
<1>5. /\ rows \in Histories[r] /\ rows # <<>> /\ Len(rows) = Len(log[r])
      /\ rows[Len(rows)] = row
      /\ \A i \in Nat : RepairsIn[rows][i] = RepairsIn[log[r]][i]
  <2>1. row.at = log[r][Len(log[r])].at /\ row.kind = log[r][Len(log[r])].kind
    BY <1>2, <1>3 DEF Working
  <2>2. log[r] \in Histories[r] /\ log[r] # <<>> /\ row \in Row
    BY <1>2, <1>3
  <2>3. QED
    BY <1>4, <2>1, <2>2, Amend
<1>6. left' \in [Requests -> 0..Horizon]
  BY <1>1, ElapseType DEF CallSucceeds
<1>7. /\ failures' \in [Providers -> 0..Threshold]
      /\ circuit'  \in [Providers -> {"closed", "open", "cooled"}]
      /\ circuit'[Route[r][at[r]]] = "closed"
  BY <1>1, <1>2, LoopAssumption DEF CallSucceeds, RecordSuccess, Shape
<1>8. CASE v = "PASS" /\ Stop(r, rows, "SUCCEEDED") /\ UNCHANGED repairs
  <2>1. Moved(r) /\ Sound(r)' /\ log'[r] = rows
    BY <1>1, <1>3, <1>5, <1>8, Stopped DEF Terminal
  <2>2. NoneIntoOpen(r)
    BY <1>5, <2>1, HistoryType DEF NoneIntoOpen
  <2>3. Aside(r)
    BY <1>1, <1>6, <1>7, <1>8 DEF Aside, Shape
  <2>4. QED
    BY <2>1, <2>2, <2>3
<1>9. CASE /\ Repairable(r, v)
           /\ repairs' = [repairs EXCEPT ![r] = @ + 1]
           /\ LoopHead(r, at[r], TRUE, rows)
  <2>1. v = "FAIL_REPAIRABLE" /\ repairs[r] < MaxRepairs /\ MaxRepairs \in Nat
    BY <1>9, LoopAssumption DEF Repairable
  <2>2. repairs'[r] = repairs[r] + 1 /\ repairs'[r] \in 0..MaxRepairs /\ repairs'[r] \in Nat
    BY <1>1, <1>2, <1>9, <2>1 DEF Shape
  <2>3. Aside(r)
    BY <1>1, <1>2, <1>6, <1>7, <1>9, <2>1 DEF Aside, Shape
  <2>4. /\ Cardinality(RepairsIn[rows][at[r]]) < MaxRepairs
        /\ Cardinality(RepairsIn[rows][at[r]]) + 1 <= repairs'[r]
    BY <1>2, <1>5, <2>1, <2>2
  <2>5. row \in Unsuccessful
    BY <1>3, <2>1 DEF Unsuccessful
  <2>6. MayFollow(rows, at[r], TRUE)
    BY <1>2, <1>3, <1>5, <2>1, <2>4, <2>5 DEF MayFollow
  <2>7. Usable(r, at[r]) /\ at[r] <= Len(Route[r])
    BY <1>2, <1>7 DEF Usable
  <2>8. /\ Moved(r) /\ Sound(r)'
        /\ Len(log'[r]) > Len(rows) => circuit'[Route[r][Last(log'[r]).at]] # "open"
    BY <1>1, <1>2, <1>5, <1>9, <2>2, <2>4, <2>6, <2>7, HeadStep
  <2>9. QED
    BY <1>5, <2>3, <2>8 DEF NoneIntoOpen
<1>10. CASE /\ v # "PASS"
            /\ repairs' = [repairs EXCEPT ![r] = 0]
            /\ LoopHead(r, at[r] + 1, FALSE, rows)
  <2>1. Aside(r)
    <3>1. 0 \in 0..MaxRepairs /\ repairs \in [Requests -> 0..MaxRepairs]
      BY <1>1, LoopAssumption DEF Shape
    <3>2. QED
      BY <1>6, <1>7, <1>10, <3>1 DEF Aside
  <2>2. repairs'[r] = 0 /\ repairs'[r] \in Nat
    BY <1>1, <1>10 DEF Shape
  <2>3. at[r] + 1 \in Nat \ {0} /\ row.at < at[r] + 1 /\ row.at <= at[r] + 1
    BY <1>2, <1>3
  <2>4. Cardinality(RepairsIn[rows][at[r] + 1]) = 0
    BY <1>5, <2>3, NoRepairsBeyond
  <2>5. Cardinality(RepairsIn[rows][at[r] + 1]) + 0 <= repairs'[r]
    BY <2>2, <2>4
  <2>6. row \in Unsuccessful
    BY <1>3, <1>10 DEF Unsuccessful
  <2>7. MayFollow(rows, at[r] + 1, FALSE)
    BY <1>5, <2>3, <2>6 DEF MayFollow
  <2>8. /\ Moved(r) /\ Sound(r)'
        /\ Len(log'[r]) > Len(rows) => circuit'[Route[r][Last(log'[r]).at]] # "open"
    BY <1>1, <1>2, <1>5, <1>10, <2>2, <2>3, <2>5, <2>7, HeadStep
  <2>9. QED
    BY <1>5, <2>1, <2>8 DEF NoneIntoOpen
<1>11. QED
  BY <1>8, <1>9, <1>10 DEF CallSucceeds, rows

LEMMA CancelStep ==
  ASSUME NEW r \in Requests, LoopInv, Cancel(r)
  PROVE  Moved(r) /\ Aside(r) /\ Sound(r)' /\ NoneIntoOpen(r)
<1>1. Shape /\ Sound(r) /\ pc[r] \in {"calling", "waiting"}
  BY DEF LoopInv, Cancel
<1>2. /\ pc'[r] = "gone" /\ log' = log /\ state' = state /\ at' = at
      /\ repairs' = repairs /\ left' = left /\ failures' = failures /\ circuit' = circuit
  BY <1>1 DEF Cancel, breakerVars, Shape
<1>3. Moved(r)
  BY <1>1, <1>2 DEF Cancel, Moved, Shape
<1>4. Aside(r)
  BY <1>1, <1>2 DEF Aside, Shape
<1>5. Sound(r)'
  BY <1>1, <1>2 DEF Sound, Working
<1>6. NoneIntoOpen(r)
  <2>1. Len(log[r]) \in Nat
    BY <1>1, LenProperties DEF Shape
  <2>2. QED
    BY <1>2, <2>1 DEF NoneIntoOpen
<1>7. QED
  BY <1>3, <1>4, <1>5, <1>6

(* A step that leaves the tasks alone: a circuit cools, or nothing happens.   *)
LEMMA OthersStep ==
  ASSUME LoopInv, (\E p \in Providers : Cool(p)) \/ UNCHANGED vars
  PROVE  LoopInv' /\ \A r \in Requests : NoneIntoOpen(r)
<1>1. /\ pc' = pc /\ at' = at /\ repairs' = repairs /\ log' = log /\ state' = state
      /\ left' = left
      /\ failures' \in [Providers -> 0..Threshold]
      /\ circuit'  \in [Providers -> {"closed", "open", "cooled"}]
  BY DEF LoopInv, Shape, Cool, loopVars, breakerVars, vars
<1>2. Shape'
  BY <1>1 DEF LoopInv, Shape
<1>3. ASSUME NEW r \in Requests PROVE Sound(r)'
  BY <1>1 DEF LoopInv, Sound, Working
<1>4. ASSUME NEW r \in Requests PROVE NoneIntoOpen(r)
  <2>1. Len(log[r]) \in Nat
    BY LenProperties DEF LoopInv, Shape
  <2>2. QED
    BY <1>1, <2>1 DEF NoneIntoOpen
<1>5. QED
  BY <1>2, <1>3, <1>4 DEF LoopInv

LEMMA LoopStep ==
  ASSUME LoopInv, [Next]_vars
  PROVE  LoopInv' /\ \A r \in Requests : NoneIntoOpen(r)
<1>1. ASSUME NEW r \in Requests, Start(r) \/ CallEnds(r) \/ Wake(r) \/ Cancel(r)
      PROVE  LoopInv' /\ \A s \in Requests : NoneIntoOpen(s)
  <2>1. Moved(r) /\ Aside(r) /\ Sound(r)' /\ NoneIntoOpen(r)
    BY <1>1, StartStep, FailsStep, SucceedsStep, WakeStep, CancelStep DEF CallEnds
  <2>2. QED
    BY <2>1, Elsewhere
<1>2. QED
  BY <1>1, OthersStep DEF Next

LEMMA LoopInit == Init => LoopInv
<1> SUFFICES ASSUME Init PROVE LoopInv
  OBVIOUS
<1>1. <<>> \in Seq(Row) /\ Len(<<>>) = 0
  OBVIOUS
<1>2. Shape
  <2>1. Horizon \in 0..Horizon /\ 0 \in 0..MaxRepairs /\ 0 \in 0..Threshold
    BY LoopAssumption
  <2>2. \A r \in Requests : Len(Route[r]) \in Nat
    BY LoopAssumption, LenProperties
  <2>3. \A r \in Requests : at[r] <= Len(Route[r]) + 1
    BY <2>2 DEF Init
  <2>4. QED
    BY <1>1, <2>1, <2>3 DEF Init, Shape
<1>3. ASSUME NEW r \in Requests PROVE Sound(r)
  <2>1. ASSUME NEW i \in Nat PROVE Cardinality(RepairsIn[<<>>][i]) = 0
    <3>1. RepairsIn[<<>>][i] =
            {k \in 1..Len(<<>>) : <<>>[k].at = i /\ <<>>[k].kind = "REPAIR"}
      BY <1>1, RepairsType
    <3>2. \A k : k \notin 1..Len(<<>>)
      BY <1>1
    <3>3. QED
      BY <3>1, <3>2, FS_EmptySet
  <2>2. \A i \in 1..Len(Route[r]) : Cardinality(RepairsIn[<<>>][i]) <= MaxRepairs
    BY <2>1, LoopAssumption
  <2>3. <<>> \in Histories[r]
    BY <1>1, <2>2, LoopAssumption DEF Histories
  <2>4. pc[r] = "new" /\ log[r] = <<>> /\ state[r] = "READY"
    BY DEF Init
  <2>5. QED
    BY <2>3, <2>4 DEF Sound
<1>4. QED
  BY <1>2, <1>3 DEF LoopInv

-----------------------------------------------------------------------------
(* What the properties say follows from the invariant.                       *)
LEMMA LoopTyped == LoopInv => TypeOK
<1> SUFFICES ASSUME LoopInv PROVE TypeOK
  OBVIOUS
<1>1. ASSUME NEW r \in Requests
      PROVE  /\ pc[r] = "done" <=> state[r] \in Terminal
             /\ at[r] \in 1..(Len(Route[r]) + 1)
             /\ repairs[r] \in 0..MaxRepairs
             /\ log[r] \in Seq(Row)
             /\ left[r] \in 0..Horizon
  <2>1. Sound(r)
    BY DEF LoopInv
  <2>2. pc[r] = "done" <=> state[r] \in Terminal
    BY <2>1 DEF Sound, Terminal
  <2>3. Len(Route[r]) \in Nat
    BY LoopAssumption, LenProperties
  <2>4. at[r] \in 1..(Len(Route[r]) + 1)
    BY <2>3 DEF LoopInv, Shape
  <2>5. QED
    BY <2>2, <2>4 DEF LoopInv, Shape
<1>2. QED
  BY <1>1 DEF LoopInv, Shape, TypeOK

LEMMA LoopRepeats == LoopInv => RepeatedForAReason
<1> SUFFICES ASSUME LoopInv, NEW r \in Requests
             PROVE  /\ Len(log[r]) <= MaxAttempts
                    /\ \A k \in Rows(r) :
                         log[r][k].kind = "REPAIR" =>
                           /\ k > 1 /\ log[r][k-1].at = log[r][k].at
                           /\ log[r][k-1].verdict = "FAIL_REPAIRABLE"
                    /\ \A k \in Rows(r) \ {1} :
                         \/ log[r][k-1].at < log[r][k].at
                         \/ /\ log[r][k-1].at = log[r][k].at
                            /\ \/ log[r][k].kind = "REPAIR"
                               \/ /\ log[r][k-1].outcome \in RetryableOutcomes
                                  /\ log[r][k-1].retryable
                    /\ \A i \in 1..Len(Route[r]) :
                         Cardinality({k \in Rows(r) : log[r][k].at = i
                                                      /\ log[r][k].kind = "REPAIR"})
                           <= MaxRepairs
  BY DEF RepeatedForAReason
<1> DEFINE rows == log[r]
<1>1. rows \in Histories[r]
  BY DEF LoopInv, Sound
<1>2. /\ rows \in Seq(Row) /\ Len(rows) \in Nat
      /\ \A k \in 1..Len(rows) : rows[k].at \in Nat
  BY <1>1, HistoryType
<1> HIDE DEF rows
<1>3. /\ Len(rows) <= MaxAttempts
      /\ \A k \in 1..Len(rows) :
           rows[k].kind = "REPAIR" =>
             k > 1 /\ rows[k-1].at = rows[k].at /\ rows[k-1].verdict = "FAIL_REPAIRABLE"
  BY <1>1 DEF Histories
<1>4. ASSUME NEW k \in (1..Len(rows)) \ {1}
      PROVE  \/ rows[k-1].at < rows[k].at
             \/ /\ rows[k-1].at = rows[k].at
                /\ \/ rows[k].kind = "REPAIR"
                   \/ rows[k-1].outcome \in RetryableOutcomes /\ rows[k-1].retryable
  <2>1. k \in 2..Len(rows) /\ k \in 1..Len(rows) /\ k - 1 \in 1..Len(rows) /\ k - 1 < k
    BY <1>2, <1>4
  <2>2. \/ rows[k-1].at < rows[k].at
        \/ rows[k].kind = "REPAIR"
        \/ rows[k-1] \in Retryable
    BY <1>1, <2>1 DEF Histories
  <2>3. rows[k-1].at <= rows[k].at
    BY <1>1, <2>1 DEF Histories
  <2>4. rows[k-1].at \in Nat /\ rows[k].at \in Nat
    BY <1>2, <2>1
  <2>5. rows[k-1].at < rows[k].at \/ rows[k-1].at = rows[k].at
    BY <2>3, <2>4
  <2>6. rows[k-1] \in Retryable =>
          rows[k-1].outcome \in RetryableOutcomes /\ rows[k-1].retryable
    BY DEF Retryable
  <2>7. QED
    BY <2>2, <2>5, <2>6
<1>5. ASSUME NEW i \in 1..Len(Route[r])
      PROVE  Cardinality({k \in 1..Len(rows) : rows[k].at = i /\ rows[k].kind = "REPAIR"})
               <= MaxRepairs
  <2>1. i \in Nat /\ Cardinality(RepairsIn[rows][i]) <= MaxRepairs
    BY <1>1 DEF Histories
  <2>2. RepairsIn[rows][i] = {k \in 1..Len(rows) : rows[k].at = i /\ rows[k].kind = "REPAIR"}
    BY <1>2, <2>1, RepairsType
  <2>3. QED
    BY <2>1, <2>2
<1>6. QED
  BY <1>3, <1>4, <1>5 DEF rows, Rows

LEMMA LoopEnds == LoopInv => EndsAsItsLastAttempt
<1> SUFFICES ASSUME LoopInv, NEW r \in Requests
             PROVE  /\ \A k \in Rows(r) : log[r][k].emitted \/ log[r][k].verdict = "PASS" =>
                                            k = Len(log[r]) /\ pc[r] = "done"
                    /\ state[r] = "SUCCEEDED" => Last(log[r]).verdict = "PASS"
                    /\ state[r] = "FAILED_PARTIAL" => Last(log[r]).emitted
                    /\ state[r] = "REJECTED_BUDGET" => Last(log[r]).outcome = "CANCELLED"
  BY DEF EndsAsItsLastAttempt
<1>1. Sound(r) /\ log[r] \in Histories[r]
  BY DEF LoopInv, Sound
<1>2. ASSUME NEW k \in Rows(r), log[r][k].emitted \/ log[r][k].verdict = "PASS"
      PROVE  k = Len(log[r]) /\ pc[r] = "done"
  <2>1. log[r] \in Seq(Row) /\ Len(log[r]) \in Nat /\ k \in 1..Len(log[r])
    BY <1>1, HistoryType DEF Rows
  <2>2. log[r][k] \notin Unsuccessful
    BY <1>2 DEF Unsuccessful
  <2>3. k = Len(log[r])
    <3>1. CASE k < Len(log[r])
      <4>1. Len(log[r]) \in 1..Len(log[r])
        BY <2>1
      <4>2. QED
        BY <1>1, <2>1, <2>2, <3>1, <4>1 DEF Histories
    <3>2. QED
      BY <2>1, <3>1
  <2>4. log[r] # <<>>
    BY <2>1, EmptySeq
  <2>5. QED
    BY <1>1, <2>2, <2>3, <2>4 DEF Sound, Working
<1>3. QED
  BY <1>1, <1>2 DEF Sound, Working, Last

-----------------------------------------------------------------------------
(* The inductive invariant, for every request that shares the process.       *)
THEOREM LoopSafety == Spec => []LoopInv
<1>1. LoopInv /\ [Next]_vars => LoopInv'
  BY LoopStep
<1>2. QED
  BY LoopInit, <1>1, PTL DEF Spec

(* Every variable of the loop and the breaker keeps its type, and a request is
   terminal exactly when its task has returned.                               *)
THEOREM LoopIsTyped == Spec => []TypeOK
BY LoopSafety, LoopTyped, PTL

(* However requests interleave and circuits open meanwhile, the route only moves
   on, a model is called again only after a failure that permits it or to repair
   the output that just failed, and the plan's limits on attempts and repairs
   hold.                                                                      *)
THEOREM RepeatsAreJustified == Spec => []RepeatedForAReason
BY LoopSafety, LoopRepeats, PTL

(* Nothing is tried after visible or accepted output, and the state a request
   ends in is what its last attempt says.                                     *)
THEOREM EndIsTheLastAttempt == Spec => []EndsAsItsLastAttempt
BY LoopSafety, LoopEnds, PTL

(* No call starts on a provider whose circuit is open as it starts.           *)
THEOREM OpenCircuitsAreSpared == Spec => NoCallIntoOpenCircuit
<1>1. LoopInv /\ [Next]_vars =>
        [\A r \in Requests :
           Len(log'[r]) > Len(log[r]) => circuit'[Route[r][Last(log'[r]).at]] # "open"]_vars
  BY LoopStep DEF NoneIntoOpen
<1>2. QED
  BY LoopSafety, <1>1, PTL DEF Spec, NoCallIntoOpenCircuit
=============================================================================
