---------------------- MODULE IdempotentRequestsProofs ----------------------
(***************************************************************************)
(* The safety of IdempotentRequests, for any requests, keys and bodies and *)
(* on either database.                                                     *)
(*                                                                         *)
(* Everything follows from two facts: two requests get to the same record  *)
(* only if a failed run is recorded in it (SharedRecord), and a record     *)
(* stays as long as its inserter runs (Home).  Ids matter only for where   *)
(* an outcome goes: SequenceIds and TableIds say what the databases        *)
(* promise of them.                                                        *)
(***************************************************************************)
EXTENDS IdempotentRequests, FiniteSetTheorems, TLAPS

Undecided(r) == pc[r] \in {"new", "inserting"}

\* Who goes on under which record, and where a run has an outcome.
Claims ==
  \A r \in Requests :
    /\ Undecided(r) => under[r] = Nobody
    /\ pc[r] \in {"claimed", "running", "ended"} => under[r] # Nobody
    /\ under[r] # Nobody => /\ under[under[r]] = under[r]
                            /\ claimed[r] = claimed[under[r]]
                            /\ claimed[r] # 0
    /\ pc[r] \in {"new", "inserting", "claimed", "running"} => verdict[r] = "none"
    /\ pc[r] = "ended" => verdict[r] # "none"
    /\ verdict[r] # "none" => under[r] # Nobody
    /\ wrote[r] # {} => pc[r] = "answered"

\* Two requests under one record have the same input, and a failure is in it.
SharedRecord ==
  \A r, s \in Requests :
    r # s /\ under[r] = under[s] /\ under[r] # Nobody =>
      Body[r] = Body[s] /\ Key[r] = Key[s] /\ Failed(under[r])

\* While an insert is not committed there is no live record to serve others, and
\* who has inserted is the writer until the commit.
WriterIsAlone ==
  /\ \A k \in Keys : writer[k] # Nobody => /\ Key[writer[k]] = k
                                           /\ under[writer[k]] = writer[k]
                                           /\ ~Live(k)
  /\ \A r \in Requests : pc[r] = "claimed" /\ under[r] = r => writer[Key[r]] = r

\* A record is its inserter's, and tells the truth about the runs recorded in it.
RecordIsTrue ==
  \A k \in Keys : record[k] # NoRecord =>
    LET w == record[k].first IN
      /\ Key[w] = k /\ Body[w] = record[k].body
      /\ under[w] = w /\ claimed[w] = record[k].id /\ pc[w] # "claimed"
      /\ record[k].state = "FAILED" => Failed(w)
      /\ record[k].state = "COMPLETED" =>
           \E s \in Requests : verdict[s] = "SUCCEEDED" /\ w \in wrote[s]

\* The record of a running inserter is there.
Home ==
  \A r \in Requests : Running(r) /\ under[r] = r =>
    Live(Key[r]) /\ record[Key[r]].first = r

\* Who was told that the key completed has the input that did, or a success strayed.
AnswersAreOwn ==
  \A r \in Requests :
    answer[r] = "completed" =>
      Earned(r) \/ \E s \in Requests : verdict[s] = "SUCCEEDED" /\ Strayed(s)

\* PostgreSQL gives an id once.
SequenceIds ==
  ~sqlite => /\ \A r \in Requests : claimed[r] <= lastId
             /\ \A r, s \in Requests :
                  under[r] # Nobody /\ under[s] # Nobody /\ claimed[r] = claimed[s] =>
                    under[r] = under[s]

\* On SQLite one transaction writes at a time, and no two rows have one id.
TableIds ==
  sqlite => /\ \A r, s \in Requests : Open(r) /\ Open(s) => r = s
            /\ \A j, k \in Keys : j # k =>
                 /\ record[j] # NoRecord => ~HasId(k, record[j].id)
                 /\ writer[j] # Nobody => ~HasId(k, claimed[writer[j]])

IInv == /\ TypeOK /\ Claims /\ SharedRecord /\ WriterIsAlone /\ RecordIsTrue /\ Home
        /\ AnswersAreOwn /\ StraysAreRetries /\ SequenceIds /\ TableIds

-----------------------------------------------------------------------------
(* What is recorded stays recorded: a run has its outcome before it is written. *)
LEMMA FailedStays ==
  ASSUME \A q \in Requests :
           wrote[q] # {} => verdict'[q] = verdict[q] /\ wrote'[q] = wrote[q]
  PROVE  \A w \in Requests : Failed(w) => Failed(w)'
  BY DEF Failed

LEMMA InitIInv == Init => IInv
<1> SUFFICES ASSUME Init PROVE IInv
  OBVIOUS
<1>1. TypeOK
  BY DEF Init, TypeOK
<1>2. Claims /\ SharedRecord /\ WriterIsAlone /\ RecordIsTrue /\ Home
  BY KeyAssumption
  DEF Init, Claims, SharedRecord, WriterIsAlone, RecordIsTrue, Home, Undecided, Running
<1>3. AnswersAreOwn /\ StraysAreRetries /\ SequenceIds /\ TableIds
  BY DEF Init, AnswersAreOwn, StraysAreRetries, Strayed, SequenceIds, TableIds, Open, HasId
<1>4. QED
  BY <1>1, <1>2, <1>3 DEF IInv

(* A live record serves r, in Arrive or in an Insert that lost the race.        *)
LEMMA ResolveKeepsIInv ==
  ASSUME IInv, NEW r \in Requests, Undecided(r), Live(Key[r]), ResolveExisting(r),
         sqlite => \A q \in Requests \ {r} : ~Open(q),
         kept' \in [Requests -> BOOLEAN], UNCHANGED <<sqlite, verdict, recordVars, wrote>>
  PROVE  IInv'
<1> USE DEF IInv
<1> DEFINE k == Key[r]
           found == record[k]
           w == found.first
<1>1. /\ k \in Keys /\ found # NoRecord /\ found \in Records /\ writer[k] = Nobody
      /\ under[r] = Nobody /\ verdict[r] = "none" /\ wrote[r] = {}
  BY KeyAssumption DEF Live, TypeOK, WriterIsAlone, Claims, Undecided
<1>2. /\ w \in Requests /\ w # Nobody /\ Key[w] = k /\ Body[w] = found.body
      /\ under[w] = w /\ claimed[w] = found.id /\ found.id \in Nat \ {0} /\ w # r
      /\ found.state = "FAILED" => Failed(w)
  BY <1>1, KeyAssumption DEF RecordIsTrue, Records
<1>3. UNCHANGED <<sqlite, verdict, record, writer, lastId, wrote>>
  BY DEF recordVars
<1>4. /\ \A q \in Requests : Failed(q)' <=> Failed(q)
      /\ \A j \in Keys : Live(j)' <=> Live(j)
      /\ \A j \in Keys, n \in Nat : HasId(j, n)' <=> HasId(j, n)
  BY <1>3 DEF Failed, Live, HasId
<1>5. \/ \E why \in {"conflict", "in_progress"} : Refuse(r, why)
      \/ found.state = "COMPLETED" /\ found.body = Body[r] /\ Refuse(r, "completed")
      \/ found.state = "FAILED" /\ found.body = Body[r] /\ Proceed(r, found.id, w)
  BY DEF ResolveExisting
<1> HIDE DEF k, found, w
<1>6. /\ \A q \in Requests : q # r => /\ pc'[q] = pc[q] /\ claimed'[q] = claimed[q]
                                      /\ answer'[q] = answer[q] /\ under'[q] = under[q]
      /\ \/ /\ pc'[r] = "answered" /\ claimed'[r] = claimed[r] /\ under'[r] = Nobody
            /\ answer'[r] = "completed" => \/ answer[r] = "completed"
                                           \/ found.state = "COMPLETED" /\ Body[w] = Body[r]
         \/ /\ pc'[r] = "claimed" /\ claimed'[r] = found.id /\ under'[r] = w
            /\ answer'[r] = answer[r]
            /\ Failed(w) /\ Body[w] = Body[r]
  <2>1. CASE Proceed(r, found.id, w)
    BY <1>1, <1>2, <1>5, <2>1 DEF Proceed, Refuse, TypeOK
  <2>2. CASE ~Proceed(r, found.id, w)
    BY <1>1, <1>2, <1>5, <2>2 DEF Refuse, TypeOK
  <2>3. QED
    BY <2>1, <2>2
<1>7. TypeOK'
  <2>1. /\ answer' \in [Requests -> {"none", "result", "error", "conflict", "in_progress", "completed"}]
        /\ pc' \in [Requests -> {"new", "inserting", "claimed", "running", "ended", "answered", "dead"}]
        /\ claimed' \in [Requests -> Nat]
        /\ under' \in [Requests -> Requests \cup {Nobody}]
    BY <1>2, <1>5 DEF Refuse, Proceed, TypeOK
  <2>2. \A j \in Keys : writer'[j] # Nobody => pc'[writer'[j]] = "claimed"
    BY <1>3, <1>6 DEF TypeOK, Undecided
  <2>3. QED
    BY <1>3, <2>1, <2>2 DEF TypeOK
<1>8. Claims'
  BY <1>1, <1>2, <1>3, <1>6, KeyAssumption DEF Claims, Undecided, TypeOK
<1>9. SharedRecord'
  <2>1. \A q \in Requests : under[q] = w => Body[q] = Body[w] /\ Key[q] = Key[w]
    BY <1>2 DEF SharedRecord
  <2>2. SUFFICES ASSUME NEW p \in Requests, NEW q \in Requests,
                        p # q, under'[p] = under'[q], under'[p] # Nobody
                 PROVE  Body[p] = Body[q] /\ Key[p] = Key[q] /\ Failed(under'[p])
    BY <1>4, <1>7 DEF SharedRecord, TypeOK
  <2>3. CASE p # r /\ q # r
    BY <1>6, <2>2, <2>3 DEF SharedRecord
  <2>4. CASE p = r \/ q = r
    BY <1>2, <1>6, <2>1, <2>2, <2>4 DEF k
  <2>5. QED
    BY <2>3, <2>4
<1>10. WriterIsAlone'
  BY <1>2, <1>3, <1>4, <1>6 DEF WriterIsAlone, TypeOK, Undecided
<1>11. RecordIsTrue'
  <2>1. \A j \in Keys : record[j] # NoRecord =>
          record[j].first \in Requests /\ record[j].first # r
    BY <1>1, KeyAssumption DEF RecordIsTrue, TypeOK, Records
  <2>2. QED
    BY <1>3, <1>4, <1>6, <2>1 DEF RecordIsTrue
<1>12. Home'
  BY <1>2, <1>3, <1>4, <1>6, KeyAssumption DEF Home, Running
<1>13. \A q \in Requests : Strayed(q)' <=> Strayed(q)
  BY <1>1, <1>3, <1>6 DEF Strayed
<1>14. AnswersAreOwn'
  <2>1. found.state = "COMPLETED" /\ Body[w] = Body[r] =>
          Earned(r) \/ \E s \in Requests : verdict[s] = "SUCCEEDED" /\ Strayed(s)
    <3>1. SUFFICES ASSUME found.state = "COMPLETED", Body[w] = Body[r],
                          NEW s \in Requests, verdict[s] = "SUCCEEDED", w \in wrote[s], ~Strayed(s)
                   PROVE  Earned(r)
      BY <1>1, <1>2 DEF RecordIsTrue, found, w
    <3>2. under[s] = w
      BY <3>1 DEF Strayed
    <3>3. Body[s] = Body[w] /\ Key[s] = Key[w]
      BY <1>2, <3>2 DEF SharedRecord
    <3>4. QED
      BY <1>2, <3>1, <3>3 DEF Earned, k
  <2>2. \A q \in Requests : Earned(q)' <=> Earned(q)
    BY <1>3 DEF Earned
  <2>3. QED
    BY <1>3, <1>6, <1>13, <2>1, <2>2 DEF AnswersAreOwn
<1>15. StraysAreRetries'
  BY <1>1, <1>3, <1>6, <1>13 DEF StraysAreRetries, Strayed
<1>16. SequenceIds'
  <2>1. SUFFICES ASSUME ~sqlite
                 PROVE  /\ \A q \in Requests : claimed'[q] <= lastId'
                        /\ \A q, s \in Requests :
                             under'[q] # Nobody /\ under'[s] # Nobody /\ claimed'[q] = claimed'[s] =>
                               under'[q] = under'[s]
    BY DEF SequenceIds
  <2>2. claimed[w] <= lastId
    BY <1>2, <2>1 DEF SequenceIds
  <2>3. \A q \in Requests : claimed'[q] <= lastId'
    BY <1>2, <1>3, <1>6, <2>1, <2>2 DEF SequenceIds
  <2>4. QED
    BY <1>2, <1>6, <2>1, <2>3 DEF SequenceIds
<1>17. TableIds'
  <2>1. \A j \in Keys : writer[j] # Nobody => writer[j] \in Requests /\ writer[j] # r
    BY DEF TypeOK, Undecided
  <2>2. \A q \in Requests \ {r} : Open(q)' <=> Open(q)
    BY <1>6 DEF Open
  <2>3. QED
    BY <1>3, <1>6, <2>1, <2>2 DEF TableIds, HasId
<1>18. QED
  BY <1>7, <1>8, <1>9, <1>10, <1>11, <1>12, <1>14, <1>15, <1>16, <1>17

LEMMA ArriveKeepsIInv ==
  ASSUME IInv, NEW r \in Requests, Arrive(r)
  PROVE  IInv'
<1>1. CASE Live(Key[r]) /\ ResolveExisting(r)
  <2>1. /\ Undecided(r) /\ kept' \in [Requests -> BOOLEAN]
        /\ UNCHANGED <<sqlite, verdict, recordVars, wrote>>
        /\ sqlite => \A q \in Requests \ {r} : ~Open(q)
    BY DEF Arrive, Undecided, IInv, TypeOK, Unlocked
  <2>2. QED
    BY <1>1, <2>1, ResolveKeepsIInv
<1>2. CASE pc' = [pc EXCEPT ![r] = "inserting"] /\ UNCHANGED <<claimed, answer, under>>
  <2> USE DEF IInv
  <2>1. /\ pc[r] = "new" /\ Unlocked
        /\ UNCHANGED <<sqlite, claimed, answer, under, kept, verdict, record, writer, lastId, wrote>>
    BY <1>2 DEF Arrive, recordVars
  <2>2. /\ pc'[r] = "inserting"
        /\ \A q \in Requests : q # r => pc'[q] = pc[q]
    BY <1>2 DEF TypeOK
  <2>3. TypeOK'
    BY <1>2, <2>1 DEF TypeOK
  <2>4. Claims'
    BY <2>1, <2>2 DEF Claims, Undecided
  <2>5. SharedRecord' /\ AnswersAreOwn' /\ StraysAreRetries' /\ SequenceIds'
    BY <2>1 DEF SharedRecord, Failed, AnswersAreOwn, Earned, StraysAreRetries, Strayed, SequenceIds
  <2>6. WriterIsAlone' /\ Home'
    BY <2>1, <2>2 DEF WriterIsAlone, Home, Running, Live
  <2>7. RecordIsTrue'
    BY <2>1, <2>2 DEF RecordIsTrue, TypeOK, Records, Failed
  <2>8. TableIds'
    BY <2>1, <2>2 DEF TableIds, Unlocked, Open, HasId
  <2>9. QED
    BY <2>3, <2>4, <2>5, <2>6, <2>7, <2>8
<1>3. QED
  BY <1>1, <1>2 DEF Arrive

(* The insert that wins starts a record under which nobody has been.           *)
LEMMA InsertKeepsIInv ==
  ASSUME IInv, NEW r \in Requests, Insert(r)
  PROVE  IInv'
<1> DEFINE k == Key[r]
<1>1. CASE Live(k) /\ ResolveExisting(r) /\ kept' = [kept EXCEPT ![r] = FALSE]
           /\ UNCHANGED <<writer, lastId>>
  <2>1. /\ Undecided(r) /\ kept' \in [Requests -> BOOLEAN]
        /\ UNCHANGED <<sqlite, verdict, recordVars, wrote>>
        /\ sqlite => \A q \in Requests \ {r} : ~Open(q)
    BY <1>1 DEF Insert, Undecided, IInv, TypeOK, recordVars, TableIds, Open
  <2>2. QED
    BY <1>1, <2>1, ResolveKeepsIInv
<1>2. ASSUME ~Live(k), NEW n \in 1..Cardinality(Requests), NewId(k, n),
             lastId' = IF sqlite THEN lastId ELSE n, Proceed(r, n, r),
             writer' = [writer EXCEPT ![k] = r], UNCHANGED kept
      PROVE  IInv'
  <2> USE DEF IInv
  <2>1. /\ k \in Keys /\ pc[r] = "inserting" /\ under[r] = Nobody /\ verdict[r] = "none"
        /\ wrote[r] = {} /\ writer[k] = Nobody /\ r # Nobody
        /\ UNCHANGED <<sqlite, kept, verdict, answer, record, wrote>>
        /\ lastId \in Nat
    <3>1. pc[r] = "inserting" /\ writer[k] = Nobody /\ UNCHANGED <<sqlite, verdict, record, wrote>>
      BY DEF Insert
    <3>2. under[r] = Nobody /\ verdict[r] = "none" /\ wrote[r] = {}
      BY <3>1 DEF Claims, Undecided
    <3>3. QED
      BY <1>2, <3>1, <3>2, KeyAssumption DEF Proceed, TypeOK
  <2>2. n \in Nat \ {0}
    BY FS_CardinalityType, KeyAssumption
  <2>3. /\ \A q \in Requests : q # r => /\ pc'[q] = pc[q] /\ claimed'[q] = claimed[q]
                                        /\ under'[q] = under[q]
        /\ pc'[r] = "claimed" /\ claimed'[r] = n /\ under'[r] = r
        /\ \A j \in Keys : j # k => writer'[j] = writer[j]
        /\ writer'[k] = r
    BY <1>2, <2>1 DEF Proceed, TypeOK
  <2>4. /\ \A q \in Requests : Failed(q)' <=> Failed(q)
        /\ \A j \in Keys : Live(j)' <=> Live(j)
        /\ \A q \in Requests : under[q] # r
        /\ \A j \in Keys : record[j] # NoRecord =>
             record[j] \in Records /\ record[j].first \in Requests /\ record[j].first # r
    BY <2>1 DEF Failed, Live, Claims, RecordIsTrue, TypeOK, Records
  <2>5. TypeOK'
    <3>1. /\ pc' \in [Requests -> {"new", "inserting", "claimed", "running", "ended", "answered", "dead"}]
          /\ claimed' \in [Requests -> Nat]
          /\ under' \in [Requests -> Requests \cup {Nobody}]
          /\ writer' \in [Keys -> Requests \cup {Nobody}]
          /\ lastId' \in Nat
      BY <1>2, <2>1, <2>2 DEF Proceed, TypeOK
    <3>2. \A j \in Keys : writer'[j] # Nobody => pc'[writer'[j]] = "claimed"
      BY <2>1, <2>3 DEF TypeOK
    <3>3. QED
      BY <2>1, <3>1, <3>2 DEF TypeOK
  <2>6. Claims'
    <3>1. Undecided(r) /\ under'[r] = r /\ claimed'[r] = n /\ n # 0 /\ pc'[r] = "claimed"
          /\ verdict'[r] = "none" /\ wrote'[r] = {} /\ r # Nobody
      BY <2>1, <2>2, <2>3, KeyAssumption DEF Undecided
    <3>2. ASSUME NEW q \in Requests, q # r
          PROVE  /\ Undecided(q)' <=> Undecided(q)
                 /\ pc'[q] = pc[q] /\ claimed'[q] = claimed[q] /\ under'[q] = under[q]
                 /\ verdict'[q] = verdict[q] /\ wrote'[q] = wrote[q]
                 /\ under[q] # Nobody =>
                      under[q] \in Requests /\ under'[under[q]] = under[under[q]]
                                            /\ claimed'[under[q]] = claimed[under[q]]
      BY <2>1, <2>3, <2>4, <3>2 DEF Undecided, TypeOK
    <3>3. QED
      BY <3>1, <3>2 DEF Claims, Undecided
  <2>7. SharedRecord'
    BY <2>3, <2>4, <2>5 DEF SharedRecord, TypeOK
  <2>8. WriterIsAlone'
    <3>1. \A j \in Keys : writer'[j] # Nobody => /\ Key[writer'[j]] = j
                                                 /\ under'[writer'[j]] = writer'[j]
                                                 /\ ~Live(j)
      BY <1>2, <2>1, <2>3 DEF WriterIsAlone, TypeOK
    <3>2. \A q \in Requests : pc'[q] = "claimed" /\ under'[q] = q => writer'[Key[q]] = q
      BY <2>1, <2>3, KeyAssumption DEF WriterIsAlone
    <3>3. QED
      BY <2>4, <3>1, <3>2 DEF WriterIsAlone
  <2>9. RecordIsTrue'
    BY <2>1, <2>3, <2>4 DEF RecordIsTrue
  <2>10. Home'
    BY <2>1, <2>3, <2>4, KeyAssumption DEF Home, Running
  <2>11. \A q \in Requests : Strayed(q)' <=> Strayed(q)
    BY <2>1, <2>3 DEF Strayed
  <2>12. AnswersAreOwn' /\ StraysAreRetries'
    BY <2>1, <2>3, <2>11 DEF AnswersAreOwn, Earned, StraysAreRetries, Strayed
  <2>13. SequenceIds'
    <3>1. ~sqlite => n = lastId + 1 /\ lastId' = n
      BY <1>2 DEF NewId
    <3>2. \A q \in Requests : claimed[q] \in Nat
      BY DEF TypeOK
    <3>3. ~sqlite => \A q \in Requests : claimed'[q] <= lastId' /\ (q # r => claimed'[q] # n)
      BY <2>1, <2>3, <3>1, <3>2 DEF SequenceIds
    <3>4. QED
      BY <2>1, <2>3, <3>3 DEF SequenceIds
  <2>14. TableIds'
    <3>1. SUFFICES ASSUME sqlite
                   PROVE  /\ \A p, q \in Requests : Open(p)' /\ Open(q)' => p = q
                          /\ \A i, j \in Keys : i # j =>
                               /\ record'[i] # NoRecord => ~HasId(j, record[i].id)'
                               /\ writer'[i] # Nobody => ~HasId(j, claimed[writer[i]])'
      BY <2>1 DEF TableIds
    <3>2. \A q \in Requests : Open(q)' <=> Open(q)
      BY <2>1, <2>3 DEF Open
    <3>3. \A j \in Keys : j # k => writer[j] = Nobody
      BY <2>1, <3>1, KeyAssumption DEF TableIds, Open, TypeOK, WriterIsAlone
    <3>4. \A j \in Keys : j # k => ~HasId(j, n)
      BY <1>2, <2>2, <2>4, <3>1 DEF NewId, HasId, Records
    <3>5. QED
      BY <2>1, <2>3, <3>1, <3>2, <3>3, <3>4 DEF TableIds, HasId
  <2>15. QED
    BY <2>5, <2>6, <2>7, <2>8, <2>9, <2>10, <2>12, <2>13, <2>14
<1>3. QED
  BY <1>1, <1>2 DEF Insert

(* The commit of an insert publishes a record under which only r has been.     *)
LEMMA BeginKeepsIInv ==
  ASSUME IInv, NEW r \in Requests, Begin(r)
  PROVE  IInv'
<1> USE DEF IInv
<1> DEFINE k == Key[r]
<1>1. /\ pc[r] = "claimed" /\ k \in Keys /\ r # Nobody /\ claimed[r] \in Nat \ {0}
      /\ UNCHANGED <<sqlite, kept, claimed, verdict, answer, lastId, under, wrote>>
      /\ verdict[r] = "none" /\ wrote[r] = {} /\ under[r] # Nobody
  <2>1. /\ pc[r] = "claimed"
        /\ UNCHANGED <<sqlite, kept, claimed, verdict, answer, lastId, under, wrote>>
    BY DEF Begin, historyVars
  <2>2. verdict[r] = "none" /\ wrote[r] = {} /\ under[r] # Nobody /\ claimed[r] # 0
    BY <2>1 DEF Claims
  <2>3. QED
    BY <2>1, <2>2, KeyAssumption DEF TypeOK
<1>2. /\ \A q \in Requests : q # r => pc'[q] = pc[q]
      /\ pc'[r] = "running"
      /\ pc' \in [Requests -> {"new", "inserting", "claimed", "running", "ended", "answered", "dead"}]
      /\ \A q \in Requests : Failed(q)' <=> Failed(q)
      /\ \A q \in Requests : Strayed(q)' <=> Strayed(q)
  BY <1>1 DEF Begin, TypeOK, Failed, Strayed
<1>3. Claims' /\ SharedRecord' /\ AnswersAreOwn' /\ StraysAreRetries' /\ SequenceIds'
  <2>1. Claims'
    BY <1>1, <1>2 DEF Claims, Undecided
  <2>2. SharedRecord'
    BY <1>1, <1>2 DEF SharedRecord, TypeOK
  <2>3. AnswersAreOwn' /\ StraysAreRetries' /\ SequenceIds'
    BY <1>1, <1>2 DEF AnswersAreOwn, Earned, StraysAreRetries, SequenceIds
  <2>4. QED
    BY <2>1, <2>2, <2>3
<1>4. \A j \in Keys : record[j] # NoRecord =>
        record[j] \in Records /\ record[j].first \in Requests /\ record[j].first # r
  BY <1>1 DEF RecordIsTrue, TypeOK, Records
<1>5. CASE writer[k] = r
  <2> DEFINE made == [id |-> claimed[r], state |-> "IN_PROGRESS", body |-> Body[r],
                      first |-> r, lapsed |-> FALSE]
  <2>1. /\ made \in Records /\ made # NoRecord
        /\ made.id = claimed[r] /\ made.first = r /\ made.body = Body[r]
        /\ made.state = "IN_PROGRESS" /\ ~made.lapsed
    <3>1. Body[r] \in {Body[q] : q \in Requests}
      OBVIOUS
    <3>2. made \in Records
      BY <1>1, <3>1 DEF Records
    <3>3. QED
      BY <3>2, KeyAssumption
  <2>2. /\ record' = [record EXCEPT ![k] = made]
        /\ writer' = [writer EXCEPT ![k] = Nobody]
    BY <1>5 DEF Begin
  <2> HIDE DEF made
  <2>3. /\ \A j \in Keys : j # k => record'[j] = record[j] /\ writer'[j] = writer[j]
        /\ record'[k] = made /\ writer'[k] = Nobody
        /\ under[r] = r /\ ~Live(k)
    BY <1>1, <1>5, <2>2 DEF TypeOK, WriterIsAlone
  <2>4. \A j \in Keys : writer'[j] # Nobody => writer[j] = writer'[j] /\ j # k /\ writer'[j] # r
    BY <2>3 DEF WriterIsAlone
  <2>5. TypeOK'
    <3>1. \A j \in Keys : writer'[j] # Nobody => pc'[writer'[j]] = "claimed"
      BY <1>2, <2>4 DEF TypeOK
    <3>2. /\ record' \in [Keys -> Records \cup {NoRecord}]
          /\ writer' \in [Keys -> Requests \cup {Nobody}]
      BY <2>1, <2>2 DEF TypeOK
    <3>3. QED
      BY <1>1, <1>2, <3>1, <3>2 DEF TypeOK
  <2>6. WriterIsAlone'
    <3>1. \A j \in Keys : j # k => Live(j)' = Live(j)
      BY <2>3 DEF Live
    <3>2. \A j \in Keys : writer'[j] # Nobody => /\ Key[writer'[j]] = j
                                                 /\ under'[writer'[j]] = writer'[j]
                                                 /\ ~Live(j)'
      BY <1>1, <2>4, <3>1 DEF WriterIsAlone
    <3>3. \A q \in Requests : pc'[q] = "claimed" /\ under'[q] = q => writer'[Key[q]] = q
      BY <1>1, <1>2, <1>5, <2>3, KeyAssumption DEF WriterIsAlone
    <3>4. QED
      BY <3>2, <3>3 DEF WriterIsAlone
  <2>7. RecordIsTrue'
    BY <1>1, <1>2, <1>4, <2>1, <2>3 DEF RecordIsTrue
  <2>8. Home'
    <3>1. \A q \in Requests : Running(q)' /\ under'[q] = q /\ q # r =>
            Live(Key[q]) /\ record[Key[q]].first = q /\ Key[q] # k
      BY <1>1, <1>2, <2>3 DEF Home, Running
    <3>2. QED
      BY <1>1, <2>1, <2>3, <3>1, KeyAssumption DEF Home, Live
  <2>9. TableIds'
    <3>1. SUFFICES ASSUME sqlite
                   PROVE  /\ \A p, q \in Requests : Open(p)' /\ Open(q)' => p = q
                          /\ \A i, j \in Keys : i # j =>
                               /\ record'[i] # NoRecord => ~HasId(j, record[i].id)'
                               /\ writer'[i] # Nobody => ~HasId(j, claimed[writer[i]])'
      BY <1>1 DEF TableIds
    <3>2. \A q \in Requests : Open(q) <=> q = r
      BY <1>1, <3>1 DEF TableIds, Open
    <3>3. \A q \in Requests : ~Open(q)'
      BY <1>2, <3>2 DEF Open
    <3>4. \A j \in Keys : writer'[j] = Nobody
      BY <2>4, <3>2, <2>5, <3>3 DEF TypeOK, Open
    <3>5. \A j \in Keys : j # k => ~HasId(j, claimed[r])
      BY <1>1, <1>5, <3>1 DEF TableIds
    <3>6. \A i, j \in Keys : i # j /\ record'[i] # NoRecord => ~HasId(j, record[i].id)'
      BY <2>1, <2>3, <3>1, <3>5 DEF TableIds, HasId
    <3>7. QED
      BY <3>3, <3>4, <3>6
  <2>10. QED
    BY <1>3, <2>5, <2>6, <2>7, <2>8, <2>9
<1>6. CASE writer[k] # r
  <2>1. UNCHANGED <<record, writer>>
    BY <1>6 DEF Begin
  <2>2. under[r] # r
    BY <1>1, <1>6 DEF WriterIsAlone
  <2>3. \A j \in Keys : writer[j] # r
    BY <1>1, <1>6 DEF WriterIsAlone
  <2>4. TypeOK'
    BY <1>1, <1>2, <2>1, <2>3 DEF TypeOK
  <2>5. WriterIsAlone' /\ Home'
    BY <1>1, <1>2, <2>1, <2>2 DEF WriterIsAlone, Home, Running, Live
  <2>6. RecordIsTrue'
    BY <1>1, <1>2, <1>4, <2>1 DEF RecordIsTrue
  <2>7. TableIds'
    BY <1>1, <1>2, <2>1 DEF TableIds, Open, HasId
  <2>8. QED
    BY <1>3, <2>4, <2>5, <2>6, <2>7
<1>7. QED
  BY <1>5, <1>6

LEMMA RunEndsKeepsIInv ==
  ASSUME IInv, NEW r \in Requests, RunEnds(r)
  PROVE  IInv'
<1> USE DEF IInv
<1>1. PICK v \in {"SUCCEEDED", "FAILED"} : verdict' = [verdict EXCEPT ![r] = v]
  BY DEF RunEnds
<1>2. /\ pc[r] = "running" /\ pc' = [pc EXCEPT ![r] = "ended"]
      /\ UNCHANGED <<sqlite, kept, claimed, answer, record, writer, lastId, under, wrote>>
  BY DEF RunEnds, recordVars, historyVars
<1>3. verdict[r] = "none" /\ wrote[r] = {} /\ under[r] # Nobody
  BY <1>2 DEF Claims
<1>4. /\ \A q \in Requests : q # r => pc'[q] = pc[q] /\ verdict'[q] = verdict[q]
      /\ pc'[r] = "ended" /\ verdict'[r] = v
  BY <1>1, <1>2 DEF TypeOK
<1>5. \A q \in Requests : verdict[q] # "none" => verdict'[q] = verdict[q]
  BY <1>3, <1>4
<1>6. \A w \in Requests : Failed(w) => Failed(w)'
  BY <1>2, <1>5 DEF Failed
<1>7. \A q \in Requests : Strayed(q)' <=> Strayed(q)
  BY <1>2 DEF Strayed
<1>8. TypeOK'
  <2>1. /\ pc' \in [Requests -> {"new", "inserting", "claimed", "running", "ended", "answered", "dead"}]
        /\ verdict' \in [Requests -> {"none", "SUCCEEDED", "FAILED"}]
    BY <1>1, <1>2 DEF TypeOK
  <2>2. \A k \in Keys : writer'[k] # Nobody => pc'[writer'[k]] = "claimed"
    BY <1>2, <1>4 DEF TypeOK
  <2>3. QED
    BY <1>2, <2>1, <2>2 DEF TypeOK
<1>9. Claims'
  BY <1>2, <1>3, <1>4 DEF Claims, Undecided
<1>10. SharedRecord'
  BY <1>2, <1>6 DEF SharedRecord, TypeOK
<1>11. WriterIsAlone' /\ Home'
  BY <1>2, <1>4 DEF WriterIsAlone, Home, Running, Live
<1>12. \A k \in Keys : record[k] # NoRecord => record[k].first \in Requests
  BY DEF TypeOK, Records
<1>13. RecordIsTrue'
  BY <1>2, <1>4, <1>5, <1>6, <1>12 DEF RecordIsTrue
<1>14. AnswersAreOwn' /\ StraysAreRetries' /\ SequenceIds'
  BY <1>2, <1>5, <1>7 DEF AnswersAreOwn, Earned, StraysAreRetries, SequenceIds
<1>15. TableIds'
  BY <1>2, <1>4 DEF TableIds, Open, HasId
<1>16. QED
  BY <1>8, <1>9, <1>10, <1>11, <1>13, <1>14, <1>15

(* An outcome is written where the id of the claim is by now.  PostgreSQL has it
   in the record of the claim only; SQLite's table has it once, and that is the
   record of the claim as long as its inserter runs.                           *)
LEMMA SettleKeepsIInv ==
  ASSUME IInv, NEW r \in Requests, Settle(r)
  PROVE  IInv'
<1> USE DEF IInv
<1> DEFINE hit == {k \in Keys : HasId(k, claimed[r])}
           state == IF verdict[r] = "SUCCEEDED" THEN "COMPLETED" ELSE "FAILED"
<1>1. /\ pc[r] = "ended" /\ pc' = [pc EXCEPT ![r] = "answered"]
      /\ answer' = [answer EXCEPT ![r] = IF verdict[r] = "SUCCEEDED" THEN "result" ELSE "error"]
      /\ wrote' = [wrote EXCEPT ![r] = {record[k].first : k \in hit}]
      /\ record' = [k \in Keys |-> IF k \notin hit THEN record[k]
                                   ELSE [record[k] EXCEPT !.state = state]]
      /\ UNCHANGED <<sqlite, kept, claimed, verdict, writer, lastId, under>>
  BY DEF Settle
<1>2. wrote[r] = {} /\ verdict[r] \in {"SUCCEEDED", "FAILED"} /\ under[r] # Nobody
  BY <1>1 DEF Claims, TypeOK
<1>3. /\ \A q \in Requests : q # r => /\ pc'[q] = pc[q] /\ answer'[q] = answer[q]
                                      /\ wrote'[q] = wrote[q]
      /\ pc'[r] = "answered" /\ answer'[r] \in {"result", "error"}
      /\ wrote'[r] = {record[k].first : k \in hit}
  BY <1>1 DEF TypeOK
<1>4. \A k \in Keys :
        /\ record[k] # NoRecord => record[k] \in Records /\ record[k].first \in Requests
        /\ k \notin hit => record'[k] = record[k]
        /\ k \in hit => /\ record[k] # NoRecord /\ record'[k] \in Records /\ record'[k] # NoRecord
                        /\ record'[k].id = record[k].id /\ record'[k].body = record[k].body
                        /\ record'[k].first = record[k].first
                        /\ record'[k].lapsed = record[k].lapsed
                        /\ record'[k].state = state
  <2>1. SUFFICES ASSUME NEW k \in hit
                 PROVE  /\ record[k] # NoRecord /\ record'[k] \in Records /\ record'[k] # NoRecord
                        /\ record'[k].id = record[k].id /\ record'[k].body = record[k].body
                        /\ record'[k].first = record[k].first
                        /\ record'[k].lapsed = record[k].lapsed
                        /\ record'[k].state = state
    BY <1>1 DEF TypeOK, Records
  <2>2. record[k] # NoRecord /\ record[k] \in Records
    BY DEF HasId, TypeOK
  <2>3. record'[k] = [record[k] EXCEPT !.state = state]
    BY <1>1
  <2>4. state \in {"IN_PROGRESS", "COMPLETED", "FAILED"}
    OBVIOUS
  <2> HIDE DEF state
  <2>5. /\ record'[k] \in Records
        /\ record'[k].id = record[k].id /\ record'[k].body = record[k].body
        /\ record'[k].first = record[k].first /\ record'[k].lapsed = record[k].lapsed
        /\ record'[k].state = state
    BY <2>2, <2>3, <2>4 DEF Records
  <2>6. QED
    BY <2>2, <2>5, KeyAssumption
<1>5. /\ \A k \in Keys : (record'[k] # NoRecord) <=> (record[k] # NoRecord)
      /\ \A k \in Keys : record[k] # NoRecord => /\ record'[k].id = record[k].id
                                                 /\ record'[k].first = record[k].first
                                                 /\ record'[k].body = record[k].body
                                                 /\ record'[k].lapsed = record[k].lapsed
  BY <1>4
<1>6. \A w \in Requests : Failed(w) => Failed(w)'
  BY <1>1, <1>2, <1>3 DEF Failed
<1>7. \A q \in Requests : Strayed(q) => Strayed(q)'
  BY <1>1, <1>2, <1>3 DEF Strayed
<1>8. TypeOK'
  <2>1. /\ pc' \in [Requests -> {"new", "inserting", "claimed", "running", "ended", "answered", "dead"}]
        /\ answer' \in [Requests -> {"none", "result", "error", "conflict", "in_progress", "completed"}]
    BY <1>1 DEF TypeOK
  <2>2. wrote' \in [Requests -> SUBSET Requests]
    <3>1. {record[k].first : k \in hit} \in SUBSET Requests
      BY <1>4
    <3>2. QED
      BY <1>1, <3>1 DEF TypeOK
  <2>3. record' \in [Keys -> Records \cup {NoRecord}]
    <3>1. \A k \in Keys : record'[k] \in Records \cup {NoRecord}
      BY <1>4 DEF TypeOK
    <3> HIDE DEF hit, state
    <3>2. QED
      BY <1>1, <3>1
  <2>4. \A k \in Keys : writer'[k] # Nobody => pc'[writer'[k]] = "claimed"
    BY <1>1, <1>3 DEF TypeOK
  <2>5. QED
    BY <1>1, <2>1, <2>2, <2>3, <2>4 DEF TypeOK
<1> HIDE DEF hit, state
<1>9. Claims'
  BY <1>1, <1>2, <1>3 DEF Claims, Undecided
<1>10. SharedRecord'
  BY <1>1, <1>6 DEF SharedRecord, TypeOK
<1>11. WriterIsAlone' /\ Home'
  <2>1. \A k \in Keys : Live(k)' <=> Live(k)
    BY <1>5 DEF Live
  <2>2. WriterIsAlone'
    BY <1>1, <1>3, <2>1 DEF WriterIsAlone
  <2>3. Home'
    <3>1. \A q \in Requests : Running(q)' => Running(q)
      BY <1>3 DEF Running
    <3>2. \A k \in Keys : Live(k) => record'[k].first = record[k].first
      BY <1>5 DEF Live
    <3>3. QED
      BY <1>1, <2>1, <3>1, <3>2, KeyAssumption DEF Home
  <2>4. QED
    BY <2>2, <2>3
<1>12. RecordIsTrue'
  <2>1. \A k \in Keys : record[k] # NoRecord => pc'[record[k].first] # "claimed"
    BY <1>3, <1>4 DEF RecordIsTrue
  <2>2. ASSUME NEW k \in Keys, record[k] # NoRecord, NEW w, w = record[k].first
        PROVE  /\ record'[k].state = "FAILED" =>
                    \E q \in Requests : verdict[q] = "FAILED" /\ w \in wrote'[q]
               /\ record'[k].state = "COMPLETED" =>
                    \E q \in Requests : verdict[q] = "SUCCEEDED" /\ w \in wrote'[q]
    <3>1. CASE k \in hit
      <4>1. w \in wrote'[r]
        BY <1>3, <2>2, <3>1
      <4>2. QED
        BY <1>2, <1>4, <3>1, <4>1 DEF state
    <3>2. CASE k \notin hit
      <4>1. record'[k] = record[k] /\ \A q \in Requests : w \in wrote[q] => w \in wrote'[q]
        BY <1>2, <1>3, <1>4, <3>2
      <4>2. QED
        BY <2>2, <4>1 DEF RecordIsTrue, Failed
    <3>3. QED
      BY <3>1, <3>2
  <2>3. ASSUME NEW k \in Keys, record'[k] # NoRecord
        PROVE  /\ record[k] # NoRecord /\ record'[k].first = record[k].first
               /\ record'[k].state = "FAILED" =>
                    \E q \in Requests : verdict[q] = "FAILED" /\ record[k].first \in wrote'[q]
               /\ record'[k].state = "COMPLETED" =>
                    \E q \in Requests : verdict[q] = "SUCCEEDED" /\ record[k].first \in wrote'[q]
    <3>1. record[k] # NoRecord /\ record'[k].first = record[k].first
      BY <1>5, <2>3
    <3>2. QED
      BY <2>2, <3>1
  <2>4. SUFFICES ASSUME NEW k \in Keys, record'[k] # NoRecord, NEW w, w = record'[k].first
                 PROVE  /\ Key[w] = k /\ Body[w] = record'[k].body
                        /\ under'[w] = w /\ claimed'[w] = record'[k].id /\ pc'[w] # "claimed"
                        /\ record'[k].state = "FAILED" => Failed(w)'
                        /\ record'[k].state = "COMPLETED" =>
                             \E s \in Requests : verdict'[s] = "SUCCEEDED" /\ w \in wrote'[s]
    BY DEF RecordIsTrue
  <2>5. record[k] # NoRecord /\ w = record[k].first
    BY <2>3, <2>4
  <2>6. Key[w] = k /\ Body[w] = record[k].body /\ under[w] = w /\ claimed[w] = record[k].id
    BY <2>5 DEF RecordIsTrue
  <2>7. /\ Key[w] = k /\ Body[w] = record'[k].body
        /\ under'[w] = w /\ claimed'[w] = record'[k].id /\ pc'[w] # "claimed"
    BY <1>1, <1>5, <2>1, <2>5, <2>6
  <2>8. UNCHANGED verdict
    BY <1>1
  <2>9. record'[k].state = "FAILED" => Failed(w)'
    BY <2>3, <2>4, <2>5, <2>8 DEF Failed
  <2>10. record'[k].state = "COMPLETED" =>
           \E s \in Requests : verdict'[s] = "SUCCEEDED" /\ w \in wrote'[s]
    BY <2>3, <2>4, <2>5, <2>8
  <2>11. QED
    BY <2>7, <2>9, <2>10
<1>13. AnswersAreOwn'
  BY <1>1, <1>3, <1>7 DEF AnswersAreOwn, Earned
<1>14. StraysAreRetries'
  <2>1. SUFFICES ASSUME NEW k \in hit, record[k].first # under[r]
                 PROVE  sqlite /\ under[r] # r
    BY <1>1, <1>3 DEF StraysAreRetries, Strayed
  <2> DEFINE w == record[k].first
  <2>2. /\ k \in Keys /\ record[k] # NoRecord /\ record[k].id = claimed[r]
        /\ w \in Requests /\ under[w] = w /\ claimed[w] = claimed[r] /\ w # Nobody
    BY <1>4, KeyAssumption DEF hit, HasId, RecordIsTrue
  <2>3. sqlite
    BY <1>2, <2>1, <2>2 DEF SequenceIds
  <2>4. ASSUME under[r] = r PROVE FALSE
    <3>1. /\ Key[r] \in Keys /\ record[Key[r]] # NoRecord
          /\ record[Key[r]].first = r
      BY <1>1, <2>4, KeyAssumption DEF Home, Live, Running
    <3>2. record[Key[r]].id = claimed[r]
      BY <3>1 DEF RecordIsTrue
    <3>3. k = Key[r]
      BY <2>2, <2>3, <3>1, <3>2 DEF TableIds, HasId
    <3>4. QED
      BY <2>1, <2>4, <3>1, <3>3
  <2>5. QED
    BY <2>3, <2>4
<1>15. SequenceIds'
  BY <1>1 DEF SequenceIds
<1>16. TableIds'
  BY <1>1, <1>3, <1>5 DEF TableIds, Open, HasId
<1>17. QED
  BY <1>8, <1>9, <1>10, <1>11, <1>12, <1>13, <1>14, <1>15, <1>16

LEMMA CrashKeepsIInv ==
  ASSUME IInv, NEW r \in Requests, Crash(r)
  PROVE  IInv'
<1> USE DEF IInv
<1>1. /\ pc[r] \in {"inserting", "claimed", "running", "ended"}
      /\ pc' = [pc EXCEPT ![r] = "dead"]
      /\ UNCHANGED <<sqlite, kept, claimed, verdict, answer, record, lastId, under, wrote>>
      /\ writer' = [k \in Keys |-> IF writer[k] = r THEN Nobody ELSE writer[k]]
  BY DEF Crash, historyVars
<1>2. /\ \A q \in Requests : q # r => pc'[q] = pc[q]
      /\ pc'[r] = "dead" /\ wrote[r] = {}
      /\ \A k \in Keys : writer'[k] # Nobody => writer'[k] = writer[k] /\ writer[k] # r
      /\ \A k \in Keys : writer[k] # r => writer'[k] = writer[k]
  BY <1>1 DEF TypeOK, Claims
<1>3. /\ \A q \in Requests : Failed(q)' <=> Failed(q)
      /\ \A q \in Requests : Strayed(q)' <=> Strayed(q)
      /\ \A k \in Keys : Live(k)' <=> Live(k)
      /\ \A k \in Keys : record[k] # NoRecord => record[k].first \in Requests
  BY <1>1 DEF Failed, Strayed, Live, TypeOK, Records
<1>4. TypeOK'
  <2>1. /\ pc' \in [Requests -> {"new", "inserting", "claimed", "running", "ended", "answered", "dead"}]
        /\ writer' \in [Keys -> Requests \cup {Nobody}]
    BY <1>1 DEF TypeOK
  <2>2. \A k \in Keys : writer'[k] # Nobody => pc'[writer'[k]] = "claimed"
    BY <1>2 DEF TypeOK
  <2>3. QED
    BY <1>1, <2>1, <2>2 DEF TypeOK
<1>5. Claims'
  BY <1>1, <1>2 DEF Claims, Undecided
<1>6. SharedRecord'
  BY <1>1, <1>3 DEF SharedRecord, TypeOK
<1>7. WriterIsAlone'
  <2>1. \A k \in Keys : writer'[k] # Nobody =>
          Key[writer'[k]] = k /\ under'[writer'[k]] = writer'[k] /\ ~Live(k)'
    BY <1>1, <1>2, <1>3 DEF WriterIsAlone
  <2>2. \A q \in Requests : pc'[q] = "claimed" /\ under'[q] = q => writer'[Key[q]] = q
    BY <1>1, <1>2, KeyAssumption DEF WriterIsAlone
  <2>3. QED
    BY <2>1, <2>2 DEF WriterIsAlone
<1>8. RecordIsTrue'
  BY <1>1, <1>2, <1>3 DEF RecordIsTrue
<1>9. Home'
  BY <1>1, <1>2, <1>3, KeyAssumption DEF Home, Running
<1>10. AnswersAreOwn' /\ StraysAreRetries' /\ SequenceIds'
  BY <1>1, <1>3 DEF AnswersAreOwn, Earned, StraysAreRetries, SequenceIds
<1>11. TableIds'
  <2>1. \A q \in Requests : Open(q)' => Open(q)
    BY <1>2 DEF Open
  <2>2. QED
    BY <1>1, <1>2, <2>1 DEF TableIds, HasId
<1>12. QED
  BY <1>4, <1>5, <1>6, <1>7, <1>8, <1>9, <1>10, <1>11

(* A key expires, never under its inserter's run; a purge then deletes it.       *)
LEMMA TimeKeepsIInv ==
  ASSUME IInv, NEW k \in Keys, Lapse(k) \/ Purge(k)
  PROVE  IInv'
<1> USE DEF IInv
<1>1. UNCHANGED <<sqlite, pc, kept, claimed, verdict, answer, writer, lastId, under, wrote>>
  BY DEF Lapse, Purge, requestVars, historyVars
<1>2. /\ \A j \in Keys : j # k => record'[j] = record[j]
      /\ record[k] # NoRecord /\ record[k] \in Records
      /\ \/ record'[k] = NoRecord /\ ~Live(k)
         \/ /\ record'[k] \in Records /\ record'[k].id = record[k].id
            /\ record'[k].body = record[k].body /\ record'[k].state = record[k].state
            /\ record'[k].first = record[k].first /\ record'[k].lapsed
            /\ ~Running(record[k].first)
      /\ record' \in [Keys -> Records \cup {NoRecord}]
  <2>1. CASE Lapse(k)
    <3>1. record[k] # NoRecord /\ record[k] \in Records /\ ~Running(record[k].first)
      BY <2>1 DEF Lapse, Live, TypeOK
    <3>2. record' = [record EXCEPT ![k] = [record[k] EXCEPT !.lapsed = TRUE]]
      BY <2>1 DEF Lapse
    <3> DEFINE aged == [record[k] EXCEPT !.lapsed = TRUE]
    <3>3. /\ aged \in Records /\ aged.id = record[k].id /\ aged.body = record[k].body
          /\ aged.state = record[k].state /\ aged.first = record[k].first /\ aged.lapsed
      BY <3>1 DEF Records
    <3> HIDE DEF aged
    <3>4. QED
      BY <3>1, <3>2, <3>3 DEF TypeOK, aged
  <2>2. CASE Purge(k)
    BY <2>2 DEF Purge, TypeOK
  <2>3. QED
    BY <2>1, <2>2
<1>3. /\ \A q \in Requests : Failed(q)' <=> Failed(q)
      /\ \A q \in Requests : Strayed(q)' <=> Strayed(q)
      /\ \A j \in Keys : Live(j)' => Live(j) /\ j # k
  BY <1>1, <1>2, KeyAssumption DEF Failed, Strayed, Live
<1>4. TypeOK'
  BY <1>1, <1>2 DEF TypeOK
<1>5. Claims'
  BY <1>1 DEF Claims, Undecided
<1>6. SharedRecord'
  BY <1>1, <1>3 DEF SharedRecord, TypeOK
<1>7. WriterIsAlone'
  BY <1>1, <1>3 DEF WriterIsAlone
<1>8. RecordIsTrue'
  BY <1>1, <1>2, <1>3 DEF RecordIsTrue, TypeOK, Records
<1>9. Home'
  <2>1. \A q \in Requests : Running(q)' /\ under'[q] = q =>
          Live(Key[q]) /\ record[Key[q]].first = q /\ Running(q)
    BY <1>1 DEF Home, Running
  <2>2. \A q \in Requests : Running(q) /\ under[q] = q => Key[q] # k
    BY <1>2 DEF Home
  <2>3. QED
    BY <1>2, <2>1, <2>2, <1>1, KeyAssumption DEF Home, Live
<1>10. AnswersAreOwn' /\ StraysAreRetries' /\ SequenceIds'
  BY <1>1, <1>3 DEF AnswersAreOwn, Earned, StraysAreRetries, SequenceIds
<1>11. TableIds'
  <2>1. \A j \in Keys : \A n : HasId(j, n)' => HasId(j, n)
    BY <1>2 DEF HasId
  <2>2. \A j \in Keys : record'[j] # NoRecord => record[j] # NoRecord /\ record'[j].id = record[j].id
    BY <1>2
  <2>3. QED
    BY <1>1, <2>1, <2>2 DEF TableIds, Open
<1>12. QED
  BY <1>4, <1>5, <1>6, <1>7, <1>8, <1>9, <1>10, <1>11

LEMMA NextIInv == IInv /\ [Next]_vars => IInv'
<1>1. SUFFICES ASSUME IInv, [Next]_vars PROVE IInv'
  OBVIOUS
<1>2. CASE \E r \in Requests : Arrive(r) \/ Insert(r) \/ Begin(r) \/ RunEnds(r) \/ Settle(r) \/ Crash(r)
  BY <1>1, <1>2, ArriveKeepsIInv, InsertKeepsIInv, BeginKeepsIInv, RunEndsKeepsIInv,
     SettleKeepsIInv, CrashKeepsIInv
<1>3. CASE \E k \in Keys : Lapse(k) \/ Purge(k)
  BY <1>1, <1>3, TimeKeepsIInv
<1>4. CASE UNCHANGED vars
  <2>1. UNCHANGED <<sqlite, pc, kept, claimed, verdict, answer, record, writer, lastId, under, wrote>>
    BY <1>4 DEF vars, requestVars, recordVars, historyVars
  <2>2. TypeOK' /\ Claims' /\ WriterIsAlone' /\ Home'
    BY <1>1, <2>1
    DEF IInv, TypeOK, Claims, Undecided, WriterIsAlone, Home, Running, Live
  <2>3. SharedRecord' /\ RecordIsTrue'
    BY <1>1, <2>1 DEF IInv, SharedRecord, RecordIsTrue, Failed
  <2>4. AnswersAreOwn' /\ StraysAreRetries' /\ SequenceIds' /\ TableIds'
    BY <1>1, <2>1
    DEF IInv, AnswersAreOwn, Earned, StraysAreRetries, Strayed, SequenceIds, TableIds, Open, HasId
  <2>5. QED
    BY <2>2, <2>3, <2>4 DEF IInv
<1>5. QED
  BY <1>1, <1>2, <1>3, <1>4 DEF Next

-----------------------------------------------------------------------------
LEMMA KeyInvariant == Spec => []IInv
  BY InitIInv, NextIInv, PTL DEF Spec

(* Every variable keeps its type, and an insert that is not committed belongs to
   a process that is alive.                                                    *)
THEOREM KeysAreTyped == Spec => []TypeOK
<1>1. IInv => TypeOK
  BY DEF IInv
<1>2. QED
  BY <1>1, KeyInvariant, PTL

(* Until a failed run is recorded for a key, at most one request with it is in
   flight: claim's look-up and its unique constraint keep the others out.      *)
THEOREM OneInFlight == Spec => []OverlapOnlyAfterFailure
<1>1. ASSUME IInv, NEW r \in Requests, Running(r), under[r] # r
      PROVE  \E w \in Requests : Key[w] = Key[r] /\ Failed(w)
  <2> DEFINE w == under[r]
  <2>1. w \in Requests /\ w # Nobody /\ under[w] = w
    BY <1>1, KeyAssumption DEF IInv, TypeOK, Claims, Running
  <2>2. Key[r] = Key[w] /\ Failed(w)
    BY <1>1, <2>1 DEF IInv, SharedRecord
  <2>3. QED
    BY <2>1, <2>2
<1>2. ASSUME IInv, NEW r \in Requests, NEW s \in Requests, Running(r), Running(s),
             under[r] = r, under[s] = s, Key[r] = Key[s]
      PROVE  r = s
  BY <1>2 DEF IInv, Home
<1>3. IInv => OverlapOnlyAfterFailure
  BY <1>1, <1>2 DEF OverlapOnlyAfterFailure
<1>4. QED
  BY <1>3, KeyInvariant, PTL

(* Two runs under one record both succeed only if a failed run is recorded in it. *)
THEOREM SuccessIsNotRepeated == Spec => []BilledTwiceOnlyAfterFailure
<1>1. IInv => BilledTwiceOnlyAfterFailure
  BY DEF IInv, Claims, SharedRecord, BilledTwiceOnlyAfterFailure
<1>2. QED
  BY <1>1, KeyInvariant, PTL

(* On PostgreSQL every outcome goes to the record it belongs to; on SQLite only a
   retry's may go to another.                                                  *)
THEOREM OutcomesStayHome == Spec => []StraysAreRetries
<1>1. IInv => StraysAreRetries
  BY DEF IInv
<1>2. QED
  BY <1>1, KeyInvariant, PTL

(* No request runs under the record of another input or key, and none is told that
   its key completed unless its own input has succeeded or a success strayed.  *)
THEOREM AnswersAreNotBorrowed == Spec => []NoBorrowedAnswer
<1>1. IInv => NoBorrowedAnswer
  BY DEF IInv, SharedRecord, AnswersAreOwn, NoBorrowedAnswer
<1>2. QED
  BY <1>1, KeyInvariant, PTL

(* On PostgreSQL, then, who is told that its key completed has completed.        *)
THEOREM SequencesKeepAnswersHonest == Spec => [](~sqlite => CompletedIsHonest)
<1>1. IInv => (~sqlite => CompletedIsHonest)
  BY DEF IInv, AnswersAreOwn, StraysAreRetries, CompletedIsHonest
<1>2. QED
  BY <1>1, KeyInvariant, PTL
=============================================================================
