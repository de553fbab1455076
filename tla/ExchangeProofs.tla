--------------------------- MODULE ExchangeProofs ---------------------------
(***************************************************************************)
(* Proofs about one request, for any adapters, statuses, texts, asks,      *)
(* schemas, task classes and modes: the exchange, the provider call it     *)
(* makes, and the row that records it.                                     *)
(*                                                                         *)
(* ProviderCall: what is left behind when a call is over depends on what   *)
(* the call could have had.  CallInv keeps with each phase the client and  *)
(* the processes its adapter may hold in it.                               *)
(*                                                                         *)
(* Exchange: a request is judged by what was asked long after the body is  *)
(* gone.  ExchangeInv keeps, from stage to stage, where the canonical      *)
(* request and the plan came from (Normal, Planned) and what may have been *)
(* called and answered by then (Unpaid, Paid).  The rest is about          *)
(* operators: what is picked from a sequence, what a plan that stops early *)
(* decides, what a schema's check leaves, what joining gives back.         *)
(*                                                                         *)
(* RequestRows: the task never reads its row and the job never looks at    *)
(* the task; what keeps them apart is the deadline, which both look at.    *)
(* RowsInv says so: what the job holds is late (SweepIsLate), and while a  *)
(* task runs its row is untouched or has been expired late (RunningRows).  *)
(***************************************************************************)
EXTENDS Exchange, RequestRows, SumsProofs, SequenceTheorems

-----------------------------------------------------------------------------
(* The provider call.                                                         *)

Replies == [kind : {"none", "result", "failure", "fault", "cancelled"},
            outcome : Outcomes, retryable : BOOLEAN, text : Texts \cup {NoText}]

\* Whose processes, whose client, and in which phase.
Held ==
  /\ phase = "idle" => client = "none" /\ leader = "none"
  /\ leader = "none" => child = "none"
  /\ adapter # "commandcode" => leader = "none"
  /\ adapter = "commandcode" => client = "none"
  /\ phase = "stopping" => adapter = "commandcode"
  /\ phase = "receiving" => adapter = "openai_compatible"
  /\ phase \in {"waiting", "stopping"} /\ adapter = "commandcode" => leader \in {"running", "exited"}

CallInv == CallTypeOK /\ Held /\ NothingLeftBehind

(* A failure of any outcome in the gateway's vocabulary is a reply, and nothing
   but a cancelled task makes a reply "cancelled".                            *)
LEMMA FailureIsReply ==
  ASSUME NEW outcome \in Outcomes, NEW retryable \in BOOLEAN
  PROVE  /\ Failure(outcome, retryable) \in Replies
         /\ Failure(outcome, retryable).kind = "failure"
         /\ Failure(outcome, retryable).outcome = outcome
  BY DEF Failure, Replies

LEMMA ResultIsReply ==
  ASSUME NEW text \in Texts
  PROVE  Result(text) \in Replies /\ Result(text).kind = "result"
  BY DEF Result, Replies, Outcomes

LEMMA OtherReplies ==
  /\ Fault \in Replies /\ Fault.kind = "fault"
  /\ Cancelled \in Replies /\ Cancelled.kind = "cancelled"
  /\ NoReply \in Replies
  BY DEF Fault, Cancelled, NoReply, Failure, Replies, Outcomes

(* _classify knows an outcome for every status.                               *)
LEMMA ClassifyIsReply ==
  ASSUME NEW status \in Nat
  PROVE  Classify(status) \in Replies /\ Classify(status).kind = "failure"
<1>1. \A o \in {"AUTH_ERROR", "RATE_LIMITED", "CONTEXT_REJECTED", "PROVIDER_ERROR"} :
        o \in Outcomes
  BY DEF Outcomes
<1>2. (status \in RetryableStatuses) \in BOOLEAN
  BY DEF RetryableStatuses
<1>3. CASE status = 401 \/ status = 403
  <2>1. status \in {401, 403} /\ status # 429 /\ status # 413
    BY <1>3
  <2>2. Classify(status) = Failure("AUTH_ERROR", FALSE)
    BY <2>1 DEF Classify
  <2> QED BY <2>2, <1>1, FailureIsReply
<1>4. CASE status = 429
  <2>1. Classify(status) = Failure("RATE_LIMITED", TRUE)
    BY <1>4 DEF Classify
  <2> QED BY <2>1, <1>1, FailureIsReply
<1>5. CASE status = 413
  <2>1. Classify(status) = Failure("CONTEXT_REJECTED", FALSE)
    BY <1>5 DEF Classify
  <2> QED BY <2>1, <1>1, FailureIsReply
<1>6. CASE status # 401 /\ status # 403 /\ status # 429 /\ status # 413
  <2> DEFINE retry == status \in RetryableStatuses
  <2>1. Classify(status) = Failure("PROVIDER_ERROR", retry)
    BY <1>6 DEF Classify
  <2>2. retry \in BOOLEAN
    BY <1>2
  <2> HIDE DEF retry
  <2> QED BY <2>1, <2>2, <1>1, FailureIsReply
<1> QED BY <1>3, <1>4, <1>5, <1>6

LEMMA ParsedIsReply ==
  ASSUME NEW retryable \in BOOLEAN, NEW r \in Parsed(retryable)
  PROVE  r \in Replies /\ r.kind # "cancelled"
<1>1. CASE \E t \in Texts : r = Result(t)
  BY <1>1, ResultIsReply
<1>2. CASE r = Failure("INVALID_RESPONSE", retryable)
  BY <1>2, FailureIsReply DEF Outcomes
<1>3. CASE r = Fault
  BY <1>3, OtherReplies
<1> QED BY <1>1, <1>2, <1>3 DEF Parsed

LEMMA TimeoutIsReply ==
  /\ Failure("TIMEOUT", TRUE) \in Replies
  /\ Failure("TIMEOUT", TRUE).kind = "failure"
  /\ Failure("TIMEOUT", TRUE).outcome = "TIMEOUT"
  BY FailureIsReply DEF Outcomes

LEMMA CallInitInv == CallInit => CallInv
<1> SUFFICES ASSUME CallInit PROVE CallInv
  OBVIOUS
<1>1. CallTypeOK
  BY OtherReplies DEF CallInit, CallTypeOK, Replies
<1>2. Held /\ NothingLeftBehind
  BY DEF CallInit, Held, NothingLeftBehind
<1> QED BY <1>1, <1>2 DEF CallInv

-----------------------------------------------------------------------------
(* The steps of the HTTP adapter: its finally closes a client the call owns.  *)
LEMMA PostInv ==
  ASSUME CallInv, Post PROVE CallInv'
<1> USE DEF CallInv
<1>1. CallTypeOK'
  BY DEF Post, CallTypeOK
<1>2. Held' /\ NothingLeftBehind'
  BY DEF Post, Held, NothingLeftBehind, CallTypeOK
<1> QED BY <1>1, <1>2

LEMMA PostEndsInv ==
  ASSUME CallInv, NEW replies, PostEnds(replies),
         \A r \in replies : r \in Replies /\ r.kind # "cancelled"
  PROVE  CallInv'
<1>1. PICK r \in replies : Over(r) /\ CloseOwned
  BY DEF PostEnds
<1>2. CallTypeOK'
  BY <1>1 DEF PostEnds, Over, CloseOwned, CallTypeOK, CallInv, Replies
<1>3. Held' /\ NothingLeftBehind'
  BY <1>1 DEF PostEnds, Over, CloseOwned, Held, NothingLeftBehind, CallTypeOK, CallInv, Alive
<1> QED BY <1>2, <1>3 DEF CallInv

LEMMA RespondsInv ==
  ASSUME CallInv, Responds PROVE CallInv'
<1>1. ASSUME NEW r \in {Classify(s) : s \in Statuses} \cup Parsed(FALSE)
      PROVE  r \in Replies /\ r.kind # "cancelled"
  BY <1>1, ClassifyIsReply, ParsedIsReply, CallAssumption
<1> QED BY <1>1, PostEndsInv DEF Responds

LEMMA PostFailsInv ==
  ASSUME CallInv, PostTimesOut \/ TransportFails PROVE CallInv'
<1>1. \A o \in {"TIMEOUT", "PROVIDER_ERROR"} :
        Failure(o, TRUE) \in Replies /\ Failure(o, TRUE).kind # "cancelled"
  BY FailureIsReply DEF Outcomes
<1> QED BY <1>1, PostEndsInv DEF PostTimesOut, TransportFails

(* A response that comes in pieces changes nothing but the phase.              *)
LEMMA PiecesInv ==
  ASSUME CallInv, Receives \/ ReadOn PROVE CallInv'
<1>1. CallTypeOK'
  BY DEF Receives, ReadOn, CallTypeOK, CallInv
<1>2. Held' /\ NothingLeftBehind'
  BY DEF Receives, ReadOn, Held, NothingLeftBehind, CallTypeOK, CallInv
<1> QED BY <1>1, <1>2 DEF CallInv

(* The steps of the adapter of the command-line tool.                         *)
LEMMA SpawnInv ==
  ASSUME CallInv, Spawn PROVE CallInv'
<1>1. Failure("AUTH_ERROR", FALSE) \in Replies /\ Failure("AUTH_ERROR", FALSE).kind = "failure"
  BY FailureIsReply DEF Outcomes
<1>2. CallTypeOK'
  BY <1>1 DEF Spawn, Over, CallTypeOK, CallInv, Replies
<1>3. Held' /\ NothingLeftBehind'
  BY <1>1 DEF Spawn, Over, Held, NothingLeftBehind, CallTypeOK, CallInv, Alive
<1> QED BY <1>2, <1>3 DEF CallInv

LEMMA CollectInv ==
  ASSUME CallInv, Collect PROVE CallInv'
<1>1. PICK r \in Parsed(FALSE) \cup {Failure("PROVIDER_ERROR", TRUE)} : Over(r)
  BY DEF Collect
<1>2. r \in Replies /\ r.kind # "cancelled"
  BY <1>1, ParsedIsReply, FailureIsReply DEF Outcomes
<1>3. CallTypeOK'
  BY <1>1, <1>2 DEF Collect, Over, CallTypeOK, CallInv, Replies
<1>4. Held' /\ NothingLeftBehind'
  BY <1>1, <1>2 DEF Collect, PipesClosed, Over, Held, NothingLeftBehind, CallTypeOK, CallInv,
                    Alive
<1> QED BY <1>3, <1>4 DEF CallInv

LEMMA CallTimesOutInv ==
  ASSUME CallInv, CallTimesOut PROVE CallInv'
<1>1. CallTypeOK'
  BY TimeoutIsReply DEF CallTimesOut, Over, CallTypeOK, CallInv, Replies
<1>2. Held' /\ NothingLeftBehind'
  BY TimeoutIsReply DEF CallTimesOut, Over, Held, NothingLeftBehind, CallTypeOK, CallInv, Alive
<1> QED BY <1>1, <1>2 DEF CallInv

LEMMA ReapInv ==
  ASSUME CallInv, Reap PROVE CallInv'
<1>1. CallTypeOK'
  BY TimeoutIsReply DEF Reap, Over, CallTypeOK, CallInv, Replies
<1>2. Held' /\ NothingLeftBehind'
  BY TimeoutIsReply DEF Reap, Over, Held, NothingLeftBehind, CallTypeOK, CallInv, Alive
<1> QED BY <1>1, <1>2 DEF CallInv

LEMMA EscalateInv ==
  ASSUME CallInv, Escalate PROVE CallInv'
<1>1. CallTypeOK'
  BY TimeoutIsReply DEF Escalate, GraceOver, KillGroup, Over, CallTypeOK, CallInv, Replies
<1>2. Held' /\ NothingLeftBehind'
  BY TimeoutIsReply
  DEF Escalate, GraceOver, KillGroup, Over, Held, NothingLeftBehind, CallTypeOK, CallInv, Alive
<1> QED BY <1>1, <1>2 DEF CallInv

(* The fakes hold nothing; a cancelled task still runs the finally of _post.  *)
LEMMA PretendInv ==
  ASSUME CallInv, Pretend PROVE CallInv'
<1>1. PICK r \in ScriptedFailures \cup {Result(t) : t \in Texts} : Over(r)
  BY DEF Pretend
<1>2. r \in Replies /\ r.kind # "cancelled"
  <2>1. CASE r \in ScriptedFailures
    <3>1. {"RATE_LIMITED", "PROVIDER_ERROR", "AUTH_ERROR", "TIMEOUT", "PARTIAL"}
            \subseteq Outcomes
      BY DEF Outcomes
    <3>2. \A outcome \in Outcomes, retryable \in BOOLEAN :
            /\ Failure(outcome, retryable) \in Replies
            /\ Failure(outcome, retryable).kind = "failure"
      BY FailureIsReply
    <3>3. QED
      BY <2>1, <3>1, <3>2 DEF ScriptedFailures
  <2>2. CASE \E t \in Texts : r = Result(t)
    BY <2>2, ResultIsReply
  <2>3. QED
    BY <1>1, <2>1, <2>2
<1>3. CallTypeOK'
  BY <1>1, <1>2 DEF Pretend, Over, CallTypeOK, CallInv, Replies
<1>4. Held' /\ NothingLeftBehind'
  BY <1>1, <1>2 DEF Pretend, Over, Held, NothingLeftBehind, CallTypeOK, CallInv, Alive
<1> QED BY <1>3, <1>4 DEF CallInv

LEMMA CallCancelledInv ==
  ASSUME CallInv, CallCancelled PROVE CallInv'
<1>1. CallTypeOK'
  BY OtherReplies DEF CallCancelled, CloseOwned, Over, CallTypeOK, CallInv, Replies
<1>2. Held' /\ NothingLeftBehind'
  BY OtherReplies DEF CallCancelled, CloseOwned, Over, Held, NothingLeftBehind, CallTypeOK,
                      CallInv
<1> QED BY <1>1, <1>2 DEF CallInv

(* The processes start and exit as they like: after the call only a leader that
   was left running, by a cancelled task, can start another.                  *)
LEMMA ProcessInv ==
  ASSUME CallInv, ProcessStep PROVE CallInv'
<1>1. CASE LeaderForks
  BY <1>1 DEF LeaderForks, CallInv, CallTypeOK, Held, NothingLeftBehind, Alive
<1>2. CASE LeaderExits
  BY <1>2 DEF LeaderExits, CallInv, CallTypeOK, Held, NothingLeftBehind, Alive
<1>3. CASE ChildExits
  BY <1>3 DEF ChildExits, CallInv, CallTypeOK, Held, NothingLeftBehind, Alive
<1> QED BY <1>1, <1>2, <1>3 DEF ProcessStep

LEMMA CallNextInv == CallInv /\ [CallNext]_callVars => CallInv'
<1> SUFFICES ASSUME CallInv, [CallNext]_callVars PROVE CallInv'
  OBVIOUS
<1>1. CASE GatewayStep
  BY <1>1, PostInv, PiecesInv, RespondsInv, PostFailsInv, SpawnInv, CollectInv, CallTimesOutInv,
     ReapInv, EscalateInv, PretendInv, CallCancelledInv DEF GatewayStep
<1>2. CASE Receives \/ ProcessStep
  BY <1>2, PiecesInv, ProcessInv
<1>3. CASE UNCHANGED callVars
  BY <1>3 DEF callVars, CallInv, CallTypeOK, Held, NothingLeftBehind, Alive
<1> QED BY <1>1, <1>2, <1>3 DEF CallNext

-----------------------------------------------------------------------------
(* Every reply is in the vocabulary of the loop, which applies its transition
   table to it: no adapter reports an outcome the loop does not know.         *)
THEOREM CallsAreTyped == CallSpec => []CallTypeOK
<1>1. CallInv => CallTypeOK
  BY DEF CallInv
<1> QED BY <1>1, CallInitInv, CallNextInv, PTL DEF CallSpec

(* However a call ends -- answer, failure, fault, timeout or cancellation -- the
   client it opened is closed, and unless its task was cancelled no process of it
   runs on, but those of a tool that exited before SIGKILL.                   *)
THEOREM NothingIsLeftBehind == CallSpec => []NothingLeftBehind
<1>1. CallInv => NothingLeftBehind
  BY DEF CallInv
<1> QED BY <1>1, CallInitInv, CallNextInv, PTL DEF CallSpec

-----------------------------------------------------------------------------
(* The exchange, step by step.                                                *)

\* The stages at which nothing has been called.
Early == {"received", "read", "known", "valid", "prepared", "normal", "planned"}

Unpaid == stage \in Early => phase = "idle"

\* The body is the client's until it is normalised, and valid once it is validated.
Received ==
  /\ stage \in {"received", "read", "known", "valid", "prepared"} => body \in Bodies(ask)
  /\ stage \in {"valid", "prepared"} => BodyError(body) = "none"

Begun == stage \in {"planned", "calling"} \/ phase # "idle"

\* What goes on is the normal form of a body of the client's that was in order.
FromBody ==
  \E b \in Bodies(ask) : BodyError(b) = "none" /\ ~Unsupported(b) /\ canonical = Normalize(b)

Normal == stage = "normal" \/ Begun => FromBody

FromPolicy ==
  \E class \in Classes, mode \in Modes, reviewed \in BOOLEAN :
    plan = PlanFor(canonical, class, mode, reviewed)

Planned ==
  /\ Begun => FromPolicy
  /\ plan = <<>> \/ FromPolicy
  /\ stage \in Early \ {"planned"} => plan = <<>>

Silent == stage # "answered" => answer.code = "none" /\ ~answer.retryable

Accepted == Decision(Aggregate(RunPlan(plan, reply.text, canonical))) = "accept"

\* An answer after a call.
Paid ==
  stage = "answered" /\ phase # "idle" =>
    /\ ~answer.retryable /\ answer.code \in {"ok", "provider_error", "internal_error"}
    /\ answer.code = "ok" => reply.kind = "result" /\ Accepted /\ answer.text = reply.text

ResultHasText == reply.kind = "result" => reply.text \in Texts

Asked == ask \in Asks

ExchangeInv ==
  /\ Asked /\ Unpaid /\ Received /\ Normal /\ Planned /\ Silent /\ Paid
  /\ CallInv /\ ResultHasText

(* An exchange makes its call as any caller of generate does.                 *)
LEMMA ExchangeStepCalls == [Next]_vars => [CallNext]_callVars
<1> SUFFICES ASSUME [Next]_vars PROVE [CallNext]_callVars
  OBVIOUS
<1>1. CASE Handler
  <2>1. CASE BeginCall \/ Calling
    BY <2>1 DEF BeginCall, Calling, CallNext, GatewayStep
  <2>2. CASE ~(BeginCall \/ Calling)
    BY <1>1, <2>2
    DEF Handler, ReadBody, Authenticate, ValidateBody, Prepare, NormalizeBody, DryRun, Admit,
        Turned, CallFailed, Judge
  <2> QED BY <2>1, <2>2
<1>2. CASE Others
  BY <1>2 DEF Others, CallNext
<1>3. CASE Cancel
  BY <1>3 DEF Cancel, CallNext, GatewayStep
<1>4. CASE UNCHANGED vars
  BY <1>4 DEF vars
<1> QED BY <1>1, <1>2, <1>3, <1>4 DEF Next

(* A result is a text the provider generated.                                 *)
LEMMA ResultsHaveTexts ==
  ASSUME ResultHasText, [CallNext]_callVars PROVE ResultHasText'
<1>1. \A t \in Texts : Result(t).text = t
  BY DEF Result
<1>2. \A o, r : Failure(o, r).kind # "result"
  BY DEF Failure
<1>3. Fault.kind # "result" /\ Cancelled.kind # "result"
  BY DEF Fault, Cancelled, Failure
<1>4. \A s \in Statuses : Classify(s).kind # "result"
  BY CallAssumption, ClassifyIsReply
<1>5. ASSUME NEW retryable, NEW r \in Parsed(retryable) PROVE r.kind = "result" => r.text \in Texts
  BY <1>1, <1>2, <1>3 DEF Parsed
<1>6. ASSUME NEW r, Over(r), r.kind = "result" => r.text \in Texts PROVE ResultHasText'
  BY <1>6 DEF Over, ResultHasText
<1>7. CASE UNCHANGED reply
  BY <1>7 DEF ResultHasText
<1>8. CASE Post \/ Receives \/ ReadOn \/ ProcessStep \/ UNCHANGED callVars
  BY <1>7, <1>8 DEF Post, Receives, ReadOn, ProcessStep, LeaderForks, LeaderExits, ChildExits, callVars
<1>9. CASE Responds
  BY <1>4, <1>5, <1>6, <1>9 DEF Responds, PostEnds
<1>10. CASE PostTimesOut \/ TransportFails
  BY <1>2, <1>6, <1>10 DEF PostTimesOut, TransportFails, PostEnds
<1>11. CASE Spawn \/ CallTimesOut \/ Reap \/ Escalate
  BY <1>2, <1>6, <1>7, <1>11 DEF Spawn, CallTimesOut, Reap, Escalate
<1>12. CASE Collect
  BY <1>2, <1>5, <1>6, <1>12 DEF Collect
<1>13. CASE Pretend
  BY <1>1, <1>2, <1>6, <1>13 DEF Pretend, ScriptedFailures
<1>14. CASE CallCancelled
  BY <1>3, <1>6, <1>14 DEF CallCancelled
<1> QED
  BY <1>8, <1>9, <1>10, <1>11, <1>12, <1>13, <1>14 DEF CallNext, GatewayStep

LEMMA ExchangeInitInv == Init => ExchangeInv
<1> SUFFICES ASSUME Init PROVE ExchangeInv
  OBVIOUS
<1>1. CallInv
  BY CallInitInv DEF Init
<1>2. Asked /\ Unpaid /\ Received /\ Silent /\ Paid
  BY DEF Init, Asked, Unpaid, Received, Silent, Paid, CallInit
<1>3. Normal /\ Planned
  BY DEF Init, Normal, Planned, Begun, CallInit
<1>4. ResultHasText
  BY DEF Init, ResultHasText, CallInit, NoReply, Failure
<1> QED BY <1>1, <1>2, <1>3, <1>4 DEF ExchangeInv

\* The parts that speak of the handler.
HandlerInv == Asked /\ Unpaid /\ Received /\ Normal /\ Planned /\ Silent /\ Paid

(* What runs before the body is normalised answers for the request, or lets it
   pass.                                                                      *)
LEMMA AdmissionKeepsInv ==
  ASSUME HandlerInv, ReadBody \/ Authenticate \/ ValidateBody \/ Prepare
  PROVE  HandlerInv'
<1>1. stage \in {"received", "read", "known", "valid"} /\ phase = "idle" /\ phase' = "idle"
  BY DEF HandlerInv, Unpaid, Early, ReadBody, Authenticate, ValidateBody, Prepare, callVars
<1>2. stage' \in {"read", "known", "valid", "prepared", "answered"} /\ UNCHANGED wants
  BY DEF ReadBody, Authenticate, ValidateBody, Prepare, Error, Go
<1>3. Asked' /\ Unpaid' /\ Paid'
  BY <1>1, <1>2 DEF HandlerInv, Asked, Unpaid, Paid, wants
<1>4. Received'
  BY <1>1, <1>2 DEF HandlerInv, Received, wants, ReadBody, Authenticate, ValidateBody,
                    Prepare, Error, Go
<1>5. Normal' /\ Planned'
  BY <1>1, <1>2 DEF HandlerInv, Normal, Planned, Begun, FromBody, FromPolicy, Early, wants
<1>6. Silent'
  BY <1>1 DEF HandlerInv, Silent, ReadBody, Authenticate, ValidateBody, Prepare, Error, Go
<1> QED BY <1>3, <1>4, <1>5, <1>6 DEF HandlerInv

LEMMA NormalizeKeepsInv ==
  ASSUME HandlerInv, NormalizeBody PROVE HandlerInv'
<1>1. stage = "prepared" /\ phase = "idle" /\ phase' = "idle" /\ UNCHANGED <<ask, plan>>
  BY DEF HandlerInv, Unpaid, Early, NormalizeBody, callVars
<1>2. CASE Unsupported(body)
  <2>1. stage' = "answered" /\ UNCHANGED canonical
    BY <1>2 DEF NormalizeBody, Error
  <2> QED
    BY <1>1, <2>1
    DEF HandlerInv, Asked, Unpaid, Received, Normal, Planned, Silent, Paid, Begun,
        FromPolicy, Early
<1>3. CASE ~Unsupported(body)
  <2>1. stage' = "normal" /\ UNCHANGED answer /\ canonical' = Normalize(body)
    BY <1>3 DEF NormalizeBody, Go
  <2>2. body \in Bodies(ask) /\ BodyError(body) = "none"
    BY <1>1 DEF HandlerInv, Received
  <2>3. FromBody'
    BY <1>1, <1>3, <2>1, <2>2 DEF FromBody
  <2>4. plan' = <<>> /\ ~Begun'
    BY <1>1, <2>1 DEF HandlerInv, Planned, Begun, Early
  <2>5. Normal' /\ Planned'
    BY <2>3, <2>4 DEF Normal, Planned
  <2> QED
    BY <1>1, <2>1, <2>5 DEF HandlerInv, Asked, Unpaid, Received, Silent, Paid
<1> QED BY <1>2, <1>3

LEMMA DryRunKeepsInv ==
  ASSUME HandlerInv, DryRun PROVE HandlerInv'
<1>1. stage = "normal" /\ phase = "idle" /\ phase' = "idle" /\ UNCHANGED wants
  BY DEF HandlerInv, Unpaid, Early, DryRun, callVars
<1>2. stage' = "answered"
  BY DEF DryRun, Deliver
<1> QED
  BY <1>1, <1>2
  DEF HandlerInv, Asked, Unpaid, Received, Normal, Planned, Silent, Paid, Begun, FromPolicy,
      Early, wants

LEMMA AdmitKeepsInv ==
  ASSUME HandlerInv, Admit PROVE HandlerInv'
<1>1. /\ stage = "normal" /\ phase = "idle" /\ phase' = "idle"
      /\ UNCHANGED <<ask, body, canonical>>
  BY DEF HandlerInv, Unpaid, Early, Admit, callVars
<1>2. CASE stage' = "answered" /\ UNCHANGED plan
  BY <1>1, <1>2
  DEF HandlerInv, Asked, Unpaid, Received, Normal, Planned, Silent, Paid, Begun, FromPolicy,
      Early
<1>3. CASE Go("planned") /\ FromPolicy'
  <2>1. FromBody'
    BY <1>1 DEF HandlerInv, Normal, FromBody
  <2>2. Normal' /\ Planned'
    BY <1>3, <2>1 DEF Normal, Planned, Go
  <2> QED
    BY <1>1, <1>3, <2>2 DEF HandlerInv, Asked, Unpaid, Received, Silent, Paid, Go
<1>4. (stage' = "answered" /\ UNCHANGED plan) \/ (Go("planned") /\ FromPolicy')
  BY <1>1 DEF Admit, Error, FromPolicy
<1> QED BY <1>2, <1>3, <1>4

LEMMA TurnedKeepsInv ==
  ASSUME HandlerInv, Turned PROVE HandlerInv'
<1>1. stage = "planned" /\ phase = "idle" /\ phase' = "idle" /\ UNCHANGED wants
  BY DEF HandlerInv, Unpaid, Early, Turned, callVars
<1>2. stage' = "answered"
  BY DEF Turned, Error
<1>3. FromPolicy'
  BY <1>1 DEF HandlerInv, Planned, Begun, FromPolicy, wants
<1> QED
  BY <1>1, <1>2, <1>3
  DEF HandlerInv, Asked, Unpaid, Received, Normal, Planned, Silent, Paid, Begun, Early, wants

(* Whatever the call and the processes do, the handler waits with what it has. *)
LEMMA CallKeepsInv ==
  ASSUME HandlerInv, BeginCall \/ Calling \/ Cancel PROVE HandlerInv'
<1>1. /\ stage \in {"planned", "calling"} /\ stage' \in {"calling", "cancelled"}
      /\ UNCHANGED wants /\ UNCHANGED answer
  BY DEF BeginCall, Calling, Cancel, Go
<1>2. FromBody /\ FromPolicy
  BY <1>1 DEF HandlerInv, Normal, Planned, Begun
<1>3. FromBody' /\ FromPolicy'
  BY <1>1, <1>2 DEF FromBody, FromPolicy, wants
<1> QED
  BY <1>1, <1>3
  DEF HandlerInv, Asked, Unpaid, Received, Normal, Planned, Silent, Paid, Early, wants

LEMMA OthersKeepInv ==
  ASSUME HandlerInv, Others \/ UNCHANGED vars PROVE HandlerInv'
<1>1. /\ UNCHANGED <<wants, stage, answer, reply>>
      /\ (phase' = "idle") = (phase = "idle")
  BY DEF Others, Receives, ProcessStep, LeaderForks, LeaderExits, ChildExits, vars, callVars
<1>2. FromBody' = FromBody /\ FromPolicy' = FromPolicy /\ Accepted' = Accepted
  BY <1>1 DEF FromBody, FromPolicy, Accepted, wants
<1> QED
  BY <1>1, <1>2
  DEF HandlerInv, Asked, Unpaid, Received, Normal, Planned, Silent, Paid, Begun, wants

(* What is answered after a call: an accepted output, or that there is none.  *)
LEMMA ConclusionKeepsInv ==
  ASSUME HandlerInv, CallFailed \/ Judge PROVE HandlerInv'
<1>1. /\ stage = "calling" /\ stage' = "answered"
      /\ UNCHANGED wants /\ UNCHANGED callVars
  BY DEF CallFailed, Judge, Error, Deliver
<1>2. FromBody /\ FromPolicy
  BY <1>1 DEF HandlerInv, Normal, Planned, Begun
<1>3. FromBody' /\ FromPolicy' /\ Accepted' = Accepted
  BY <1>1, <1>2 DEF FromBody, FromPolicy, Accepted, wants, callVars
<1>4. \A s \in {"FAILED_PARTIAL", "FAILED_EXHAUSTED"} : ErrorFor(s) = "provider_error"
  BY DEF ErrorFor
<1>5. Paid'
  <2>1. CASE Error("provider_error") \/ Error("internal_error")
    <3>1. ASSUME NEW code, Error(code)
          PROVE  answer'.code = code /\ answer'.retryable = (code \in RetryableCodes)
      BY <3>1 DEF Error
    <3>2. "provider_error" \notin RetryableCodes /\ "internal_error" \notin RetryableCodes
      BY DEF RetryableCodes
    <3>3. ~answer'.retryable /\ answer'.code \in {"provider_error", "internal_error"}
      BY <2>1, <3>1, <3>2, Zenon
    <3> QED BY <3>3 DEF Paid
  <2>2. CASE Deliver(reply.text) /\ reply.kind = "result" /\ Accepted
    BY <1>1, <1>3, <2>2 DEF Paid, Deliver, callVars
  <2>3. CASE CallFailed
    BY <1>4, <2>1, <2>3 DEF CallFailed
  <2>4. CASE Judge
    BY <1>4, <2>1, <2>2, <2>4 DEF Judge, Accepted
  <2> QED BY <2>3, <2>4
<1> QED
  BY <1>1, <1>3, <1>5
  DEF HandlerInv, Asked, Unpaid, Received, Normal, Planned, Silent, Early, wants

LEMMA ExchangeNextInv == ExchangeInv /\ [Next]_vars => ExchangeInv'
<1> SUFFICES ASSUME ExchangeInv, [Next]_vars PROVE ExchangeInv'
  OBVIOUS
<1>1. CallInv' /\ ResultHasText'
  BY ExchangeStepCalls, CallNextInv, ResultsHaveTexts DEF ExchangeInv
<1>2. HandlerInv
  BY DEF ExchangeInv, HandlerInv
<1>3. HandlerInv'
  BY <1>2, AdmissionKeepsInv, NormalizeKeepsInv, DryRunKeepsInv, AdmitKeepsInv, TurnedKeepsInv,
     CallKeepsInv, OthersKeepInv, ConclusionKeepsInv
  DEF Next, Handler
<1> QED BY <1>1, <1>3 DEF ExchangeInv, HandlerInv

THEOREM ExchangeInvariant == Spec => []ExchangeInv
BY ExchangeInitInv, ExchangeNextInv, PTL DEF Spec

(* An exchange makes one call, and makes it as ProviderCall says.             *)
THEOREM ExchangeMakesOneCall == Spec => CallSpec
<1>1. Init => CallInit
  BY DEF Init
<1> QED BY <1>1, ExchangeStepCalls, PTL DEF Spec, CallSpec

(* However an exchange ends, nothing of its call is left behind.              *)
THEOREM ExchangeLeavesNothing == Spec => []NothingLeftBehind
BY ExchangeMakesOneCall, NothingIsLeftBehind, PTL

(* An answer that invites a retry, or refuses, is given before any call: after one
   there are only the output and two errors, neither of which is retryable or a
   refusal.                                                                   *)
THEOREM RefusalsPrecedeWork == Spec => []RefusedBeforeWork
<1>1. ExchangeInv => RefusedBeforeWork
  <2> SUFFICES ASSUME ExchangeInv, answer.retryable \/ answer.code \in Refusals
               PROVE  phase = "idle"
    BY DEF RefusedBeforeWork
  <2>1. Silent /\ Paid
    BY DEF ExchangeInv
  <2>2. {"none", "ok", "provider_error", "internal_error"} \cap Refusals = {}
    BY DEF Refusals, RefusalStatus
  <2> QED
    BY <2>1, <2>2 DEF Silent, Paid
<1> QED BY <1>1, ExchangeInvariant, PTL

-----------------------------------------------------------------------------
(* The validators' verdicts.                                                  *)

LEMMA LeastOf ==
  ASSUME NEW S \in SUBSET Nat, S # {}
  PROVE  Min(S) \in S /\ \A k \in S : Min(S) <= k
<1>1. \E m \in S : \A k \in S : m <= k
  BY LeastNat
<1> QED BY <1>1 DEF Min

(* An aggregate is the gravest of the verdicts: it is PASS only if all of them
   are, and one that ends the plan outweighs the others.                      *)
LEMMA AggregateIsGravest ==
  ASSUME NEW verdicts
  PROVE  /\ (\E i \in DOMAIN verdicts : Stops(verdicts[i]))
              => Decision(Aggregate(verdicts)) = "move on"
         /\ Decision(Aggregate(verdicts)) = "accept"
              => \A i \in DOMAIN verdicts : verdicts[i] \in ToSet(Severity) => verdicts[i] = "PASS"
<1> DEFINE ranks == {k \in DOMAIN Severity : Severity[k] \in ToSet(verdicts) \cup {"PASS"}}
           least == Min(ranks)
<1>1. DOMAIN Severity = 1..6 /\ 6 \in ranks
  BY DEF Severity
<1>2. ranks \in SUBSET Nat /\ ranks # {}
  BY <1>1
<1>3. least \in ranks /\ \A k \in ranks : least <= k
  BY <1>2, LeastOf
<1>4. Aggregate(verdicts) = Severity[least]
  BY DEF Aggregate
<1>5. \A i \in DOMAIN verdicts : \A k \in 1..6 : verdicts[i] = Severity[k] => k \in ranks
  BY <1>1 DEF ToSet
<1> HIDE DEF ranks, least
<1>6. least \in 1..6
  BY <1>1, <1>3 DEF ranks
<1>7. ASSUME NEW i \in DOMAIN verdicts, Stops(verdicts[i])
      PROVE  Decision(Aggregate(verdicts)) = "move on"
  <2>1. 1 \in ranks \/ 2 \in ranks
    BY <1>5, <1>7 DEF Stops, Severity
  <2>2. least = 1 \/ least = 2
    BY <1>3, <1>6, <2>1
  <2>3. Severity[least] \in {"FAIL_GROUNDING", "FAIL_CAPABILITY"}
    BY <2>2 DEF Severity
  <2> QED
    BY <1>4, <2>3 DEF Decision
<1>8. ASSUME Decision(Aggregate(verdicts)) = "accept", NEW i \in DOMAIN verdicts,
             verdicts[i] \in ToSet(Severity)
      PROVE  verdicts[i] = "PASS"
  <2>1. Severity[least] = "PASS"
    BY <1>4, <1>8 DEF Decision
  <2>2. least = 6
    BY <1>6, <2>1 DEF Severity
  <2>3. PICK k \in 1..6 : verdicts[i] = Severity[k]
    BY <1>1, <1>8 DEF ToSet
  <2>4. k = 6
    BY <1>3, <1>5, <2>2, <2>3
  <2> QED
    BY <2>3, <2>4 DEF Severity
<1> QED BY <1>7, <1>8

(* The validators that run are all of the plan, or end at the first that stops it. *)
LEMMA RunOf ==
  ASSUME NEW names, NEW steps \in Seq(names), NEW text, NEW request
  PROVE  LET verdicts == Verdicts(steps, text, request)
             n == RunLength(steps, text, request)
         IN  /\ n \in 0..Len(steps)
             /\ DOMAIN verdicts = 1..Len(steps)
             /\ DOMAIN RunPlan(steps, text, request) = 1..n
             /\ \A i \in 1..n : RunPlan(steps, text, request)[i] = verdicts[i]
             /\ \/ n = Len(steps) /\ \A i \in 1..Len(steps) : Stops(verdicts[i]) => i = n
                \/ n \in 1..Len(steps) /\ Stops(verdicts[n])
<1> DEFINE verdicts == Verdicts(steps, text, request)
           stops == {i \in DOMAIN steps : Stops(Verdict(steps[i], text, request))}
           n == RunLength(steps, text, request)
<1>1. Len(steps) \in Nat /\ DOMAIN steps = 1..Len(steps)
  OBVIOUS
<1>2. n = Min(stops \cup {Len(steps)})
  BY DEF RunLength
<1>3. /\ stops \cup {Len(steps)} \in SUBSET Nat /\ stops \cup {Len(steps)} # {}
      /\ stops \subseteq 1..Len(steps)
  BY <1>1
<1>4. n \in stops \cup {Len(steps)} /\ \A k \in stops : n <= k
  BY <1>2, <1>3, LeastOf
<1>5. DOMAIN verdicts = 1..Len(steps) /\ \A i \in 1..Len(steps) :
        verdicts[i] = Verdict(steps[i], text, request)
  BY <1>1, Zenon DEF Verdicts
<1>6. \A i \in 1..Len(steps) : i \in stops <=> Stops(verdicts[i])
  <2> HIDE DEF verdicts
  <2> QED
    BY <1>1, <1>5, Zenon
<1>7. RunPlan(steps, text, request) = SubSeq(verdicts, 1, n)
  BY DEF RunPlan
<1> HIDE DEF verdicts, stops, n
<1>8. n \in 0..Len(steps)
  <2>1. CASE n \in stops
    <3>1. n \in 1..Len(steps)
      BY <1>3, <2>1
    <3> QED BY <1>1, <3>1
  <2>2. CASE n = Len(steps)
    BY <1>1, <2>2
  <2> QED BY <1>4, <2>1, <2>2
<1>9. /\ DOMAIN SubSeq(verdicts, 1, n) = 1..n
      /\ \A i \in 1..n : SubSeq(verdicts, 1, n)[i] = verdicts[i]
  BY <1>1, <1>8
<1>10. \/ n = Len(steps) /\ \A i \in 1..Len(steps) : Stops(verdicts[i]) => i = n
       \/ n \in 1..Len(steps) /\ Stops(verdicts[n])
  <2>1. CASE n \in stops
    <3>1. n \in 1..Len(steps)
      BY <1>3, <2>1
    <3> QED BY <1>6, <2>1, <3>1
  <2>2. CASE n = Len(steps)
    <3>1. ASSUME NEW i \in 1..Len(steps), Stops(verdicts[i]) PROVE i = n
      <4>1. n <= i
        BY <1>4, <1>6, <3>1
      <4>2. Len(steps) \in Nat /\ i \in 1..Len(steps) /\ Len(steps) <= i
        BY <1>1, <2>2, <4>1
      <4> DEFINE last == Len(steps)
      <4> HIDE DEF last
      <4>3. last \in Nat /\ i \in 1..last /\ last <= i => i = last
        OBVIOUS
      <4> QED BY <2>2, <4>2, <4>3, Zenon DEF last
    <3> QED BY <2>2, <3>1
  <2> QED BY <1>4, <2>1, <2>2
<1> QED
  BY <1>5, <1>7, <1>8, <1>9, <1>10 DEF verdicts, n

-----------------------------------------------------------------------------
(* Picking elements of a sequence.                                            *)

Before(i, kept) == Cardinality({j \in kept : j < i})

(* A set of places is counted off from the lowest.                            *)
LEMMA PickedOf ==
  ASSUME NEW X, NEW s \in Seq(X), NEW kept, kept \subseteq DOMAIN s
  PROVE  /\ Picked(s, kept) \in Seq(X)
         /\ \A i \in kept : \E k \in DOMAIN Picked(s, kept) : Picked(s, kept)[k] = s[i]
<1> DEFINE R == {pair \in kept \X kept : pair[1] < pair[2]}
           size == Cardinality(kept)
           nth(k) == CHOOSE i \in kept : Cardinality({j \in kept : j < i}) = k - 1
           place == [k \in 1..size |-> nth(k)]
<1>1. kept \subseteq 1..Len(s) /\ Len(s) \in Nat /\ \A i \in 1..Len(s) : i \in Int
  OBVIOUS
<1>2. IsFiniteSet(kept)
  <2>1. IsFiniteSet(1..Len(s))
    BY <1>1, FS_Interval
  <2> QED BY <1>1, <2>1, FS_Subset
<1>3. size \in Nat
  BY <1>2, FS_CardinalityType
<1>4. \A a, b \in kept : <<a, b>> \in R <=> a < b
  OBVIOUS
<1>5. \A m \in kept : Ahead(kept, R, m) = Cardinality({j \in kept : j < m})
  <2>1. ASSUME NEW m \in kept PROVE {n \in kept : <<n, m>> \in R} = {j \in kept : j < m}
    BY <1>4
  <2> QED BY <2>1 DEF Ahead
<1>6. \A k \in 1..size : \A m \in kept :
        Ahead(kept, R, m) = k - 1 => place[k] \in kept /\ Ahead(kept, R, place[k]) = k - 1
  <2> SUFFICES ASSUME NEW k \in 1..size, NEW m \in kept, Ahead(kept, R, m) = k - 1
               PROVE  place[k] \in kept /\ Ahead(kept, R, place[k]) = k - 1
    OBVIOUS
  <2>1. Cardinality({j \in kept : j < m}) = k - 1
    BY <1>5
  <2>2. place[k] \in kept /\ Cardinality({j \in kept : j < place[k]}) = k - 1
    BY <2>1
  <2> HIDE DEF place
  <2> QED BY <1>5, <2>2
<1>7. Picked(s, kept) = [k \in 1..size |-> s[place[k]]]
  BY DEF Picked
<1> HIDE DEF nth
<1>8. place = [k \in 1..size |-> place[k]]
  OBVIOUS
<1> HIDE DEF place
<1>9. /\ \A a \in kept : ~(a < a)
      /\ \A a, b, c \in kept : a < b /\ b < c => a < c
      /\ \A a, b \in kept : a = b \/ a < b \/ b < a
  <2>1. \A i \in kept : i \in Int
    BY <1>1
  <2> QED BY <2>1
<1> HIDE DEF R
<1>10. /\ \A a \in kept : <<a, a>> \notin R
       /\ \A a, b, c \in kept : <<a, b>> \in R /\ <<b, c>> \in R => <<a, c>> \in R
       /\ \A a, b \in kept : a = b \/ <<a, b>> \in R \/ <<b, a>> \in R
  BY <1>4, <1>9, Zenon
<1>11. place \in [1..size -> kept] /\ \A m \in kept : \E k \in 1..size : place[k] = m
  <2>1. \A k \in 1..Cardinality(kept) : \A m \in kept :
          Ahead(kept, R, m) = k - 1 => place[k] \in kept /\ Ahead(kept, R, place[k]) = k - 1
    BY <1>6
  <2>2. place = [k \in 1..Cardinality(kept) |-> place[k]]
    BY <1>8
  <2>3. \A a \in kept : <<a, a>> \notin R
    BY <1>10
  <2>4. \A a, b, c \in kept : <<a, b>> \in R /\ <<b, c>> \in R => <<a, c>> \in R
    BY <1>10
  <2>5. \A a, b \in kept : a = b \/ <<a, b>> \in R \/ <<b, a>> \in R
    BY <1>10
  <2>6. /\ place \in [1..Cardinality(kept) -> kept]
        /\ \A m \in kept : \E k \in 1..Cardinality(kept) : place[k] = m
        /\ \A i, j \in 1..Cardinality(kept) : i < j => <<place[j], place[i]>> \notin R
    BY <1>2, <2>1, <2>2, <2>3, <2>4, <2>5, Ranking
  <2> QED BY <2>6
<1>12. \A k \in 1..size : s[place[k]] \in X
  BY <1>1, <1>11
<1> HIDE DEF size
<1>13. Picked(s, kept) \in Seq(X) /\ DOMAIN Picked(s, kept) = 1..size
  BY <1>3, <1>7, <1>12
<1>14. ASSUME NEW i \in kept PROVE \E k \in 1..size : Picked(s, kept)[k] = s[i]
  <2>1. PICK k \in 1..size : place[k] = i
    BY <1>11
  <2>2. Picked(s, kept)[k] = s[i]
    BY <1>7, <2>1
  <2> QED BY <2>2
<1> QED BY <1>13, <1>14

\* The n elements after the first d are what is picked by their places.
Picks(s, d, n) == Picked(s, (d + 1)..(d + n)) = [k \in 1..n |-> s[d + k]]

(* Places next to each other pick what stands there.                          *)
LEMMA PickedIs ==
  ASSUME NEW s, NEW n \in Nat, NEW d \in Nat
  PROVE  Picks(s, d, n)
<1> DEFINE kept == (d + 1)..(d + n)
<1>1. Cardinality(kept) = n
  <2>1. d + 1 \in Int /\ d + n \in Int
    OBVIOUS
  <2>2. Cardinality(kept) = IF d + 1 > d + n THEN 0 ELSE (d + n) - (d + 1) + 1
    BY <2>1, FS_Interval
  <2> HIDE DEF kept
  <2> QED BY <2>2
<1>2. ASSUME NEW i \in kept PROVE Cardinality({j \in kept : j < i}) = i - d - 1
  <2>1. {j \in kept : j < i} = (d + 1)..(i - 1)
    OBVIOUS
  <2>2. d + 1 \in Int /\ i - 1 \in Int
    OBVIOUS
  <2>3. Cardinality((d + 1)..(i - 1)) = IF d + 1 > i - 1 THEN 0 ELSE (i - 1) - (d + 1) + 1
    BY <2>2, FS_Interval
  <2>4. i \in Int /\ d + 1 <= i
    OBVIOUS
  <2> HIDE DEF kept
  <2>5. Cardinality((d + 1)..(i - 1)) = i - d - 1
    BY <2>3, <2>4
  <2> QED BY <2>1, <2>5
<1>3. ASSUME NEW k \in 1..n
      PROVE  (CHOOSE i \in kept : Cardinality({j \in kept : j < i}) = k - 1) = d + k
  <2>1. d + k \in kept
    OBVIOUS
  <2>2. \A i \in kept : Cardinality({j \in kept : j < i}) = k - 1 <=> i = d + k
    <3> SUFFICES ASSUME NEW i \in kept
                 PROVE  Cardinality({j \in kept : j < i}) = k - 1 <=> i = d + k
      OBVIOUS
    <3>1. Cardinality({j \in kept : j < i}) = i - d - 1
      BY <1>2
    <3> QED BY <3>1
  <2> HIDE DEF kept
  <2> QED BY <2>1, <2>2
<1> HIDE DEF kept
<1>4. Picked(s, kept) =
        [k \in 1..n |-> s[CHOOSE i \in kept : Cardinality({j \in kept : j < i}) = k - 1]]
  BY <1>1 DEF Picked
<1>5. Picked(s, kept) = [k \in 1..n |-> s[d + k]]
  BY <1>3, <1>4
<1> QED BY <1>5 DEF kept, Picks

ValidatorNames ==
  {"json_parse", "schema_check", "sql_parser", "sql_safety", "length_check", "label_check",
   "citation_check", "code_compile", "independent_review", "rubric_judge"}

(* The plan of a request that asks for a schema checks it, in every class and mode. *)
LEMMA PlanForOf ==
  ASSUME NEW request, NEW class \in Classes, NEW mode, NEW reviewed
  PROVE  /\ PlanFor(request, class, mode, reviewed) \in Seq(ValidatorNames)
         /\ RequiresSchema(request) =>
              \E i \in DOMAIN PlanFor(request, class, mode, reviewed) :
                PlanFor(request, class, mode, reviewed)[i] = "schema_check"
<1> DEFINE policy == PolicyValidators[class]
           gated == IF RequiresSchema(request) /\ "schema_check" \notin ToSet(policy)
                    THEN <<"schema_check">> \o policy ELSE policy
           places == {i \in DOMAIN gated :
                        CASE mode = "none" -> gated[i] = "schema_check"
                          [] mode = "deterministic" ->
                               gated[i] \notin {"independent_review", "rubric_judge"}
                          [] OTHER -> TRUE}
           kept == Picked(gated, places)
<1>1. policy \in Seq(ValidatorNames)
  <2>1. class \in DOMAIN PolicyValidators
    BY ExchangeAssumption
  <2>2. ASSUME NEW c \in DOMAIN PolicyValidators
        PROVE  PolicyValidators[c] \in Seq(ValidatorNames)
    <3>1. \A x \in ValidatorNames : <<x>> \in Seq(ValidatorNames)
      OBVIOUS
    <3>2. \A x, y \in ValidatorNames : <<x, y>> \in Seq(ValidatorNames)
      OBVIOUS
    <3>3. \A x, y, z \in ValidatorNames : <<x, y, z>> \in Seq(ValidatorNames)
      OBVIOUS
    <3>4. {"json_parse", "schema_check", "sql_parser", "sql_safety", "length_check", "label_check",
           "citation_check", "code_compile", "independent_review", "rubric_judge"}
            \subseteq ValidatorNames
      BY DEF ValidatorNames
    <3>5. CASE c = "sql_review"
      BY <3>3, <3>4, <3>5 DEF PolicyValidators
    <3>6. CASE c = "code_generation"
      BY <3>2, <3>4, <3>6 DEF PolicyValidators
    <3>7. CASE c = "code_review"
      BY <3>1, <3>4, <3>7 DEF PolicyValidators
    <3>8. CASE c = "structured_data"
      BY <3>2, <3>4, <3>8 DEF PolicyValidators
    <3>9. CASE c = "extraction"
      BY <3>1, <3>4, <3>9 DEF PolicyValidators
    <3>10. CASE c = "grounded_qa"
      BY <3>2, <3>4, <3>10 DEF PolicyValidators
    <3>11. CASE c = "factual_qa"
      BY <3>1, <3>4, <3>11 DEF PolicyValidators
    <3>12. CASE c = "summarization"
      BY <3>1, <3>4, <3>12 DEF PolicyValidators
    <3>13. CASE c = "classification"
      BY <3>1, <3>4, <3>13 DEF PolicyValidators
    <3>14. CASE c = "tool_selection"
      BY <3>2, <3>4, <3>14 DEF PolicyValidators
    <3>15. CASE c = "general_reasoning"
      BY <3>1, <3>4, <3>15 DEF PolicyValidators
    <3> QED
      BY <3>5, <3>6, <3>7, <3>8, <3>9, <3>10, <3>11, <3>12, <3>13, <3>14,
          <3>15 DEF PolicyValidators
  <2> QED BY <2>1, <2>2
<1>2. /\ gated \in Seq(ValidatorNames)
      /\ RequiresSchema(request) => \E i \in DOMAIN gated : gated[i] = "schema_check"
  <2>1. CASE RequiresSchema(request) /\ "schema_check" \notin ToSet(policy)
    <3> HIDE DEF policy
    <3>1. gated = <<"schema_check">> \o policy
      BY <2>1
    <3>2. <<"schema_check">> \in Seq(ValidatorNames) /\ Len(<<"schema_check">>) = 1
      BY DEF ValidatorNames
    <3>3. /\ gated \in Seq(ValidatorNames) /\ Len(gated) = 1 + Len(policy)
          /\ \A i \in 1..(1 + Len(policy)) :
               gated[i] = IF i <= 1 THEN <<"schema_check">>[i] ELSE policy[i - 1]
      BY <1>1, <3>1, <3>2, ConcatProperties
    <3>4. 1 \in DOMAIN gated /\ gated[1] = "schema_check"
      BY <1>1, <3>3
    <3> QED BY <3>3, <3>4
  <2>2. CASE ~(RequiresSchema(request) /\ "schema_check" \notin ToSet(policy))
    <3> HIDE DEF policy
    <3> QED BY <1>1, <2>2 DEF ToSet
  <2> QED BY <2>1, <2>2
<1>3. PlanFor(request, class, mode, reviewed) =
        IF reviewed /\ "independent_review" \notin ToSet(kept)
        THEN Append(kept, "independent_review") ELSE kept
  BY DEF PlanFor, ByMode
<1> HIDE DEF gated
<1>4. places \subseteq DOMAIN gated
  OBVIOUS
<1>5. \A i \in DOMAIN gated : gated[i] = "schema_check" => i \in places
  OBVIOUS
<1> HIDE DEF places
<1>6. kept \in Seq(ValidatorNames) /\ \A i \in places : \E k \in DOMAIN kept : kept[k] = gated[i]
  BY <1>2, <1>4, PickedOf
<1>7. RequiresSchema(request) => \E k \in DOMAIN kept : kept[k] = "schema_check"
  BY <1>2, <1>5, <1>6
<1> HIDE DEF kept
<1>8. Append(kept, "independent_review") \in Seq(ValidatorNames)
      /\ \A k \in DOMAIN kept : k \in DOMAIN Append(kept, "independent_review")
                                /\ Append(kept, "independent_review")[k] = kept[k]
  <2>1. "independent_review" \in ValidatorNames
    BY DEF ValidatorNames
  <2> QED BY <1>6, <2>1, AppendProperties
<1> QED BY <1>3, <1>6, <1>7, <1>8

(* Whatever the order of the plan's validators, what is decided of an output when
   the first fatal verdict ends the plan is what all verdicts would decide: the
   last verdict heard is one that outweighs whatever was not heard.           *)
THEOREM StopDecidesNothing == Spec => []StopChangesNoDecision
<1>1. ASSUME NEW steps \in Seq(ValidatorNames), NEW text, NEW request
      PROVE  Decision(Aggregate(RunPlan(steps, text, request)))
               = Decision(Aggregate(Verdicts(steps, text, request)))
  <2> DEFINE verdicts == Verdicts(steps, text, request)
             run == RunPlan(steps, text, request)
             n == RunLength(steps, text, request)
  <2>1. /\ n \in 0..Len(steps)
        /\ DOMAIN verdicts = 1..Len(steps)
        /\ DOMAIN run = 1..n
        /\ \A i \in 1..n : run[i] = verdicts[i]
        /\ \/ n = Len(steps)
           \/ n \in 1..Len(steps) /\ Stops(verdicts[n])
    BY RunOf
  <2> HIDE DEF verdicts, run, n
  <2>2. CASE n \in 1..Len(steps) /\ Stops(verdicts[n])
    <3>1. n \in DOMAIN verdicts /\ n \in DOMAIN run /\ Stops(run[n])
      BY <2>1, <2>2
    <3> QED
      BY <2>2, <3>1, AggregateIsGravest DEF verdicts, run
  <2>3. CASE n = Len(steps)
    <3>1. \A x : x \in ToSet(run) <=> x \in ToSet(verdicts)
      BY <2>1, <2>3 DEF ToSet
    <3>2. ToSet(run) = ToSet(verdicts)
      BY <3>1
    <3> QED
      BY <3>2 DEF Aggregate, verdicts, run
  <2> QED BY <2>1, <2>2, <2>3
<1>2. ExchangeInv => plan \in Seq(ValidatorNames)
  <2>1. <<>> \in Seq(ValidatorNames)
    OBVIOUS
  <2>2. FromPolicy => plan \in Seq(ValidatorNames)
    BY PlanForOf DEF FromPolicy
  <2> QED BY <2>1, <2>2 DEF ExchangeInv, Planned
<1>3. ExchangeInv => StopChangesNoDecision
  BY <1>1, <1>2 DEF StopChangesNoDecision
<1> QED BY <1>3, ExchangeInvariant, PTL

-----------------------------------------------------------------------------
(* The schema gate.  The recursions of Codes, Fits, NamesItsTypes, Unmistakable and
   the two equalities descend, so each is the function its equation says.     *)

Pairs == JsonValues \X Schemas

(* What is in a value goes with what is in a schema, and lies deeper.         *)
LEMMA PairsDescend ==
  ASSUME NEW p \in Pairs, NEW w \in Within(p[1]), NEW s \in Subschemas(p[2])
  PROVE  /\ <<w, s>> \in Pairs /\ Height(p[1]) \in Nat
         /\ Height(w) \in Nat /\ Height(w) < Height(p[1])
<1>1. p[1] \in JsonValues /\ p[2] \in Schemas
  BY DEF Pairs
<1>2. w \in JsonValues /\ Height(w) < Height(p[1])
  BY <1>1, JsonAssumption
<1>3. s \in Schemas
  BY <1>1, JsonAssumption
<1>4. Height(p[1]) \in Nat /\ Height(w) \in Nat
  BY <1>1, <1>2, JsonAssumption
<1> QED BY <1>2, <1>3, <1>4 DEF Pairs

LEMMA FieldsAreWithin ==
  ASSUME NEW v, NEW s
  PROVE  /\ \A name \in DOMAIN v.fields \cap DOMAIN s.properties :
              v.fields[name] \in Within(v) /\ s.properties[name] \in Subschemas(s)
         /\ s.items # Absent =>
              \A i \in DOMAIN v.items : v.items[i] \in Within(v) /\ s.items \in Subschemas(s)
<1>1. \A name \in DOMAIN v.fields : v.fields[name] \in Within(v)
  BY DEF Within
<1>2. \A i \in DOMAIN v.items : v.items[i] \in Within(v)
  BY DEF Within
<1>3. \A name \in DOMAIN s.properties : s.properties[name] \in Subschemas(s)
  BY DEF Subschemas
<1>4. s.items # Absent => s.items \in Subschemas(s)
  BY DEF Subschemas
<1> QED BY <1>1, <1>2, <1>3, <1>4

LEMMA PartsDescend ==
  ASSUME NEW p \in Pairs, NEW part \in Parts(p[1], p[2])
  PROVE  /\ part \in Pairs /\ Height(p[1]) \in Nat
         /\ Height(part[1]) \in Nat /\ Height(part[1]) < Height(p[1])
<1>1. \E w \in Within(p[1]), s \in Subschemas(p[2]) : part = <<w, s>>
  <2>1. CASE \E name \in DOMAIN p[2].properties \cap DOMAIN p[1].fields :
               part = <<p[1].fields[name], p[2].properties[name]>>
    BY <2>1, FieldsAreWithin
  <2>2. CASE p[2].items # Absent /\ \E i \in DOMAIN p[1].items :
               part = <<p[1].items[i], p[2].items>>
    BY <2>2, FieldsAreWithin
  <2> QED BY <2>1, <2>2 DEF Parts
<1> QED BY <1>1, PairsDescend

LEMMA CodesOf ==
  \A p \in Pairs :
    Codes[p] = IF Mistyped(p[1], p[2]) THEN {"type_mismatch"}
               ELSE (UNION {Codes[part] : part \in Parts(p[1], p[2])}) \cup OwnCodes(p[1], p[2])
<1> DEFINE V == SUBSET {"type_mismatch", "missing_required", "not_in_enum"}
           value(f, p) == IF Mistyped(p[1], p[2]) THEN {"type_mismatch"}
                         ELSE (UNION {f[part] : part \in Parts(p[1], p[2])}) \cup OwnCodes(p[1], p[2])
           step == [f \in [Pairs -> V] |-> [p \in Pairs |-> value(f, p)]]
           depth == [p \in Pairs |-> Height(p[1])]
<1>1. depth \in [Pairs -> Nat]
  BY JsonAssumption DEF Pairs
<1>2. ASSUME NEW f \in [Pairs -> V], NEW p \in Pairs PROVE value(f, p) \in V
  <2>1. OwnCodes(p[1], p[2]) \in V
    BY DEF OwnCodes
  <2>2. \A part \in Parts(p[1], p[2]) : f[part] \in V
    BY PartsDescend
  <2> QED BY <2>1, <2>2
<1>3. step \in [[Pairs -> V] -> [Pairs -> V]]
  <2> HIDE DEF value, V
  <2> QED BY <1>2
<1>4. ASSUME NEW f \in [Pairs -> V], NEW g \in [Pairs -> V], NEW p \in Pairs,
             \A q \in Pairs : depth[q] < depth[p] => f[q] = g[q]
      PROVE  step[f][p] = step[g][p]
  <2>1. \A part \in Parts(p[1], p[2]) : f[part] = g[part]
    BY <1>4, PartsDescend
  <2>2. {f[part] : part \in Parts(p[1], p[2])} = {g[part] : part \in Parts(p[1], p[2])}
    BY <2>1
  <2>3. value(f, p) = value(g, p)
    BY <2>2
  <2> HIDE DEF value
  <2> QED BY <2>3
<1>5. V # {}
  OBVIOUS
<1> HIDE DEF V, depth, step
<1>6. \E f \in [Pairs -> V] : f = step[f]
  <2>1. Descends(Pairs, V, depth, step)
    BY <1>1, <1>3, <1>4, <1>5 DEF Descends
  <2> QED BY <2>1, Descent
<1>7. \E f : f = [p \in Pairs |-> value(f, p)]
  BY <1>6 DEF step
<1>8. Codes = CHOOSE f : f = [p \in Pairs |-> value(f, p)]
  BY DEF Codes, Pairs
<1> HIDE DEF value
<1>9. Codes = [p \in Pairs |-> value(Codes, p)]
  BY <1>7, <1>8
<1>10. \A p \in Pairs : Codes[p] = value(Codes, p)
  BY <1>9
<1> QED BY <1>10 DEF value

\* The body of Fits, for a fit that is known of what lies deeper.
FitsBy(fit, p) ==
  /\ p[2].type \in DOMAIN TypesOf => p[1].t \in TypesOf[p[2].type]
  /\ p[1].t = "object" =>
       /\ p[2].required \subseteq DOMAIN p[1].fields
       /\ \A name \in DOMAIN p[1].fields \cap DOMAIN p[2].properties :
            fit[<<p[1].fields[name], p[2].properties[name]>>]
  /\ p[1].t = "array" /\ p[2].items # Absent =>
       \A i \in DOMAIN p[1].items : fit[<<p[1].items[i], p[2].items>>]
  /\ p[2].enum # Absent => \E w \in p[2].enum : Equal[<<p[1], w>>]

LEMMA FitsOf == \A p \in Pairs : Fits[p] = FitsBy(Fits, p)
<1> DEFINE V == BOOLEAN
           step == [f \in [Pairs -> V] |-> [p \in Pairs |-> FitsBy(f, p)]]
           depth == [p \in Pairs |-> Height(p[1])]
<1>1. depth \in [Pairs -> Nat]
  BY JsonAssumption DEF Pairs
<1>2. \A f : \A p : FitsBy(f, p) \in BOOLEAN
  BY DEF FitsBy
<1>3. step \in [[Pairs -> V] -> [Pairs -> V]]
  BY <1>2
<1>4. ASSUME NEW f \in [Pairs -> V], NEW g \in [Pairs -> V], NEW p \in Pairs,
             \A q \in Pairs : depth[q] < depth[p] => f[q] = g[q]
      PROVE  step[f][p] = step[g][p]
  <2>1. \A w \in Within(p[1]) : \A s \in Subschemas(p[2]) : f[<<w, s>>] = g[<<w, s>>]
    <3> SUFFICES ASSUME NEW w \in Within(p[1]), NEW s \in Subschemas(p[2])
                 PROVE  f[<<w, s>>] = g[<<w, s>>]
      OBVIOUS
    <3>1. <<w, s>> \in Pairs /\ <<w, s>>[1] = w /\ Height(w) < Height(p[1])
      BY PairsDescend
    <3> QED BY <1>4, <3>1
  <2>2. \A name \in DOMAIN p[1].fields \cap DOMAIN p[2].properties :
          f[<<p[1].fields[name], p[2].properties[name]>>]
            = g[<<p[1].fields[name], p[2].properties[name]>>]
    BY <2>1, FieldsAreWithin
  <2>3. p[2].items # Absent =>
          \A i \in DOMAIN p[1].items :
            f[<<p[1].items[i], p[2].items>>] = g[<<p[1].items[i], p[2].items>>]
    BY <2>1, FieldsAreWithin
  <2>4. FitsBy(f, p) = FitsBy(g, p)
    BY <2>2, <2>3, Zenon DEF FitsBy
  <2> QED BY <2>4
<1>5. V # {}
  OBVIOUS
<1> HIDE DEF V, depth, step
<1>6. \E f \in [Pairs -> V] : f = step[f]
  <2>1. Descends(Pairs, V, depth, step)
    BY <1>1, <1>3, <1>4, <1>5 DEF Descends
  <2> QED BY <2>1, Descent
<1>7. \E f : f = [p \in Pairs |-> FitsBy(f, p)]
  BY <1>6 DEF step
<1>8. Fits = CHOOSE f : f = [p \in Pairs |-> FitsBy(f, p)]
  BY DEF Fits, FitsBy, Pairs
<1>9. Fits = [p \in Pairs |-> FitsBy(Fits, p)]
  BY <1>7, <1>8
<1> QED BY <1>9

LEMMA NamesItsTypesOf ==
  \A schema \in Schemas :
    NamesItsTypes[schema] =
      (/\ schema.type \in DOMAIN TypesOf
       /\ schema.enum # Absent =>
            \A w \in schema.enum : w.t \in TypesOf[schema.type] /\ Unmistakable[w]
       /\ \A s \in Subschemas(schema) : NamesItsTypes[s])
<1> DEFINE V == BOOLEAN
           value(f, schema) ==
             /\ schema.type \in DOMAIN TypesOf
             /\ schema.enum # Absent =>
                  \A w \in schema.enum : w.t \in TypesOf[schema.type] /\ Unmistakable[w]
             /\ \A s \in Subschemas(schema) : f[s]
           step == [f \in [Schemas -> V] |-> [schema \in Schemas |-> value(f, schema)]]
           depth == [schema \in Schemas |-> Height(schema)]
<1>1. depth \in [Schemas -> Nat]
  BY JsonAssumption
<1>2. \A f : \A schema : value(f, schema) \in BOOLEAN
  OBVIOUS
<1>3. step \in [[Schemas -> V] -> [Schemas -> V]]
  <2> HIDE DEF value
  <2> QED BY <1>2
<1>4. ASSUME NEW f \in [Schemas -> V], NEW g \in [Schemas -> V], NEW p \in Schemas,
             \A q \in Schemas : depth[q] < depth[p] => f[q] = g[q]
      PROVE  step[f][p] = step[g][p]
  <2>1. \A s \in Subschemas(p) : f[s] = g[s]
    BY <1>4, JsonAssumption
  <2>2. value(f, p) = value(g, p)
    BY <2>1, Zenon
  <2> HIDE DEF value
  <2> QED BY <2>2
<1>5. V # {}
  OBVIOUS
<1> HIDE DEF V, depth, step
<1>6. \E f \in [Schemas -> V] : f = step[f]
  <2>1. Descends(Schemas, V, depth, step)
    BY <1>1, <1>3, <1>4, <1>5 DEF Descends
  <2> QED BY <2>1, Descent
<1>7. \E f : f = [schema \in Schemas |-> value(f, schema)]
  BY <1>6 DEF step
<1>8. NamesItsTypes = CHOOSE f : f = [schema \in Schemas |-> value(f, schema)]
  BY DEF NamesItsTypes
<1> HIDE DEF value
<1>9. NamesItsTypes = [schema \in Schemas |-> value(NamesItsTypes, schema)]
  BY <1>7, <1>8
<1>10. \A schema \in Schemas : NamesItsTypes[schema] = value(NamesItsTypes, schema)
  BY <1>9
<1> QED BY <1>10 DEF value

(* What holds of a thing once it holds of all that lie deeper holds of all.    *)
LEMMA FromBelow ==
  ASSUME NEW P, NEW depth \in [P -> Nat], NEW S,
         \A p \in P : (\A q \in P : depth[q] < depth[p] => q \in S) => p \in S
  PROVE  P \subseteq S
<1> DEFINE Below(n) == \A p \in P : depth[p] < n => p \in S
<1>1. ASSUME NEW n \in Nat PROVE Below(n)
  <2> DEFINE reached == {k \in 0..n : Below(k)}
  <2>1. 0 \in reached
    OBVIOUS
  <2>2. ASSUME NEW k \in 0..n, k + 1 \in 0..n, k \in reached PROVE k + 1 \in reached
    <3>1. ASSUME NEW p \in P, depth[p] < k + 1 PROVE p \in S
      <4>1. \A q \in P : depth[q] < depth[p] => depth[q] < k
        BY <3>1
      <4> QED BY <2>2, <4>1
    <3> QED BY <2>2, <3>1
  <2> HIDE DEF reached
  <2>3. n \in reached
    BY <2>1, <2>2, IntervalInduction
  <2> QED BY <2>3 DEF reached
<1>2. ASSUME NEW p \in P PROVE p \in S
  <2>1. depth[p] + 1 \in Nat /\ depth[p] < depth[p] + 1
    OBVIOUS
  <2> QED BY <1>1, <2>1
<1> QED BY <1>2

Twins == JsonValues \X JsonValues

(* Two values are compared by what lies in both at the same place.            *)
LEMMA AlikeOf ==
  ASSUME NEW p \in Twins, NEW f, NEW g,
         \A q \in Twins : Height(q[1]) < Height(p[1]) => f[q] = g[q]
  PROVE  Alike(p[1], p[2], f) = Alike(p[1], p[2], g)
<1> DEFINE v == p[1]
           w == p[2]
<1>1. v \in JsonValues /\ w \in JsonValues
  BY DEF Twins
<1>2. ASSUME NEW x \in Within(v), NEW y \in Within(w) PROVE f[<<x, y>>] = g[<<x, y>>]
  <2>1. <<x, y>> \in Twins /\ <<x, y>>[1] = x /\ Height(x) < Height(v)
    BY <1>1, JsonAssumption DEF Twins
  <2> QED BY <2>1
<1>3. (\A name \in DOMAIN v.fields : v.fields[name] \in Within(v))
      /\ (\A i \in DOMAIN v.items : v.items[i] \in Within(v))
      /\ (\A name \in DOMAIN w.fields : w.fields[name] \in Within(w))
      /\ (\A i \in DOMAIN w.items : w.items[i] \in Within(w))
  BY DEF Within
<1> HIDE DEF v, w
<1>4. CASE DOMAIN v.fields = DOMAIN w.fields /\ DOMAIN v.items = DOMAIN w.items
  <2>1. \A name \in DOMAIN v.fields :
          f[<<v.fields[name], w.fields[name]>>] = g[<<v.fields[name], w.fields[name]>>]
    BY <1>2, <1>3, <1>4
  <2>2. \A i \in DOMAIN v.items : f[<<v.items[i], w.items[i]>>] = g[<<v.items[i], w.items[i]>>]
    BY <1>2, <1>3, <1>4
  <2>3. Alike(v, w, f) = Alike(v, w, g)
    BY <2>1, <2>2, Zenon DEF Alike
  <2> QED BY <2>3 DEF v, w
<1>5. CASE ~(DOMAIN v.fields = DOMAIN w.fields /\ DOMAIN v.items = DOMAIN w.items)
  BY <1>5 DEF Alike, v, w
<1> QED BY <1>4, <1>5

LEMMA PyEqualOf ==
  \A p \in Twins : PyEqual[p] = (IF {p[1].t, p[2].t} \subseteq Numeric
                               THEN p[1].n = p[2].n ELSE Alike(p[1], p[2], PyEqual))
<1> DEFINE V == BOOLEAN
           value(f, p) == IF {p[1].t, p[2].t} \subseteq Numeric
                          THEN p[1].n = p[2].n ELSE Alike(p[1], p[2], f)
           step == [f \in [Twins -> V] |-> [p \in Twins |-> value(f, p)]]
           depth == [p \in Twins |-> Height(p[1])]
<1>1. depth \in [Twins -> Nat]
  BY JsonAssumption DEF Twins
<1>2. \A f : \A p : value(f, p) \in BOOLEAN
  BY DEF Alike
<1>3. step \in [[Twins -> V] -> [Twins -> V]]
  <2> HIDE DEF value
  <2> QED BY <1>2
<1>4. ASSUME NEW f \in [Twins -> V], NEW g \in [Twins -> V], NEW p \in Twins,
             \A q \in Twins : depth[q] < depth[p] => f[q] = g[q]
      PROVE  step[f][p] = step[g][p]
  <2>1. Alike(p[1], p[2], f) = Alike(p[1], p[2], g)
    BY <1>4, AlikeOf
  <2>2. value(f, p) = value(g, p)
    BY <2>1
  <2> HIDE DEF value
  <2> QED BY <2>2
<1>5. V # {}
  OBVIOUS
<1> HIDE DEF V, depth, step
<1>6. \E f \in [Twins -> V] : f = step[f]
  <2>1. Descends(Twins, V, depth, step)
    BY <1>1, <1>3, <1>4, <1>5 DEF Descends
  <2> QED BY <2>1, Descent
<1>7. \E f : f = [p \in Twins |-> value(f, p)]
  BY <1>6 DEF step
<1>8. PyEqual = CHOOSE f : f = [p \in Twins |-> value(f, p)]
  BY DEF PyEqual, Twins
<1> HIDE DEF value
<1>9. PyEqual = [p \in Twins |-> value(PyEqual, p)]
  BY <1>7, <1>8
<1>10. \A p \in Twins : PyEqual[p] = value(PyEqual, p)
  BY <1>9
<1> QED BY <1>10 DEF value

\* What JSON Schema compares by its number.
OneKind(p) == \E kind \in {{"integer", "number"}, {"boolean"}} : {p[1].t, p[2].t} \subseteq kind

LEMMA EqualOf ==
  \A p \in Twins : Equal[p] = (IF OneKind(p)
                               THEN p[1].n = p[2].n ELSE Alike(p[1], p[2], Equal))
<1> DEFINE V == BOOLEAN
           value(f, p) == IF OneKind(p)
                          THEN p[1].n = p[2].n ELSE Alike(p[1], p[2], f)
           step == [f \in [Twins -> V] |-> [p \in Twins |-> value(f, p)]]
           depth == [p \in Twins |-> Height(p[1])]
<1>1. depth \in [Twins -> Nat]
  BY JsonAssumption DEF Twins
<1>2. \A f : \A p : value(f, p) \in BOOLEAN
  BY DEF Alike
<1>3. step \in [[Twins -> V] -> [Twins -> V]]
  <2> HIDE DEF value
  <2> QED BY <1>2
<1>4. ASSUME NEW f \in [Twins -> V], NEW g \in [Twins -> V], NEW p \in Twins,
             \A q \in Twins : depth[q] < depth[p] => f[q] = g[q]
      PROVE  step[f][p] = step[g][p]
  <2>1. Alike(p[1], p[2], f) = Alike(p[1], p[2], g)
    BY <1>4, AlikeOf
  <2>2. value(f, p) = value(g, p)
    BY <2>1
  <2> HIDE DEF value
  <2> QED BY <2>2
<1>5. V # {}
  OBVIOUS
<1> HIDE DEF V, depth, step
<1>6. \E f \in [Twins -> V] : f = step[f]
  <2>1. Descends(Twins, V, depth, step)
    BY <1>1, <1>3, <1>4, <1>5 DEF Descends
  <2> QED BY <2>1, Descent
<1>7. \E f : f = [p \in Twins |-> value(f, p)]
  BY <1>6 DEF step
<1>8. Equal = CHOOSE f : f = [p \in Twins |-> value(f, p)]
  BY DEF Equal, OneKind, Twins
<1> HIDE DEF value
<1>9. Equal = [p \in Twins |-> value(Equal, p)]
  BY <1>7, <1>8
<1>10. \A p \in Twins : Equal[p] = value(Equal, p)
  BY <1>9
<1> QED BY <1>10 DEF value

LEMMA UnmistakableOf ==
  \A v \in JsonValues :
    Unmistakable[v] =
      (\A w \in Within(v) :
         /\ w.t \in Numeric => \A b \in JsonValues : b.t = "boolean" => b.n # w.n
         /\ Unmistakable[w])
<1> DEFINE V == BOOLEAN
           value(f, v) ==
             \A w \in Within(v) :
               /\ w.t \in Numeric => \A b \in JsonValues : b.t = "boolean" => b.n # w.n
               /\ f[w]
           step == [f \in [JsonValues -> V] |-> [v \in JsonValues |-> value(f, v)]]
           depth == [v \in JsonValues |-> Height(v)]
<1>1. depth \in [JsonValues -> Nat]
  BY JsonAssumption
<1>2. \A f : \A v : value(f, v) \in BOOLEAN
  OBVIOUS
<1>3. step \in [[JsonValues -> V] -> [JsonValues -> V]]
  <2> HIDE DEF value
  <2> QED BY <1>2
<1>4. ASSUME NEW f \in [JsonValues -> V], NEW g \in [JsonValues -> V], NEW v \in JsonValues,
             \A q \in JsonValues : depth[q] < depth[v] => f[q] = g[q]
      PROVE  step[f][v] = step[g][v]
  <2>1. \A w \in Within(v) : f[w] = g[w]
    BY <1>4, JsonAssumption
  <2>2. value(f, v) = value(g, v)
    BY <2>1, Zenon
  <2> HIDE DEF value
  <2> QED BY <2>2
<1>5. V # {}
  OBVIOUS
<1> HIDE DEF V, depth, step
<1>6. \E f \in [JsonValues -> V] : f = step[f]
  <2>1. Descends(JsonValues, V, depth, step)
    BY <1>1, <1>3, <1>4, <1>5 DEF Descends
  <2> QED BY <2>1, Descent
<1>7. \E f : f = [v \in JsonValues |-> value(f, v)]
  BY <1>6 DEF step
<1>8. Unmistakable = CHOOSE f : f = [v \in JsonValues |-> value(f, v)]
  BY DEF Unmistakable
<1> HIDE DEF value
<1>9. Unmistakable = [v \in JsonValues |-> value(Unmistakable, v)]
  BY <1>7, <1>8
<1>10. \A v \in JsonValues : Unmistakable[v] = value(Unmistakable, v)
  BY <1>9
<1> QED BY <1>10 DEF value

(* Python finds two values equal that are, unless it confuses them at the top, or
   there is something in them it may confuse.                                 *)
LEMMA ConfusesNothing ==
  ASSUME NEW v \in JsonValues, NEW w \in JsonValues, PyEqual[<<v, w>>], Unmistakable[w],
         {v.t, w.t} \subseteq Numeric =>
           \E kind \in {{"integer", "number"}, {"boolean"}} : {v.t, w.t} \subseteq kind
  PROVE  Equal[<<v, w>>]
<1> DEFINE Sound(p) == /\ PyEqual[p] /\ Unmistakable[p[2]]
                       /\ {p[1].t, p[2].t} \subseteq Numeric => OneKind(p)
                       => Equal[p]
           sound == {p \in Twins : Sound(p)}
           depth == [p \in Twins |-> Height(p[1])]
<1>1. ASSUME NEW p \in Twins, \A q \in Twins : Height(q[1]) < Height(p[1]) => Sound(q)
      PROVE  Sound(p)
  <2> SUFFICES ASSUME PyEqual[p], Unmistakable[p[2]],
                      {p[1].t, p[2].t} \subseteq Numeric => OneKind(p)
               PROVE  Equal[p]
    OBVIOUS
  <2> DEFINE a == p[1]
             b == p[2]
  <2>1. a \in JsonValues /\ b \in JsonValues
    BY DEF Twins
  <2>2. CASE {a.t, b.t} \subseteq Numeric
    <3>1. a.n = b.n
      BY <2>2, PyEqualOf
    <3>2. OneKind(p)
      BY <2>2
    <3> QED BY <3>1, <3>2, EqualOf
  <2>3. CASE ~({a.t, b.t} \subseteq Numeric)
    <3>1. Alike(a, b, PyEqual)
      BY <2>3, PyEqualOf
    <3>2. ~OneKind(p)
      BY <2>3 DEF OneKind, Numeric
    <3>3. ASSUME NEW x \in Within(a), NEW y \in Within(b), PyEqual[<<x, y>>]
          PROVE  Equal[<<x, y>>]
      <4>1. x \in JsonValues /\ y \in JsonValues /\ Height(x) < Height(a)
        BY <2>1, JsonAssumption
      <4>2. <<x, y>> \in Twins /\ <<x, y>>[1] = x /\ <<x, y>>[2] = y
        BY <4>1 DEF Twins
      <4>3. /\ y.t \in Numeric => \A c \in JsonValues : c.t = "boolean" => c.n # y.n
            /\ Unmistakable[y]
        BY <2>1, UnmistakableOf
      <4>4. {x.t, y.t} \subseteq Numeric => OneKind(<<x, y>>)
        <5> SUFFICES ASSUME {x.t, y.t} \subseteq Numeric PROVE OneKind(<<x, y>>)
          OBVIOUS
        <5>1. x.n = y.n
          BY <3>3, <4>2, PyEqualOf
        <5>2. x.t # "boolean" /\ y.t # "boolean"
          BY <4>1, <4>3, <5>1
        <5>3. {x.t, y.t} \subseteq {"integer", "number"}
          BY <5>2 DEF Numeric
        <5> QED BY <4>2, <5>3 DEF OneKind
      <4>5. Sound(<<x, y>>)
        BY <1>1, <4>1, <4>2
      <4> QED BY <3>3, <4>2, <4>3, <4>4, <4>5
    <3>4. (\A name \in DOMAIN a.fields : a.fields[name] \in Within(a))
          /\ (\A i \in DOMAIN a.items : a.items[i] \in Within(a))
          /\ (\A name \in DOMAIN b.fields : b.fields[name] \in Within(b))
          /\ (\A i \in DOMAIN b.items : b.items[i] \in Within(b))
      BY DEF Within
    <3> HIDE DEF a, b
    <3>5. Alike(a, b, Equal)
      BY <3>1, <3>3, <3>4 DEF Alike
    <3> QED BY <3>2, <3>5, EqualOf DEF a, b
  <2> QED BY <2>2, <2>3
<1>2. depth \in [Twins -> Nat]
  BY JsonAssumption DEF Twins
<1>3. \A p \in Twins : (\A q \in Twins : depth[q] < depth[p] => q \in sound) => p \in sound
  <2> HIDE DEF Sound
  <2> QED BY <1>1
<1>4. Twins \subseteq sound
  <2> HIDE DEF sound, depth
  <2> QED BY <1>2, <1>3, FromBelow
<1>5. <<v, w>> \in Twins /\ <<v, w>>[1] = v /\ <<v, w>>[2] = w
  BY DEF Twins
<1>6. {v.t, w.t} \subseteq Numeric => OneKind(<<v, w>>)
  BY DEF OneKind
<1> QED BY <1>4, <1>5, <1>6

(* What the gate finds nothing wrong with is an instance of the schema, if the
   schema says of every part which type it has.                               *)
LEMMA NoCodesFits ==
  \A p \in Pairs : NamesItsTypes[p[2]] /\ Codes[p] = {} => Fits[p]
<1> DEFINE Sound(p) == NamesItsTypes[p[2]] /\ Codes[p] = {} => Fits[p]
<1>1. ASSUME NEW p \in Pairs, \A q \in Pairs : Height(q[1]) < Height(p[1]) => Sound(q)
      PROVE  Sound(p)
  <2> SUFFICES ASSUME NamesItsTypes[p[2]], Codes[p] = {} PROVE FitsBy(Fits, p)
    BY <1>1, FitsOf
  <2> DEFINE v == p[1]
             schema == p[2]
  <2>1. v \in JsonValues /\ schema \in Schemas
    BY DEF Pairs
  <2>2. /\ schema.type \in DOMAIN TypesOf
        /\ schema.enum # Absent =>
             \A w \in schema.enum : w.t \in TypesOf[schema.type] /\ Unmistakable[w]
        /\ \A s \in Subschemas(schema) : NamesItsTypes[s]
    BY <2>1, NamesItsTypesOf
  <2>3. /\ ~Mistyped(v, schema) /\ OwnCodes(v, schema) = {}
        /\ \A part \in Parts(v, schema) : Codes[part] = {}
    <3>1. Codes[p] = {} => ~Mistyped(p[1], p[2])
      BY CodesOf
    <3>2. (UNION {Codes[part] : part \in Parts(p[1], p[2])}) \cup OwnCodes(p[1], p[2]) = {}
      BY CodesOf, <3>1
    <3>3. \A part \in Parts(p[1], p[2]) : Codes[part] = {}
      BY <3>2
    <3> QED BY <3>1, <3>2, <3>3
  <2> HIDE DEF v, schema
  <2>4. schema.type \in Checkers /\ v.t \in TypesOf[schema.type]
    BY <2>2, <2>3 DEF Mistyped, HasType, Checkers, TypesOf
  <2>5. \A part \in Parts(v, schema) : NamesItsTypes[part[2]] => Fits[part]
    BY <1>1, <2>3, PartsDescend DEF v, schema
  <2>6. v.t \in {"object", "array"} => schema.type = v.t
    BY <2>2, <2>4 DEF TypesOf
  <2>7. v.t = "object" =>
          /\ schema.required \subseteq DOMAIN v.fields
          /\ \A name \in DOMAIN v.fields \cap DOMAIN schema.properties :
               Fits[<<v.fields[name], schema.properties[name]>>]
    <3> SUFFICES ASSUME v.t = "object"
                 PROVE  /\ schema.required \subseteq DOMAIN v.fields
                        /\ \A name \in DOMAIN v.fields \cap DOMAIN schema.properties :
                             Fits[<<v.fields[name], schema.properties[name]>>]
      OBVIOUS
    <3>1. schema.required \subseteq DOMAIN v.fields
      BY <2>3, <2>6 DEF OwnCodes
    <3>2. ASSUME NEW name \in DOMAIN v.fields \cap DOMAIN schema.properties
          PROVE  Fits[<<v.fields[name], schema.properties[name]>>]
      <4>1. <<v.fields[name], schema.properties[name]>> \in Parts(v, schema)
        BY <2>6 DEF Parts
      <4>2. NamesItsTypes[schema.properties[name]]
        BY <2>2, FieldsAreWithin
      <4> QED BY <2>5, <4>1, <4>2
    <3> QED BY <3>1, <3>2
  <2>8. v.t = "array" /\ schema.items # Absent =>
          \A i \in DOMAIN v.items : Fits[<<v.items[i], schema.items>>]
    <3> SUFFICES ASSUME v.t = "array", schema.items # Absent, NEW i \in DOMAIN v.items
                 PROVE  Fits[<<v.items[i], schema.items>>]
      OBVIOUS
    <3>1. <<v.items[i], schema.items>> \in Parts(v, schema)
      BY <2>6 DEF Parts
    <3>2. NamesItsTypes[schema.items]
      BY <2>2, FieldsAreWithin
    <3> QED BY <2>5, <3>1, <3>2
  <2>9. schema.enum # Absent => \E w \in schema.enum : Equal[<<v, w>>]
    <3> SUFFICES ASSUME schema.enum # Absent PROVE \E w \in schema.enum : Equal[<<v, w>>]
      OBVIOUS
    <3>1. PICK w \in schema.enum : PyEqual[<<v, w>>]
      BY <2>3 DEF OwnCodes, InEnum
    <3>2. w \in JsonValues /\ w.t \in TypesOf[schema.type] /\ Unmistakable[w]
      BY <2>1, <2>2, <3>1, JsonAssumption
    <3>3. {v.t, w.t} \subseteq Numeric =>
            \E kind \in {{"integer", "number"}, {"boolean"}} : {v.t, w.t} \subseteq kind
      <4>1. \/ {v.t, w.t} \subseteq {"integer", "number"}
            \/ {v.t, w.t} \subseteq {"boolean"}
            \/ v.t \notin Numeric
        BY <2>2, <2>4, <3>2 DEF TypesOf, Numeric
      <4> QED BY <4>1
    <3> QED BY <2>1, <3>1, <3>2, <3>3, ConfusesNothing
  <2> QED BY <2>4, <2>7, <2>8, <2>9 DEF FitsBy, v, schema
<1> DEFINE sound == {p \in Pairs : Sound(p)}
           depth == [p \in Pairs |-> Height(p[1])]
<1>2. depth \in [Pairs -> Nat]
  BY JsonAssumption DEF Pairs
<1>3. \A p \in Pairs : (\A q \in Pairs : depth[q] < depth[p] => q \in sound) => p \in sound
  <2> HIDE DEF Sound
  <2> QED BY <1>1
<1>4. Pairs \subseteq sound
  <2> HIDE DEF sound, depth
  <2> QED BY <1>2, <1>3, FromBelow
<1> QED BY <1>4

-----------------------------------------------------------------------------
(* The bodies that get through.                                               *)

LEMMA ChatShape ==
  ASSUME NEW a, NEW b \in ChatBodies(a)
  PROVE  \E messages, limits : b = ChatBody(a, messages, limits)
BY DEF ChatBodies

LEMMA ResponsesShape ==
  ASSUME NEW a, NEW b \in ResponsesBodies(a)
  PROVE  \E instructions, input : b = ResponsesBody(a, instructions, input)
BY DEF ResponsesBodies

LEMMA BadControlsInvalid == ~ControlsValid(BadControls)
<1>1. BadControls # Absent /\ 6 # Absent
  BY ExchangeAssumption
<1>2. BadControls.max_attempts = 6
  BY DEF BadControls
<1> QED BY <1>1, <1>2 DEF ControlsValid

(* No spoilt chat body is in order.                                           *)
LEMMA SpoiltChatRefused ==
  ASSUME NEW a, NEW messages, NEW limits, NEW b \in Spoilt(ChatBody(a, messages, limits))
  PROVE  BodyError(b) # "none"
<1> DEFINE g == ChatBody(a, messages, limits)
<1>1. 1 # Absent /\ 2 # Absent
  BY ExchangeAssumption
<1>2. \/ b = [g EXCEPT !.gateway = BadControls]
      \/ b = [g EXCEPT !.n = 2]
      \/ b = [g EXCEPT !.messages = <<>>]
      \/ b = [g EXCEPT !.max_tokens = 1, !.max_completion_tokens = 1]
  BY DEF Spoilt, ChatBody
<1>3. /\ b.endpoint = "chat_completions"
      /\ \/ b.gateway = BadControls
         \/ b.n = 2
         \/ b.messages = <<>>
         \/ b.max_tokens = 1 /\ b.max_completion_tokens = 1
  BY <1>2 DEF ChatBody
<1>4. BodyError(b) = ChatError(b)
  BY <1>3 DEF BodyError
<1>5. CASE b.gateway = BadControls
  BY <1>4, <1>5, BadControlsInvalid DEF ChatError
<1>6. CASE b.n = 2
  BY <1>1, <1>4, <1>6 DEF ChatError
<1>7. CASE b.messages = <<>>
  BY <1>4, <1>7 DEF ChatError
<1>8. CASE b.max_tokens = 1 /\ b.max_completion_tokens = 1
  BY <1>1, <1>4, <1>8 DEF ChatError
<1> QED BY <1>3, <1>5, <1>6, <1>7, <1>8

(* Nor is a spoilt Responses body both in order and supported.                *)
LEMMA SpoiltResponsesRefused ==
  ASSUME NEW a, NEW instructions, NEW input,
         NEW b \in Spoilt(ResponsesBody(a, instructions, input))
  PROVE  BodyError(b) # "none" \/ Unsupported(b)
<1> DEFINE g == ResponsesBody(a, instructions, input)
<1>1. 0 # Absent
  BY ExchangeAssumption
<1>2. \/ b = [g EXCEPT !.gateway = BadControls]
      \/ b = [g EXCEPT !.stored = TRUE]
      \/ b = [g EXCEPT !.input = <<>>]
      \/ b = [g EXCEPT !.max_output_tokens = 0]
  BY DEF Spoilt, ResponsesBody
<1>3. /\ b.endpoint = "responses"
      /\ \/ b.gateway = BadControls
         \/ b.stored
         \/ b.input = <<>>
         \/ b.max_output_tokens = 0
  BY <1>2 DEF ResponsesBody
<1>4. BodyError(b) = ResponsesError(b)
  BY <1>3 DEF BodyError
<1>5. CASE b.gateway = BadControls
  BY <1>4, <1>5, BadControlsInvalid DEF ResponsesError
<1>6. CASE b.stored
  BY <1>3, <1>6 DEF Unsupported
<1>7. CASE b.input = <<>>
  <2>1. Items(b.input) = <<>>
    BY <1>7 DEF Items
  <2>2. Turns(<<>>) = <<>>
    BY DEF Turns
  <2>3. Normalize(b).conversation = Turns(Items(b.input))
    BY <1>3 DEF Normalize, NormalizeResponses, Build
  <2> QED BY <2>1, <2>2, <2>3 DEF Unsupported
<1>8. CASE b.max_output_tokens = 0
  BY <1>1, <1>4, <1>8 DEF ResponsesError, Positive
<1> QED BY <1>3, <1>5, <1>6, <1>7, <1>8

(* A body that passes says what was asked in one of the ways there are.       *)
LEMMA PassedBody ==
  ASSUME NEW a, NEW b \in Bodies(a), BodyError(b) = "none", ~Unsupported(b)
  PROVE  b \in ChatBodies(a) \/ b \in ResponsesBodies(a)
<1>1. ASSUME NEW g \in ChatBodies(a), b \in Spoilt(g) PROVE FALSE
  BY <1>1, ChatShape, SpoiltChatRefused
<1>2. ASSUME NEW g \in ResponsesBodies(a), b \in Spoilt(g) PROVE FALSE
  BY <1>2, ResponsesShape, SpoiltResponsesRefused
<1> QED BY <1>1, <1>2 DEF Bodies

\* What the plan and the provider are told of a request besides its words.
LEMMA TermsKept ==
  ASSUME NEW a, NEW b, b \in ChatBodies(a) \/ b \in ResponsesBodies(a)
  PROVE  /\ Normalize(b).format = a.format
         /\ Normalize(b).tools = a.tools
         /\ Normalize(b).max_output_tokens = a.limit
         /\ a.tools # {} => "tools" \in Normalize(b).capabilities
         /\ a.format.kind = "json_schema" => "json_schema" \in Normalize(b).capabilities
<1>1. CASE b \in ChatBodies(a)
  <2>1. PICK messages, limits :
          /\ b = ChatBody(a, messages, limits)
          /\ limits \in {<<a.limit, Absent>>, <<Absent, a.limit>>}
    BY <1>1 DEF ChatBodies
  <2>2. /\ b.endpoint = "chat_completions" /\ b.format = a.format /\ b.tools = a.tools
        /\ b.max_tokens = limits[1] /\ b.max_completion_tokens = limits[2]
    BY <2>1 DEF ChatBody
  <2>3. ChatLimit(b) = a.limit
    BY <2>1, <2>2 DEF ChatLimit
  <2>4. /\ Normalize(b).format = b.format /\ Normalize(b).tools = b.tools
        /\ Normalize(b).max_output_tokens = ChatLimit(b)
        /\ Normalize(b).capabilities = Capabilities(b, b.messages)
    BY <2>2 DEF Normalize, NormalizeChat, Build
  <2>5. /\ b.tools # {} => "tools" \in Capabilities(b, b.messages)
        /\ b.format.kind = "json_schema" => "json_schema" \in Capabilities(b, b.messages)
    BY DEF Capabilities
  <2> QED BY <2>2, <2>3, <2>4, <2>5
<1>2. CASE b \in ResponsesBodies(a)
  <2>1. PICK instructions, input : b = ResponsesBody(a, instructions, input)
    BY <1>2, ResponsesShape
  <2>2. /\ b.endpoint = "responses" /\ b.format = a.format /\ b.tools = a.tools
        /\ b.max_output_tokens = a.limit
    BY <2>1 DEF ResponsesBody
  <2>3. /\ Normalize(b).format = b.format /\ Normalize(b).tools = b.tools
        /\ Normalize(b).max_output_tokens = b.max_output_tokens
        /\ Capabilities(b, b.input) \subseteq Normalize(b).capabilities
    BY <2>2 DEF Normalize, NormalizeResponses, Build
  <2>4. /\ b.tools # {} => "tools" \in Capabilities(b, b.input)
        /\ b.format.kind = "json_schema" => "json_schema" \in Capabilities(b, b.input)
    BY DEF Capabilities
  <2> QED BY <2>2, <2>3, <2>4
<1> QED BY <1>1, <1>2

(* A 200 with a schema asked for is an instance of it: the plan checks it in every
   class and mode, an accepted aggregate has heard every validator and each of
   them passed, and what the check passes fits.                               *)
THEOREM AcceptedIsInstance == Spec => []AcceptedFits
<1>1. ExchangeInv => AcceptedFits
  <2> SUFFICES ASSUME ExchangeInv, answer.code = "ok", phase # "idle", RequiresSchema(ask)
               PROVE  /\ NamesItsTypes[ask.format.schema] =>
                           /\ answer.text.json # Absent
                           /\ Fits[<<answer.text.json, ask.format.schema>>]
                      /\ answer.text = reply.text
    BY DEF AcceptedFits
  <2>1. reply.kind = "result" /\ Accepted /\ answer.text = reply.text
    BY DEF ExchangeInv, Silent, Paid
  <2>2. reply.text \in Texts
    BY <2>1 DEF ExchangeInv, ResultHasText
  <2>3. FromBody /\ FromPolicy
    BY DEF ExchangeInv, Normal, Planned, Begun
  <2>4. canonical.format = ask.format
    <3>1. PICK b \in Bodies(ask) :
            BodyError(b) = "none" /\ ~Unsupported(b) /\ canonical = Normalize(b)
      BY <2>3 DEF FromBody
    <3> QED BY <3>1, PassedBody, TermsKept
  <2>5. RequiresSchema(canonical)
    BY <2>4 DEF RequiresSchema
  <2>6. plan \in Seq(ValidatorNames) /\ \E i \in DOMAIN plan : plan[i] = "schema_check"
    BY <2>3, <2>5, PlanForOf DEF FromPolicy
  <2>7. PICK i \in DOMAIN plan : plan[i] = "schema_check"
    BY <2>6
  <2> DEFINE verdicts == Verdicts(plan, reply.text, canonical)
             run == RunPlan(plan, reply.text, canonical)
             n == RunLength(plan, reply.text, canonical)
  <2>8. /\ DOMAIN run = 1..n
        /\ \A k \in 1..n : run[k] = verdicts[k]
        /\ \/ n = Len(plan)
           \/ n \in 1..Len(plan) /\ Stops(verdicts[n])
    BY <2>6, RunOf
  <2>9. verdicts[i] = SchemaCheck(reply.text, canonical.format.schema)
    BY <2>7 DEF Verdicts, Verdict
  <2>10. Decision(Aggregate(run)) = "accept"
    BY <2>1 DEF Accepted
  <2> HIDE DEF verdicts, run, n
  <2>11. n = Len(plan)
    <3> SUFFICES ASSUME n \in 1..Len(plan), Stops(verdicts[n])
                 PROVE  FALSE
      BY <2>8
    <3>1. n \in 1..n
      OBVIOUS
    <3>2. n \in DOMAIN run /\ run[n] = verdicts[n]
      BY <2>8, <3>1
    <3> QED BY <2>10, <3>2, AggregateIsGravest
  <2>12. i \in DOMAIN run /\ run[i] = verdicts[i]
    BY <2>6, <2>7, <2>8, <2>11
  <2>13. SchemaCheck(reply.text, canonical.format.schema) = "PASS"
    <3>1. verdicts[i] \in {"PASS", "FAIL_REPAIRABLE"}
      BY <2>9 DEF SchemaCheck, PassUnless
    <3>2. verdicts[i] \in ToSet(Severity)
      BY <3>1 DEF ToSet, Severity
    <3> QED BY <2>9, <2>10, <2>12, <3>2, AggregateIsGravest
  <2> DEFINE json == reply.text.json
             schema == ask.format.schema
  <2>14. schema # Absent
    BY DEF RequiresSchema
  <2>15. json # Absent /\ Codes[<<json, schema>>] = {}
    BY <2>4, <2>13, <2>14 DEF SchemaCheck, PassUnless
  <2>16. <<json, schema>> \in Pairs
    <3>1. json \in JsonValues
      BY <2>2, <2>15, ExchangeAssumption
    <3>2. ask \in Asks
      BY DEF ExchangeInv, Asked
    <3>3. ask.format \in [kind : {"text", "json_object"}, schema : {Absent}]
                           \cup [kind : {"json_schema"}, schema : Schemas]
      BY <3>2, ExchangeAssumption
    <3>4. schema \in Schemas
      BY <2>14, <3>3
    <3> QED BY <3>1, <3>4 DEF Pairs
  <2>17. NamesItsTypes[schema] => Fits[<<json, schema>>]
    <3> HIDE DEF json, schema
    <3>1. <<json, schema>>[2] = schema
      OBVIOUS
    <3> QED BY <2>15, <2>16, <3>1, NoCodesFits
  <2> QED BY <2>1, <2>15, <2>17
<1> QED BY <1>1, ExchangeInvariant, PTL

-----------------------------------------------------------------------------
(* What is spoken.  Joining the parts of a content gives back its words.        *)

(* Joined sequences are the last of the totals on the way.                    *)
LEMMA FlattenIs ==
  ASSUME NEW S, NEW n \in Nat, n # 0, NEW seqs \in [1..n -> Seq(S)],
         NEW total \in [1..n -> Seq(S)],
         total[1] = seqs[1], \A i \in 2..n : total[i] = total[i - 1] \o seqs[i]
  PROVE  FlattenSeq(seqs) = total[n]
<1> DEFINE F(f) == [i \in 1..n |-> IF i = 1 THEN seqs[i] ELSE f[i - 1] \o seqs[i]]
           flatten == CHOOSE f : f = F(f)
<1>1. Len(seqs) = n /\ 1 \in 1..n /\ n \in 1..n
  OBVIOUS
<1>2. FlattenSeq(seqs) = flatten[n]
  BY <1>1 DEF FlattenSeq
<1>3. total = F(total)
  <2>1. ASSUME NEW i \in 1..n PROVE total[i] = F(total)[i]
    <3>1. i = 1 \/ i \in 2..n
      OBVIOUS
    <3> QED BY <3>1
  <2>2. total = [i \in 1..n |-> total[i]] /\ F(total) = [i \in 1..n |-> F(total)[i]]
    OBVIOUS
  <2> HIDE DEF F
  <2> QED BY <2>1, <2>2
<1> HIDE DEF F
<1>4. flatten = F(flatten)
  BY <1>3
<1> HIDE DEF flatten
<1>5. /\ flatten[1] = seqs[1]
      /\ \A i \in 2..n : flatten[i] = flatten[i - 1] \o seqs[i]
  <2>1. \A i \in 1..n : flatten[i] = IF i = 1 THEN seqs[i] ELSE flatten[i - 1] \o seqs[i]
    BY <1>4 DEF F
  <2>2. \A i \in 2..n : i \in 1..n /\ i # 1
    OBVIOUS
  <2> QED BY <1>1, <2>1, <2>2
<1> DEFINE same == {i \in 1..n : flatten[i] = total[i]}
<1>6. 1 \in same
  BY <1>1, <1>5
<1>7. \A i \in 1..n : i + 1 \in 1..n /\ i \in same => i + 1 \in same
  <2> SUFFICES ASSUME NEW i \in 1..n, i + 1 \in 1..n, flatten[i] = total[i]
               PROVE  flatten[i + 1] = total[i + 1]
    OBVIOUS
  <2>1. i + 1 \in 2..n /\ (i + 1) - 1 = i
    OBVIOUS
  <2> QED BY <1>5, <2>1
<1> HIDE DEF same
<1>8. 1..n \subseteq same
  BY <1>1, <1>6, <1>7, IntervalInduction
<1>9. n \in same
  BY <1>1, <1>8
<1> QED BY <1>2, <1>9 DEF same

(* Nothing joins to nothing, and one sequence to itself.                      *)
LEMMA FlattenFew ==
  /\ FlattenSeq(<<>>) = <<>>
  /\ \A S : \A w \in Seq(S) : FlattenSeq(<<w>>) = w
<1>1. FlattenSeq(<<>>) = <<>>
  BY DEF FlattenSeq
<1>2. ASSUME NEW S, NEW w \in Seq(S) PROVE FlattenSeq(<<w>>) = w
  <2> DEFINE one == <<w>>
  <2>1. one \in [1..1 -> Seq(S)] /\ one[1] = w
    OBVIOUS
  <2>2. 1 \in Nat /\ 1 # 0 /\ \A i \in 2..1 : FALSE
    OBVIOUS
  <2> HIDE DEF one
  <2>3. \A i \in 2..1 : one[i] = one[i - 1] \o one[i]
    BY <2>2
  <2>4. FlattenSeq(one) = one[1]
    BY <2>1, <2>2, <2>3, FlattenIs
  <2> QED BY <2>1, <2>4 DEF one
<1> QED BY <1>1, <1>2

(* Words one by one join to the words, whatever wordless parts follow.        *)
LEMMA FlattenWords ==
  ASSUME NEW S, NEW words \in Seq(S), NEW n \in Nat, Len(words) <= n, n # 0,
         NEW seqs \in [1..n -> Seq(S)],
         \A i \in 1..n : seqs[i] = IF i <= Len(words) THEN <<words[i]>> ELSE <<>>
  PROVE  FlattenSeq(seqs) = words
<1> DEFINE first(i) == [k \in 1..i |-> words[k]]
           total == [i \in 1..n |-> IF i <= Len(words) THEN first(i) ELSE words]
<1>1. Len(words) \in Nat /\ \A k \in 1..Len(words) : words[k] \in S
  OBVIOUS
<1>2. \A i \in 0..Len(words) : first(i) \in Seq(S) /\ Len(first(i)) = i
  BY <1>1
<1>3. total \in [1..n -> Seq(S)]
  <2>1. \A i \in 1..n : i <= Len(words) => i \in 0..Len(words)
    BY <1>1
  <2> HIDE DEF first
  <2> QED BY <1>2, <2>1
<1>4. first(Len(words)) = words
  BY <1>1
<1>5. \A i \in 1..Len(words) : first(i) = first(i - 1) \o <<words[i]>>
  <2> SUFFICES ASSUME NEW i \in 1..Len(words) PROVE first(i) = first(i - 1) \o <<words[i]>>
    OBVIOUS
  <2>1. i \in Nat /\ i - 1 \in 0..Len(words) /\ i \in 0..Len(words) /\ words[i] \in S
    BY <1>1
  <2>2. /\ first(i - 1) \in Seq(S) /\ Len(first(i - 1)) = i - 1
        /\ first(i) \in Seq(S) /\ Len(first(i)) = i
    BY <1>2, <2>1
  <2>3. <<words[i]>> \in Seq(S) /\ Len(<<words[i]>>) = 1 /\ <<words[i]>>[1] = words[i]
    BY <2>1
  <2> DEFINE joined == first(i - 1) \o <<words[i]>>
  <2>4. /\ joined \in Seq(S) /\ Len(joined) = i
        /\ \A k \in 1..i : joined[k] = IF k <= i - 1 THEN first(i - 1)[k] ELSE words[i]
    <3>1. /\ joined \in Seq(S)
          /\ Len(joined) = (i - 1) + 1
          /\ \A k \in 1..(i - 1) + 1 :
               joined[k] = IF k <= i - 1 THEN first(i - 1)[k] ELSE <<words[i]>>[k - (i - 1)]
      <4> DEFINE front == first(i - 1)
                 last == <<words[i]>>
      <4>1. front \in Seq(S) /\ Len(front) = i - 1 /\ last \in Seq(S) /\ Len(last) = 1
        BY <2>2, <2>3
      <4> HIDE DEF front, last
      <4>2. /\ front \o last \in Seq(S)
            /\ Len(front \o last) = Len(front) + Len(last)
            /\ \A k \in 1..Len(front) + Len(last) :
                 (front \o last)[k] = IF k <= Len(front) THEN front[k] ELSE last[k - Len(front)]
        BY <4>1, ConcatProperties, Zenon
      <4>3. /\ front \o last \in Seq(S)
            /\ Len(front \o last) = (i - 1) + 1
            /\ \A k \in 1..(i - 1) + 1 :
                 (front \o last)[k] = IF k <= i - 1 THEN front[k] ELSE last[k - (i - 1)]
        BY <4>1, <4>2, Zenon
      <4> QED BY <4>3 DEF front, last
    <3>2. \A k \in 1..i : k \in 1..(i - 1) + 1 /\ (k <= i - 1 \/ k - (i - 1) = 1)
      BY <2>1
    <3> HIDE DEF joined, first
    <3>3. (i - 1) + 1 = i
      BY <2>1
    <3> QED BY <2>3, <3>1, <3>2, <3>3
  <2>5. \A k \in 1..i : first(i)[k] = joined[k]
    <3>1. \A k \in 1..i : first(i)[k] = words[k] /\ (k <= i - 1 => first(i - 1)[k] = words[k])
      BY <2>1
    <3>2. \A k \in 1..i : k <= i - 1 \/ k = i
      BY <2>1
    <3> HIDE DEF first, joined
    <3> QED BY <2>4, <3>1, <3>2
  <2> HIDE DEF first, joined
  <2>6. first(i) = joined
    BY <2>2, <2>4, <2>5, SeqEqual
  <2> QED BY <2>6 DEF joined
<1> HIDE DEF first
<1>6. total[1] = seqs[1]
  <2>1. CASE Len(words) = 0
    <3>1. words = <<>>
      BY <2>1
    <3> QED BY <2>1, <3>1
  <2>2. CASE Len(words) # 0
    <3>1. 1 \in 1..Len(words) /\ 1 \in 1..n
      BY <1>1, <2>2
    <3>2. first(1) = <<words[1]>>
      <4>1. first(0) = <<>>
        BY DEF first
      <4>2. <<words[1]>> \in Seq(S)
        BY <1>1, <3>1
      <4>3. <<>> \o <<words[1]>> = <<words[1]>>
        BY <4>2, ConcatEmptySeq
      <4>4. first(1) = first(0) \o <<words[1]>>
        <5>1. first(1) = first(1 - 1) \o <<words[1]>>
          BY <1>5, <3>1
        <5> QED BY <5>1
      <4> QED BY <4>1, <4>3, <4>4
    <3> QED BY <3>1, <3>2
  <2> QED BY <2>1, <2>2
<1>7. \A i \in 2..n : total[i] = total[i - 1] \o seqs[i]
  <2> SUFFICES ASSUME NEW i \in 2..n PROVE total[i] = total[i - 1] \o seqs[i]
    OBVIOUS
  <2>1. i \in 1..n /\ i - 1 \in 1..n /\ i \in Nat
    OBVIOUS
  <2>2. CASE i <= Len(words)
    <3>1. i \in 1..Len(words) /\ i - 1 <= Len(words)
      BY <1>1, <2>1, <2>2
    <3> QED BY <1>5, <2>1, <2>2, <3>1
  <2>3. CASE ~(i <= Len(words))
    <3>1. total[i - 1] = words
      <4>1. i - 1 <= Len(words) => i - 1 = Len(words)
        BY <1>1, <2>1, <2>3
      <4> QED BY <1>4, <2>1, <4>1
    <3>2. words \o <<>> = words
      BY ConcatEmptySeq
    <3> QED BY <2>1, <2>3, <3>1, <3>2
  <2> QED BY <2>2, <2>3
<1>8. total[n] = words
  <2>1. n \in 1..n /\ (n <= Len(words) => n = Len(words))
    BY <1>1
  <2> QED BY <1>4, <2>1
<1> HIDE DEF total
<1> QED BY <1>3, <1>6, <1>7, <1>8, FlattenIs

\* The ways a turn's words become a content: in one part or in a part each, with
\* or without a picture.
LEMMA FlattenContent ==
  ASSUME NEW S, NEW words \in Seq(S), NEW tail \in {<<>>, Picture}
  PROVE  Flatten(Whole(words) \o tail) = words /\ Flatten(Split(words) \o tail) = words
<1> DEFINE P == [type : {"text", "image_url"}, words : Seq(S)]
<1>1. ASSUME NEW w \in Seq(S), NEW t \in {"text", "image_url"}
      PROVE  [type |-> t, words |-> w] \in P
  OBVIOUS
<1>2. \A part \in P : part.words \in Seq(S)
  OBVIOUS
<1> HIDE DEF P
<1>3. /\ tail \in Seq(P) /\ Len(tail) \in {0, 1}
      /\ Len(tail) = 1 => tail[1].words = <<>>
  <2>1. <<>> \in Seq(S) /\ <<>> \in Seq(P) /\ Len(<<>>) = 0
    OBVIOUS
  <2>2. [type |-> "image_url", words |-> <<>>] \in P
    BY <1>1, <2>1
  <2>3. Picture \in Seq(P) /\ Len(Picture) = 1 /\ Picture[1].words = <<>>
    BY <2>2 DEF Picture
  <2>4. CASE tail = <<>>
    BY <2>1, <2>4
  <2>5. CASE tail = Picture
    BY <2>3, <2>5
  <2> QED BY <2>4, <2>5
<1>4. Whole(words) \in Seq(P) /\ Len(Whole(words)) = 1 /\ Whole(words)[1].words = words
  <2>1. [type |-> "text", words |-> words] \in P
    BY <1>1
  <2> QED BY <2>1 DEF Whole
<1>5. /\ Split(words) \in Seq(P) /\ Len(Split(words)) = Len(words)
      /\ \A i \in 1..Len(words) : Split(words)[i].words = <<words[i]>>
  <2>1. /\ DOMAIN words = 1..Len(words) /\ Len(words) \in Nat
        /\ \A i \in 1..Len(words) : <<words[i]>> \in Seq(S)
    OBVIOUS
  <2>2. \A i \in 1..Len(words) : [type |-> "text", words |-> <<words[i]>>] \in P
    BY <1>1, <2>1
  <2>3. Split(words) = [i \in 1..Len(words) |-> [type |-> "text", words |-> <<words[i]>>]]
    BY <2>1 DEF Split
  <2> QED BY <2>1, <2>2, <2>3
<1>6. ASSUME NEW c \in Seq(P)
      PROVE  \E seqs :
               /\ Len(c) # 0 => seqs \in [1..Len(c) -> Seq(S)]
               /\ \A i \in 1..Len(c) : seqs[i] = c[i].words
               /\ Flatten(c) = FlattenSeq(seqs)
               /\ Len(c) = 0 => seqs = <<>>
  <2> DEFINE seqs == [i \in DOMAIN c |-> c[i].words]
  <2>1. DOMAIN c = 1..Len(c) /\ \A i \in 1..Len(c) : c[i].words \in Seq(S)
    <3>1. DOMAIN c = 1..Len(c) /\ \A i \in 1..Len(c) : c[i] \in P
      OBVIOUS
    <3> QED BY <1>2, <3>1
  <2>2. seqs \in [1..Len(c) -> Seq(S)] /\ \A i \in 1..Len(c) : seqs[i] = c[i].words
    BY <2>1
  <2>3. Len(c) = 0 => seqs = <<>>
    OBVIOUS
  <2>4. Flatten(c) = FlattenSeq(seqs)
    BY DEF Flatten
  <2> HIDE DEF seqs
  <2> QED BY <2>2, <2>3, <2>4
<1>7. ASSUME NEW c \in Seq(P), NEW front \in Seq(P), c = front \o tail
      PROVE  /\ Len(c) = Len(front) + Len(tail) /\ Len(c) \in Nat /\ Len(front) \in Nat
             /\ \A i \in 1..Len(c) :
                  c[i].words = IF i <= Len(front) THEN front[i].words ELSE <<>>
  <2>1. /\ Len(front \o tail) = Len(front) + Len(tail)
        /\ \A i \in 1..Len(front) + Len(tail) :
             (front \o tail)[i] = IF i <= Len(front) THEN front[i] ELSE tail[i - Len(front)]
    BY <1>3, ConcatProperties
  <2>2. Len(front) \in Nat
    OBVIOUS
  <2>3. \A i \in 1..Len(front) + Len(tail) :
          i <= Len(front) \/ (Len(tail) = 1 /\ i - Len(front) = 1)
    <3> DEFINE k == Len(tail)
               m == Len(front)
    <3>1. k \in {0, 1} /\ m \in Nat
      BY <1>3, <2>2
    <3> HIDE DEF k, m
    <3>2. \A i \in 1..m + k : i <= m \/ (k = 1 /\ i - m = 1)
      BY <3>1
    <3> QED BY <3>2 DEF k, m
  <2>4. \A i \in 1..Len(c) : ~(i <= Len(front)) => c[i].words = <<>>
    BY <1>3, <1>7, <2>1, <2>3
  <2> QED BY <1>3, <1>7, <2>1, <2>2, <2>4
<1>8. Whole(words) \o tail \in Seq(P) /\ Split(words) \o tail \in Seq(P)
  BY <1>3, <1>4, <1>5, ConcatProperties
<1>9. Flatten(Whole(words) \o tail) = words
  <2> DEFINE c == Whole(words) \o tail
  <2>1. /\ Len(c) = 1 + Len(tail) /\ Len(c) \in Nat
        /\ \A i \in 1..Len(c) : c[i].words = IF i <= 1 THEN Whole(words)[i].words ELSE <<>>
    <3>1. c \in Seq(P) /\ Whole(words) \in Seq(P) /\ Len(Whole(words)) = 1
      BY <1>4, <1>8
    <3>2. /\ Len(c) = Len(Whole(words)) + Len(tail) /\ Len(c) \in Nat
          /\ \A i \in 1..Len(c) :
               c[i].words = IF i <= Len(Whole(words)) THEN Whole(words)[i].words ELSE <<>>
      BY <1>7, <3>1
    <3> HIDE DEF c
    <3> QED BY <3>1, <3>2, Zenon
  <2> HIDE DEF c
  <2>2. c \in Seq(P)
    BY <1>8 DEF c
  <2>3. PICK seqs \in [1..Len(c) -> Seq(S)] :
          (\A i \in 1..Len(c) : seqs[i] = c[i].words) /\ Flatten(c) = FlattenSeq(seqs)
    <3>1. Len(c) # 0
      BY <1>3, <2>1
    <3> QED BY <1>6, <2>2, <3>1
  <2>4. seqs[1] = words /\ (Len(c) = 2 => seqs[2] = <<>>)
    BY <1>3, <1>4, <2>1, <2>3
  <2> DEFINE total == [i \in 1..Len(c) |-> words]
  <2>5. total \in [1..Len(c) -> Seq(S)] /\ Len(c) # 0 /\ total[1] = seqs[1] /\ total[Len(c)] = words
    BY <1>3, <2>1, <2>4
  <2>6. \A i \in 2..Len(c) : total[i] = total[i - 1] \o seqs[i]
    <3> SUFFICES ASSUME NEW i \in 2..Len(c) PROVE total[i] = total[i - 1] \o seqs[i]
      OBVIOUS
    <3> DEFINE k == Len(tail)
               m == Len(c)
    <3>1. k \in {0, 1} /\ m = 1 + k /\ i \in 2..m
      BY <1>3, <2>1
    <3> HIDE DEF k, m
    <3>2. i = 2 /\ m = 2
      BY <3>1
    <3>3. i = 2 /\ Len(c) = 2
      BY <3>2 DEF m
    <3>4. words \o <<>> = words
      BY ConcatEmptySeq
    <3>5. total[i] = words /\ total[i - 1] = words /\ seqs[i] = <<>>
      BY <2>4, <3>3
    <3> HIDE DEF total
    <3> QED BY <3>4, <3>5
  <2> HIDE DEF total
  <2>7. FlattenSeq(seqs) = total[Len(c)]
    BY <2>1, <2>3, <2>5, <2>6, FlattenIs
  <2> QED BY <2>3, <2>5, <2>7 DEF c
<1>10. Flatten(Split(words) \o tail) = words
  <2> DEFINE c == Split(words) \o tail
  <2>1. /\ Len(c) = Len(words) + Len(tail) /\ Len(c) \in Nat /\ Len(words) \in Nat
        /\ \A i \in 1..Len(c) :
             c[i].words = IF i <= Len(words) THEN Split(words)[i].words ELSE <<>>
    BY <1>5, <1>7, <1>8
  <2> HIDE DEF c
  <2>2. c \in Seq(P)
    BY <1>8 DEF c
  <2>3. CASE Len(c) = 0
    <3>1. words = <<>>
      BY <1>3, <2>1, <2>3
    <3>2. Flatten(c) = FlattenSeq(<<>>)
      BY <1>6, <2>2, <2>3
    <3> QED BY <3>1, <3>2, FlattenFew DEF c
  <2>4. CASE Len(c) # 0
    <3>1. PICK seqs \in [1..Len(c) -> Seq(S)] :
            (\A i \in 1..Len(c) : seqs[i] = c[i].words) /\ Flatten(c) = FlattenSeq(seqs)
      BY <1>6, <2>2, <2>4
    <3>2. ASSUME NEW i \in 1..Len(c)
          PROVE  seqs[i] = IF i <= Len(words) THEN <<words[i]>> ELSE <<>>
      <4>1. i <= Len(words) => i \in 1..Len(words)
        BY <2>1
      <4>2. seqs[i] = IF i <= Len(words) THEN Split(words)[i].words ELSE <<>>
        BY <2>1, <3>1
      <4> QED BY <1>5, <4>1, <4>2
    <3>3. Len(words) <= Len(c)
      BY <1>3, <2>1
    <3>4. FlattenSeq(seqs) = words
      BY <2>1, <2>4, <3>2, <3>3, FlattenWords
    <3> QED BY <3>1, <3>4 DEF c
  <2> QED BY <2>3, <2>4
<1> QED BY <1>9, <1>10

SaidTurn == [role : ChatRoles, words : Seq(Words)]

\* The sequence of messages m says the turns t.
Says(m, t) ==
  /\ DOMAIN m = 1..Len(t)
  /\ \A i \in 1..Len(t) : m[i].role = t[i].role /\ Flatten(m[i].content) = t[i].words

LEMMA TurnsOf ==
  ASSUME NEW m, NEW t \in Seq(SaidTurn), Says(m, t)
  PROVE  Turns(m) = t
<1>1. ASSUME NEW i \in 1..Len(t) PROVE t[i] = [role |-> t[i].role, words |-> t[i].words]
  <2>1. t[i] \in SaidTurn
    OBVIOUS
  <2> QED BY <2>1 DEF SaidTurn
<1>2. Turns(m) = [i \in 1..Len(t) |-> [role |-> m[i].role, words |-> Flatten(m[i].content)]]
  BY DEF Turns, Says
<1>3. Turns(m) = [i \in 1..Len(t) |-> t[i]]
  BY <1>1, <1>2 DEF Says
<1> QED BY <1>3

LEMMA AsksTurns ==
  ASSUME NEW a \in Asks
  PROVE  /\ a.turns \in Seq(SaidTurn) /\ Len(a.turns) \in Nat /\ a.instructions \in Seq(Words)
         /\ \A i \in 1..Len(a.turns) : a.turns[i].role \in ChatRoles \ InstructionRoles
<1> DEFINE Turn == [role : ChatRoles \ InstructionRoles, words : Seq(Words)]
<1>1. a.turns \in Seq(Turn) /\ a.instructions \in Seq(Words)
  BY ExchangeAssumption
<1>2. Turn \subseteq SaidTurn /\ \A t \in Turn : t.role \in ChatRoles \ InstructionRoles
  BY DEF SaidTurn
<1> HIDE DEF Turn
<1>3. Len(a.turns) \in Nat /\ \A i \in 1..Len(a.turns) : a.turns[i] \in Turn
  BY <1>1
<1>4. a.turns \in Seq(SaidTurn)
  BY <1>1, <1>2, SeqMonotonic
<1> QED BY <1>1, <1>2, <1>3, <1>4

(* The messages of the turns say them, in one part or in many.                *)
LEMMA SaidIs ==
  ASSUME NEW a \in Asks, NEW spoken \in {Said(a, Whole), Said(a, Split)}
  PROVE  /\ Says(spoken, a.turns)
         /\ spoken = [i \in 1..Len(a.turns) |->
                      [role |-> a.turns[i].role, content |-> spoken[i].content]]
<1>1. a.turns \in Seq(SaidTurn) /\ DOMAIN a.turns = 1..Len(a.turns)
  BY AsksTurns
<1>2. \A i \in 1..Len(a.turns) : a.turns[i].words \in Seq(Words)
  <2>1. \A i \in 1..Len(a.turns) : a.turns[i] \in SaidTurn
    BY <1>1
  <2> QED BY <2>1 DEF SaidTurn
<1> DEFINE tail(i) == IF i = 1 /\ a.picture THEN Picture ELSE <<>>
<1>3. \A i : tail(i) \in {<<>>, Picture}
  OBVIOUS
<1>4. CASE spoken = Said(a, Whole)
  <2>1. spoken = [i \in 1..Len(a.turns) |->
                  [role |-> a.turns[i].role, content |-> Whole(a.turns[i].words) \o tail(i)]]
    BY <1>1, <1>4 DEF Said
  <2> HIDE DEF tail
  <2>2. \A i \in 1..Len(a.turns) : spoken[i].role = a.turns[i].role
                                   /\ spoken[i].content = Whole(a.turns[i].words) \o tail(i)
    BY <2>1
  <2>3. ASSUME NEW i \in 1..Len(a.turns) PROVE Flatten(spoken[i].content) = a.turns[i].words
    <3>1. a.turns[i].words \in Seq(Words) /\ tail(i) \in {<<>>, Picture}
      BY <1>2, <1>3
    <3> HIDE DEF tail
    <3> QED BY <2>2, <3>1, FlattenContent
  <2>4. spoken = [i \in 1..Len(a.turns) |->
                      [role |-> a.turns[i].role, content |-> spoken[i].content]]
    BY <2>1, <2>2
  <2> QED BY <2>1, <2>2, <2>3, <2>4 DEF Says
<1>5. CASE spoken = Said(a, Split)
  <2>1. spoken = [i \in 1..Len(a.turns) |->
                  [role |-> a.turns[i].role, content |-> Split(a.turns[i].words) \o tail(i)]]
    BY <1>1, <1>5 DEF Said
  <2> HIDE DEF tail
  <2>2. \A i \in 1..Len(a.turns) : spoken[i].role = a.turns[i].role
                                   /\ spoken[i].content = Split(a.turns[i].words) \o tail(i)
    BY <2>1
  <2>3. ASSUME NEW i \in 1..Len(a.turns) PROVE Flatten(spoken[i].content) = a.turns[i].words
    <3>1. a.turns[i].words \in Seq(Words) /\ tail(i) \in {<<>>, Picture}
      BY <1>2, <1>3
    <3> HIDE DEF tail
    <3> QED BY <2>2, <3>1, FlattenContent
  <2>4. spoken = [i \in 1..Len(a.turns) |->
                      [role |-> a.turns[i].role, content |-> spoken[i].content]]
    BY <2>1, <2>2
  <2> QED BY <2>1, <2>2, <2>3, <2>4 DEF Says
<1> QED BY <1>4, <1>5

LEMMA FlattenWhole == ASSUME NEW words \in Seq(Words) PROVE Flatten(Whole(words)) = words
<1>1. Whole(words) \o <<>> = Whole(words)
  <2>1. Whole(words) \in Seq({[type |-> "text", words |-> words]})
    BY DEF Whole
  <2> QED BY <2>1, ConcatEmptySeq
<1>2. Flatten(Whole(words) \o <<>>) = words
  BY FlattenContent
<1> QED BY <1>1, <1>2

(* Something put before or after a sequence.                                  *)
LEMMA Around ==
  ASSUME NEW X, NEW s \in Seq(X), NEW e \in Seq(X), NEW k \in {0, Len(s)}
  PROVE  SubSeq(s, 1, k) \o e \o SubSeq(s, k + 1, Len(s)) \in {e \o s, s \o e}
<1>1. Len(s) \in Nat /\ e \o s \in Seq(X) /\ s \o e \in Seq(X)
  OBVIOUS
<1>2. SubSeq(s, 1, Len(s)) = s
  BY SubSeqFull
<1>3. <<>> \o e = e /\ (s \o e) \o <<>> = s \o e
  BY <1>1, ConcatEmptySeq
<1>4. CASE k = 0
  <2>1. SubSeq(s, 1, 0) = <<>>
    OBVIOUS
  <2>2. k + 1 = 1
    BY <1>4
  <2> QED BY <1>2, <1>3, <1>4, <2>1, <2>2
<1>5. CASE k = Len(s)
  <2>1. Len(s) + 1 \in Int /\ Len(s) \in Int /\ Len(s) + 1 > Len(s)
    BY <1>1
  <2>2. SubSeq(s, Len(s) + 1, Len(s)) = <<>>
    BY <2>1, SubSeqEmpty
  <2> QED BY <1>2, <1>3, <1>5, <2>2
<1> QED BY <1>4, <1>5

(* Instructions and turns stand apart in the messages of a chat body, wherever
   the instructions were put.                                                 *)
LEMMA ChatSays ==
  ASSUME NEW a \in Asks, NEW b \in ChatBodies(a)
  PROVE  Normalize(b).system = a.instructions /\ Normalize(b).conversation = a.turns
<1>1. PICK spoken \in {Said(a, Whole), Said(a, Split)}, role \in InstructionRoles,
           k \in {0, Len(a.turns)},
           limits \in {<<a.limit, Absent>>, <<Absent, a.limit>>} :
        b = ChatBody(a, SubSeq(spoken, 1, k) \o Instruct(a, role)
                          \o SubSeq(spoken, k + 1, Len(spoken)), limits)
  BY DEF ChatBodies
<1> DEFINE n == Len(a.turns)
           instr == Instruct(a, role)
           q == Len(instr)
           m == SubSeq(spoken, 1, k) \o instr \o SubSeq(spoken, k + 1, Len(spoken))
           X == {spoken[i] : i \in 1..n} \cup {[role |-> role, content |-> Whole(a.instructions)]}
<1>2. /\ a.turns \in Seq(SaidTurn) /\ n \in Nat /\ a.instructions \in Seq(Words)
      /\ \A i \in 1..n : a.turns[i].role \in ChatRoles \ InstructionRoles
  BY AsksTurns
<1>3. /\ Says(spoken, a.turns)
      /\ spoken = [i \in 1..n |-> [role |-> a.turns[i].role, content |-> spoken[i].content]]
  BY SaidIs
<1>4. DOMAIN spoken = 1..n /\ \A i \in 1..n : spoken[i].role \notin InstructionRoles
  BY <1>2, <1>3 DEF Says
<1>5. spoken \in Seq(X) /\ Len(spoken) = n
  <2>1. spoken = [i \in 1..n |-> spoken[i]]
    BY <1>3
  <2>2. \A i \in 1..n : spoken[i] \in X
    OBVIOUS
  <2> HIDE DEF X
  <2>3. spoken \in [1..n -> X]
    BY <2>1, <2>2, Zenon
  <2> HIDE DEF n
  <2> QED BY <1>2, <2>3
<1>6. /\ instr \in Seq(X) /\ q \in {0, 1}
      /\ q = 0 => instr = <<>> /\ a.instructions = <<>>
      /\ q = 1 => instr = <<[role |-> role, content |-> Whole(a.instructions)]>>
  <2>1. CASE a.instructions = <<>>
    BY <2>1 DEF Instruct
  <2>2. CASE a.instructions # <<>>
    <3> DEFINE x == [role |-> role, content |-> Whole(a.instructions)]
    <3>1. instr = <<x>> /\ x \in X
      BY <2>2 DEF Instruct
    <3> HIDE DEF X, x, instr
    <3>2. instr \in Seq(X) /\ q = 1
      BY <3>1
    <3> QED BY <3>1, <3>2 DEF x
  <2> QED BY <2>1, <2>2
<1>7. \A i \in 1..q : instr[i].role \in InstructionRoles
  BY <1>1, <1>6
<1> HIDE DEF X, n, instr, q
<1>8. m \in {instr \o spoken, spoken \o instr}
  <2>1. k \in {0, Len(spoken)}
    BY <1>1, <1>5 DEF n
  <2> QED BY <1>5, <1>6, <2>1, Around
<1>9. b.endpoint = "chat_completions" /\ b.messages = m
  BY <1>1 DEF ChatBody, instr
<1> HIDE DEF m
<1> DEFINE Apart(d, e) ==
             /\ DOMAIN m = 1..(n + q)
             /\ 1..(n + q) = ((d + 1)..(d + n)) \cup ((e + 1)..(e + q))
             /\ \A i \in 1..n : m[d + i] = spoken[i]
             /\ \A i \in 1..q : m[e + i] = instr[i]
<1>10. PICK d, e \in Nat : Apart(d, e)
  <2>1. CASE m = instr \o spoken
    <3>1. /\ m \in Seq(X) /\ Len(m) = Len(instr) + Len(spoken)
          /\ \A i \in 1..Len(instr) + Len(spoken) :
               m[i] = IF i <= Len(instr) THEN instr[i] ELSE spoken[i - Len(instr)]
      <4>1. /\ instr \o spoken \in Seq(X) /\ Len(instr \o spoken) = Len(instr) + Len(spoken)
            /\ \A i \in 1..Len(instr) + Len(spoken) :
                 (instr \o spoken)[i] = IF i <= Len(instr) THEN instr[i] ELSE spoken[i - Len(instr)]
        <5>1. spoken \in Seq(X) /\ instr \in Seq(X)
          BY <1>5, <1>6
        <5> QED BY <5>1, ConcatProperties, Zenon
      <4> QED BY <2>1, <4>1, Zenon
    <3>2. /\ DOMAIN m = 1..Len(m) /\ Len(instr) = q /\ Len(m) = n + q
          /\ \A i \in 1..(n + q) : m[i] = IF i <= q THEN instr[i] ELSE spoken[i - q]
      <4>1. DOMAIN m = 1..Len(m)
        BY <3>1
      <4>2. Len(spoken) = n /\ Len(instr) = q
        BY <1>5 DEF q
      <4>3. q + n = n + q
        BY <1>2, <1>6
      <4> QED BY <3>1, <4>1, <4>2, <4>3, Zenon
    <3>3. 1..(n + q) = ((q + 1)..(q + n)) \cup ((0 + 1)..(0 + q))
      BY <1>2, <1>6
    <3>4. ASSUME NEW i \in 1..n PROVE m[q + i] = spoken[i]
      <4>1. q + i \in 1..(n + q) /\ ~(q + i <= q) /\ (q + i) - q = i
        BY <1>2, <1>6
      <4> QED BY <3>2, <4>1
    <3>5. ASSUME NEW i \in 1..q PROVE m[0 + i] = instr[i]
      <4>1. 0 + i = i /\ i \in 1..(n + q) /\ i <= q
        BY <1>2, <1>6
      <4> QED BY <3>2, <4>1
    <3>6. Apart(q, 0) /\ 0 \in Nat /\ q \in Nat
      BY <1>6, <3>2, <3>3, <3>4, <3>5
    <3> HIDE DEF Apart
    <3> QED BY <3>6
  <2>2. CASE m = spoken \o instr
    <3>1. /\ m \in Seq(X) /\ Len(m) = Len(spoken) + Len(instr)
          /\ \A i \in 1..Len(spoken) + Len(instr) :
               m[i] = IF i <= Len(spoken) THEN spoken[i] ELSE instr[i - Len(spoken)]
      <4>1. /\ spoken \o instr \in Seq(X) /\ Len(spoken \o instr) = Len(spoken) + Len(instr)
            /\ \A i \in 1..Len(spoken) + Len(instr) :
                 (spoken \o instr)[i] =
                   IF i <= Len(spoken) THEN spoken[i] ELSE instr[i - Len(spoken)]
        <5>1. spoken \in Seq(X) /\ instr \in Seq(X)
          BY <1>5, <1>6
        <5> QED BY <5>1, ConcatProperties, Zenon
      <4> QED BY <2>2, <4>1, Zenon
    <3>2. /\ DOMAIN m = 1..Len(m) /\ Len(spoken) = n /\ Len(m) = n + q
          /\ \A i \in 1..(n + q) : m[i] = IF i <= n THEN spoken[i] ELSE instr[i - n]
      <4>1. DOMAIN m = 1..Len(m)
        BY <3>1
      <4>2. Len(spoken) = n /\ Len(instr) = q
        BY <1>5 DEF q
      <4>3. q + n = n + q
        BY <1>2, <1>6
      <4> QED BY <3>1, <4>1, <4>2, <4>3, Zenon
    <3>3. 1..(n + q) = ((0 + 1)..(0 + n)) \cup ((n + 1)..(n + q))
      BY <1>2, <1>6
    <3>4. ASSUME NEW i \in 1..n PROVE m[0 + i] = spoken[i]
      <4>1. 0 + i = i /\ i \in 1..(n + q) /\ i <= n
        BY <1>2, <1>6
      <4> QED BY <3>2, <4>1
    <3>5. ASSUME NEW i \in 1..q PROVE m[n + i] = instr[i]
      <4>1. n + i \in 1..(n + q) /\ ~(n + i <= n) /\ (n + i) - n = i
        BY <1>2, <1>6
      <4> QED BY <3>2, <4>1
    <3>6. Apart(0, n) /\ 0 \in Nat /\ n \in Nat
      BY <1>2, <3>2, <3>3, <3>4, <3>5
    <3> HIDE DEF Apart
    <3> QED BY <3>6
  <2> QED BY <1>8, <2>1, <2>2
<1>11. /\ \A i \in (d + 1)..(d + n) : m[i].role \notin InstructionRoles
       /\ \A i \in (e + 1)..(e + q) : m[i].role \in InstructionRoles
  <2>1. \A i \in (d + 1)..(d + n) : i - d \in 1..n /\ d + (i - d) = i
    BY <1>2
  <2>2. \A i \in (e + 1)..(e + q) : i - e \in 1..q /\ e + (i - e) = i
    BY <1>6
  <2> QED BY <1>4, <1>7, <1>10, <2>1, <2>2
<1>12. Conversing(m) = spoken
  <2>1. {i \in DOMAIN m : m[i].role \notin InstructionRoles} = (d + 1)..(d + n)
    BY <1>10, <1>11
  <2>2. Conversing(m) = Picked(m, (d + 1)..(d + n))
    BY <2>1 DEF Conversing
  <2>3. Picks(m, d, n)
    <3> HIDE DEF Apart
    <3> QED BY <1>2, <1>10, PickedIs
  <2>4. spoken = [i \in 1..n |-> spoken[i]]
    BY <1>3
  <2> QED BY <1>10, <2>2, <2>3, <2>4 DEF Picks
<1>13. Instructing(m) = instr
  <2>1. {i \in DOMAIN m : m[i].role \in InstructionRoles} = (e + 1)..(e + q)
    BY <1>10, <1>11
  <2>2. Instructing(m) = Picked(m, (e + 1)..(e + q))
    BY <2>1 DEF Instructing
  <2>3. q \in Nat
    BY <1>6
  <2>4. Picks(m, e, q)
    <3> HIDE DEF Apart
    <3> QED BY <1>10, <2>3, PickedIs
  <2>5. instr = [i \in 1..q |-> instr[i]]
    BY <1>6 DEF q
  <2> QED BY <1>10, <2>2, <2>4, <2>5 DEF Picks
<1>14. /\ Normalize(b).conversation = Turns(spoken)
       /\ Normalize(b).system = FlattenSeq([i \in DOMAIN instr |-> Flatten(instr[i].content)])
  BY <1>9, <1>12, <1>13 DEF Normalize, NormalizeChat, Build
<1>15. Turns(spoken) = a.turns
  BY <1>2, <1>3, TurnsOf
<1>16. FlattenSeq([i \in DOMAIN instr |-> Flatten(instr[i].content)]) = a.instructions
  <2>1. CASE q = 0
    <3>1. [i \in DOMAIN instr |-> Flatten(instr[i].content)] = <<>>
      BY <1>6, <2>1
    <3> QED BY <1>6, <2>1, <3>1, FlattenFew
  <2>2. CASE q = 1
    <3>1. DOMAIN instr = {1} /\ instr[1].content = Whole(a.instructions)
      BY <1>6, <2>2
    <3>2. [i \in DOMAIN instr |-> Flatten(instr[i].content)] = <<Flatten(Whole(a.instructions))>>
      BY <3>1
    <3>3. Flatten(Whole(a.instructions)) = a.instructions
      BY <1>2, FlattenWhole
    <3>4. FlattenSeq(<<a.instructions>>) = a.instructions
      BY <1>2, FlattenFew
    <3> QED BY <3>2, <3>3, <3>4
  <2> QED BY <1>6, <2>1, <2>2
<1> QED BY <1>14, <1>15, <1>16

\* An item may say the turn t, a user's also without a role.
Tells(item, t) ==
  /\ Flatten(item.content) = t.words
  /\ \/ item = [role |-> t.role, content |-> item.content]
     \/ item = [role |-> Absent, content |-> item.content] /\ t.role = "user"

LEMMA ItemsOf ==
  ASSUME NEW t \in Seq(SaidTurn), NEW input, DOMAIN input = 1..Len(t),
         \A i \in 1..Len(t) : Tells(input[i], t[i])
  PROVE  Turns(Items(input)) = t
<1>1. ASSUME NEW i \in 1..Len(t)
      PROVE  Items(input)[i].role = t[i].role /\ Items(input)[i].content = input[i].content
  <2>1. t[i] \in SaidTurn
    OBVIOUS
  <2>2. t[i].role # Absent
    BY <2>1, ExchangeAssumption DEF SaidTurn
  <2>3. Items(input)[i] =
          [input[i] EXCEPT !.role = IF input[i].role = Absent THEN "user" ELSE input[i].role]
    BY DEF Items
  <2>4. CASE input[i] = [role |-> t[i].role, content |-> input[i].content]
    <3>1. input[i].role = t[i].role
      BY <2>4
    <3> QED BY <2>2, <2>3, <2>4, <3>1
  <2>5. CASE input[i] = [role |-> Absent, content |-> input[i].content] /\ t[i].role = "user"
    <3>1. input[i].role = Absent
      BY <2>5
    <3> QED BY <2>3, <2>5, <3>1
  <2> QED BY <2>4, <2>5 DEF Tells
<1>2. DOMAIN Items(input) = 1..Len(t)
  BY DEF Items
<1>3. Says(Items(input), t)
  BY <1>1, <1>2 DEF Says, Tells
<1> QED BY <1>3, TurnsOf

(* The items of a Responses body say the turns, after the instructions if those are
   an item of it.                                                             *)
LEMMA ResponsesSays ==
  ASSUME NEW a \in Asks, NEW b \in ResponsesBodies(a)
  PROVE  Messages(Normalize(b)) = Wanted(a).messages
<1> DEFINE n == Len(a.turns)
           head == IF a.instructions = <<>> THEN <<>>
                   ELSE <<[role |-> "system", words |-> a.instructions]>>
<1>1. /\ a.turns \in Seq(SaidTurn) /\ n \in Nat /\ a.instructions \in Seq(Words)
      /\ \A i \in 1..n : a.turns[i].role \in ChatRoles \ InstructionRoles
  BY AsksTurns
<1>2. \A spoken \in {Said(a, Whole), Said(a, Split)} :
        /\ DOMAIN spoken = 1..n
        /\ \A i \in 1..n :
             /\ Flatten(spoken[i].content) = a.turns[i].words
             /\ spoken[i] = [role |-> a.turns[i].role, content |-> spoken[i].content]
  <2> SUFFICES ASSUME NEW spoken \in {Said(a, Whole), Said(a, Split)}
               PROVE  /\ DOMAIN spoken = 1..n
                      /\ \A i \in 1..n :
                           /\ Flatten(spoken[i].content) = a.turns[i].words
                           /\ spoken[i] = [role |-> a.turns[i].role, content |-> spoken[i].content]
    OBVIOUS
  <2>1. /\ Says(spoken, a.turns)
        /\ spoken = [i \in 1..n |-> [role |-> a.turns[i].role, content |-> spoken[i].content]]
    BY SaidIs
  <2>2. \A i \in 1..n : spoken[i] = [role |-> a.turns[i].role, content |-> spoken[i].content]
    BY <2>1
  <2> QED BY <2>1, <2>2 DEF Says
<1>3. Wanted(a).messages = head \o a.turns
  BY DEF Wanted
<1>4. <<>> \o a.turns = a.turns
  BY <1>1, ConcatEmptySeq
<1>5. ASSUME NEW instructions, NEW input, b = ResponsesBody(a, instructions, input)
      PROVE  /\ Normalize(b).system = instructions
             /\ Normalize(b).conversation = Turns(Items(input))
  BY <1>5 DEF ResponsesBody, Normalize, NormalizeResponses, Build
<1>6. ASSUME NEW input, b = ResponsesBody(a, a.instructions, input),
             Turns(Items(input)) = a.turns
      PROVE  Messages(Normalize(b)) = head \o a.turns
  BY <1>5, <1>6 DEF Messages
<1>7. CASE b = ResponsesBody(a, a.instructions, Said(a, Whole))
  <2>1. \A i \in 1..n : Tells(Said(a, Whole)[i], a.turns[i])
    BY <1>2 DEF Tells
  <2>2. Turns(Items(Said(a, Whole))) = a.turns
    BY <1>1, <1>2, <2>1, ItemsOf
  <2> QED BY <1>3, <1>6, <1>7, <2>2
<1>8. CASE b = ResponsesBody(a, a.instructions,
                 [i \in DOMAIN a.turns |->
                    [Said(a, Split)[i] EXCEPT !.role = IF @ = "user" THEN Absent ELSE @]])
  <2> DEFINE spoken == Said(a, Split)
             input == [i \in DOMAIN a.turns |->
                         [spoken[i] EXCEPT !.role = IF @ = "user" THEN Absent ELSE @]]
  <2>1. /\ DOMAIN spoken = 1..n
        /\ \A i \in 1..n :
             /\ Flatten(spoken[i].content) = a.turns[i].words
             /\ spoken[i] = [role |-> a.turns[i].role, content |-> spoken[i].content]
    BY <1>2
  <2> HIDE DEF spoken
  <2>2. DOMAIN input = 1..n
    BY <1>1
  <2>3. ASSUME NEW i \in 1..n PROVE Tells(input[i], a.turns[i])
    <3>1. input[i] = [spoken[i] EXCEPT
                        !.role = IF spoken[i].role = "user" THEN Absent ELSE spoken[i].role]
      <4>1. i \in DOMAIN a.turns
        BY <1>1
      <4> QED BY <4>1
    <3> HIDE DEF input
    <3>2. spoken[i].role = a.turns[i].role
      <4>1. \A r, c : [role |-> r, content |-> c].role = r
        OBVIOUS
      <4>2. spoken[i] = [role |-> a.turns[i].role, content |-> spoken[i].content]
        BY <2>1
      <4> QED BY <4>1, <4>2
    <3>3. input[i] = [role |-> IF a.turns[i].role = "user" THEN Absent ELSE a.turns[i].role,
                      content |-> spoken[i].content]
      BY <2>1, <3>1, <3>2
    <3>4. input[i].content = spoken[i].content
      BY <3>3
    <3> QED BY <2>1, <3>3, <3>4 DEF Tells
  <2>4. Turns(Items(input)) = a.turns
    <3> HIDE DEF input
    <3> QED BY <1>1, <2>2, <2>3, ItemsOf
  <2>5. b = ResponsesBody(a, a.instructions, input)
    BY <1>8 DEF spoken
  <2> QED BY <1>3, <1>6, <2>4, <2>5
<1>9. CASE b = ResponsesBody(a, <<>>, Instruct(a, "system") \o Said(a, Split))
  <2> DEFINE spoken == Said(a, Split)
             first == Instruct(a, "system")
             input == first \o spoken
             q == Len(first)
             X == {spoken[i] : i \in 1..n} \cup
                  {[role |-> "system", content |-> Whole(a.instructions)]}
             t == head \o a.turns
  <2>1. /\ DOMAIN spoken = 1..n
        /\ \A i \in 1..n :
             /\ Flatten(spoken[i].content) = a.turns[i].words
             /\ spoken[i] = [role |-> a.turns[i].role, content |-> spoken[i].content]
    BY <1>2
  <2>2. spoken = [i \in 1..n |-> spoken[i]]
    <3>1. spoken = [i \in 1..n |-> [role |-> a.turns[i].role, content |-> spoken[i].content]]
      BY SaidIs
    <3> HIDE DEF spoken
    <3> QED BY <2>1, <3>1
  <2> HIDE DEF spoken
  <2>3. spoken \in Seq(X) /\ Len(spoken) = n
    <3>1. \A i \in 1..n : spoken[i] \in X
      OBVIOUS
    <3> HIDE DEF X
    <3>2. spoken \in [1..n -> X]
      BY <2>2, <3>1, Zenon
    <3> HIDE DEF n
    <3> QED BY <1>1, <3>2
  <2>4. /\ first \in Seq(X) /\ head \in Seq(SaidTurn) /\ q \in {0, 1} /\ Len(head) = q
        /\ q = 1 => Tells(first[1], head[1])
    <3>1. CASE a.instructions = <<>>
      BY <3>1 DEF Instruct
    <3>2. CASE a.instructions # <<>>
      <4> DEFINE x == [role |-> "system", content |-> Whole(a.instructions)]
                 y == [role |-> "system", words |-> a.instructions]
      <4>1. first = <<x>> /\ x \in X /\ head = <<y>> /\ y \in SaidTurn
        BY <1>1, <3>2 DEF Instruct, SaidTurn, ChatRoles, InstructionRoles
      <4>2. Tells(x, y)
        BY <1>1, FlattenWhole DEF Tells
      <4> HIDE DEF X, x, y, first, head
      <4> QED BY <4>1, <4>2
    <3> QED BY <3>1, <3>2
  <2> HIDE DEF X, first, head, n
  <2>5. /\ input \in Seq(X) /\ Len(input) = Len(first) + Len(spoken)
        /\ \A i \in 1..Len(first) + Len(spoken) :
             input[i] = IF i <= Len(first) THEN first[i] ELSE spoken[i - Len(first)]
    <3>1. first \in Seq(X) /\ spoken \in Seq(X)
      BY <2>3, <2>4
    <3>2. /\ first \o spoken \in Seq(X) /\ Len(first \o spoken) = Len(first) + Len(spoken)
          /\ \A i \in 1..Len(first) + Len(spoken) :
               (first \o spoken)[i] = IF i <= Len(first) THEN first[i] ELSE spoken[i - Len(first)]
      BY <3>1, ConcatProperties, Zenon
    <3> QED BY <3>2, Zenon
  <2>6. /\ t \in Seq(SaidTurn) /\ Len(t) = Len(head) + Len(a.turns)
        /\ \A i \in 1..Len(head) + Len(a.turns) :
             t[i] = IF i <= Len(head) THEN head[i] ELSE a.turns[i - Len(head)]
    <3>1. head \in Seq(SaidTurn) /\ a.turns \in Seq(SaidTurn)
      BY <1>1, <2>4
    <3>2. /\ head \o a.turns \in Seq(SaidTurn)
          /\ Len(head \o a.turns) = Len(head) + Len(a.turns)
          /\ \A i \in 1..Len(head) + Len(a.turns) :
               (head \o a.turns)[i] = IF i <= Len(head) THEN head[i] ELSE a.turns[i - Len(head)]
      BY <3>1, ConcatProperties, Zenon
    <3> QED BY <3>2, Zenon
  <2> HIDE DEF input, t
  <2>7. DOMAIN input = 1..(q + n) /\ Len(t) = q + n
    BY <2>3, <2>5, <2>4, <2>6 DEF n, q
  <2>8. ASSUME NEW i \in 1..Len(t) PROVE Tells(input[i], t[i])
    <3>1. /\ i \in 1..(q + n)
          /\ input[i] = IF i <= q THEN first[i] ELSE spoken[i - q]
          /\ t[i] = IF i <= q THEN head[i] ELSE a.turns[i - q]
      BY <2>3, <2>4, <2>5, <2>6, <2>7 DEF n, q
    <3>2. CASE i <= q
      <4>1. q = 1 /\ i = 1
        BY <1>1, <2>4, <3>1, <3>2
      <4> QED BY <2>4, <3>1, <3>2, <4>1
    <3>3. CASE ~(i <= q)
      <4>1. i - q \in 1..n
        BY <1>1, <2>4, <3>1, <3>3
      <4>2. Tells(spoken[i - q], a.turns[i - q])
        BY <2>1, <4>1 DEF Tells
      <4> QED BY <3>1, <3>3, <4>2
    <3> QED BY <3>2, <3>3
  <2>9. Turns(Items(input)) = t
    BY <2>6, <2>7, <2>8, ItemsOf
  <2>10. Normalize(b).system = <<>> /\ Normalize(b).conversation = t
    <3>1. b = ResponsesBody(a, <<>>, input)
      BY <1>9 DEF input, first, spoken
    <3> QED BY <1>5, <2>9, <3>1
  <2>11. <<>> \o t = t
    BY <2>6, ConcatEmptySeq
  <2> QED BY <1>3, <2>10, <2>11 DEF Messages, t
<1> QED BY <1>3, <1>7, <1>8, <1>9 DEF ResponsesBodies

(* The provider is told what was asked, whichever body asked it.              *)
THEOREM CallsSayWhatWasAsked == Spec => []CallSaysWhatWasAsked
<1>1. ExchangeInv => CallSaysWhatWasAsked
  <2> SUFFICES ASSUME ExchangeInv, phase # "idle", adapter \in {"openai_compatible", "commandcode"}
               PROVE  /\ Sent.messages = Wanted(ask).messages
                      /\ Sent.max_tokens = Wanted(ask).max_tokens
                      /\ adapter = "openai_compatible" => Sent = Wanted(ask)
                      /\ Sent.tools # {} => "tools" \in canonical.capabilities
                      /\ Sent.response_format.kind = "json_schema"
                           => "json_schema" \in canonical.capabilities
    BY DEF CallSaysWhatWasAsked
  <2>1. PICK b \in Bodies(ask) :
          BodyError(b) = "none" /\ ~Unsupported(b) /\ canonical = Normalize(b)
    BY DEF ExchangeInv, Normal, Begun, FromBody
  <2>2. b \in ChatBodies(ask) \/ b \in ResponsesBodies(ask)
    BY <2>1, PassedBody
  <2>3. ask \in Asks
    BY DEF ExchangeInv, Asked
  <2>4. /\ canonical.format = ask.format /\ canonical.tools = ask.tools
        /\ canonical.max_output_tokens = ask.limit
        /\ ask.tools # {} => "tools" \in canonical.capabilities
        /\ ask.format.kind = "json_schema" => "json_schema" \in canonical.capabilities
    BY <2>1, <2>2, TermsKept
  <2>5. Messages(canonical) = Wanted(ask).messages
    <3>1. CASE b \in ChatBodies(ask)
      <4>1. canonical.system = ask.instructions /\ canonical.conversation = ask.turns
        BY <2>1, <2>3, <3>1, ChatSays
      <4> QED BY <4>1 DEF Messages, Wanted
    <3>2. CASE b \in ResponsesBodies(ask)
      BY <2>1, <2>3, <3>2, ResponsesSays
    <3> QED BY <2>2, <3>1, <3>2
  <2>6. ResponseFormat(canonical) = ask.format
    <3>1. ask.format \in [kind : {"text", "json_object"}, schema : {Absent}]
                           \cup [kind : {"json_schema"}, schema : Schemas]
      BY <2>3, ExchangeAssumption
    <3>2. CASE ask.format \in [kind : {"text", "json_object"}, schema : {Absent}]
      <4>1. ask.format.kind = "text" => ask.format = [kind |-> "text", schema |-> Absent]
        BY <3>2
      <4>2. ask.format.kind \in {"text", "json_object"}
        BY <3>2
      <4> QED BY <2>4, <4>1, <4>2 DEF ResponseFormat, RequiresSchema
    <3>3. CASE ask.format \in [kind : {"json_schema"}, schema : Schemas]
      <4>1. ask.format.kind = "json_schema" /\ ask.format.schema \in Schemas
        BY <3>3
      <4> QED BY <2>4, <4>1, JsonAssumption DEF ResponseFormat, RequiresSchema
    <3> QED BY <3>1, <3>2, <3>3
  <2>7. CASE adapter = "openai_compatible"
    <3>1. Sent = Wanted(ask)
      BY <2>4, <2>5, <2>6, <2>7 DEF Sent, HttpPayload, Wanted
    <3>2. Sent.tools = ask.tools /\ Sent.response_format = ask.format
      BY <3>1 DEF Wanted
    <3> QED BY <2>4, <2>7, <3>1, <3>2
  <2>8. CASE adapter = "commandcode"
    <3>1. /\ Sent.messages = Messages(canonical) /\ Sent.max_tokens = canonical.max_output_tokens
          /\ Sent.tools = {} /\ Sent.response_format.kind = "text"
      BY <2>8 DEF Sent, StdinPayload
    <3>2. Wanted(ask).max_tokens = ask.limit
      BY DEF Wanted
    <3> QED BY <2>4, <2>5, <2>8, <3>1, <3>2
  <2> QED BY <2>7, <2>8
<1> QED BY <1>1, ExchangeInvariant, PTL

-----------------------------------------------------------------------------
(* The row of a request.                                                      *)

Attended == {"head", "chosen", "recorded", "calling", "answered"}

RunningRows ==
  \A r \in Requests : pc[r] \in Attended =>
    row[r] = "READY" \/ (row[r] = "EXPIRED" /\ clock[r] = "late")

SweepIsLate == \A r \in sweep : clock[r] = "late"

NewRows == \A r \in Requests : pc[r] = "new" => row[r] = "none" /\ r \notin sweep

\* The cap was looked at before the attempt was decided on.
ChosenFew == \A r \in Requests : pc[r] = "chosen" => attempts[r] < MaxAttempts

RowsInv == /\ RowsTypeOK /\ EndedRowsHoldNothing /\ RunningRows /\ SweepIsLate /\ NewRows
           /\ ChosenFew

LEMMA InitRowsInv == RowsInit => RowsInv
  BY RowsAssumption
  DEF RowsInit, RowsInv, RowsTypeOK, EndedRowsHoldNothing, RunningRows, SweepIsLate, NewRows,
      ChosenFew, Attended, Terminal, Answers

\* A task's last write: it holds nothing, and leaves the running states.
LEMMA EndKeepsRows ==
  ASSUME NEW r \in Requests, NEW s \in Terminal, RowsInv, End(r, s), pc[r] \in {"head", "answered"}
  PROVE  RowsInv'
  BY DEF End, RowsInv, RowsTypeOK, EndedRowsHoldNothing, RunningRows, SweepIsLate, NewRows,
         ChosenFew, Attended, Terminal

LEMMA TaskKeepsRows ==
  ASSUME RowsInv, NEW r \in Requests, TaskStep(r)
  PROVE  RowsInv'
<1> USE RowsAssumption
<1>1. CASE InsertRow(r)
  BY <1>1 DEF InsertRow, RowsInv, RowsTypeOK, EndedRowsHoldNothing, RunningRows, SweepIsLate,
              NewRows, ChosenFew, Attended, Terminal
<1>2. CASE Refuse(r)
  BY <1>2 DEF Refuse, RowsInv, RowsTypeOK, EndedRowsHoldNothing, RunningRows, SweepIsLate,
              NewRows, ChosenFew, Attended, Terminal
<1>3. CASE RecordAttempt(r)
  <2>1. attempts[r] + 1 \in 0..MaxAttempts
    BY <1>3 DEF RecordAttempt, ChosenFew, RowsInv, RowsTypeOK
  <2>2. RowsTypeOK'
    BY <1>3, <2>1 DEF RecordAttempt, RowsInv, RowsTypeOK
  <2> QED
    BY <1>3, <2>2
    DEF RecordAttempt, RowsInv, RowsTypeOK, EndedRowsHoldNothing, RunningRows, SweepIsLate,
        NewRows, ChosenFew, Attended
<1>4. CASE Choose(r)
  <2>1. attempts[r] < MaxAttempts
    BY <1>4 DEF Choose, MayAttempt, RowsInv, RowsTypeOK
  <2> QED
    BY <1>4, <2>1
    DEF Choose, RowsInv, RowsTypeOK, EndedRowsHoldNothing, RunningRows, SweepIsLate, NewRows,
        ChosenFew, Attended
<1>5. CASE GiveUp(r)
  BY <1>5, EndKeepsRows DEF GiveUp, Terminal
<1>6. CASE Reserve(r)
  BY <1>6 DEF Reserve, RowsInv, RowsTypeOK, EndedRowsHoldNothing, RunningRows, SweepIsLate,
              NewRows, ChosenFew, Attended, Terminal
<1>7. CASE Deny(r)
  BY <1>7 DEF Deny, RowsInv, RowsTypeOK, EndedRowsHoldNothing, RunningRows, SweepIsLate,
              NewRows, ChosenFew, Attended, Answers
<1>8. CASE Conclude(r)
  <2>1. CASE \E s \in Terminal : End(r, s)
    BY <1>8, <2>1, EndKeepsRows DEF Conclude
  <2>2. CASE /\ pc' = [pc EXCEPT ![r] = "head"]
             /\ UNCHANGED <<row, attempts, said, held, lapsed, clock, sweep>>
    BY <1>8, <2>2
    DEF Conclude, RowsInv, RowsTypeOK, EndedRowsHoldNothing, RunningRows, SweepIsLate,
        NewRows, ChosenFew, Attended
  <2> QED
    BY <1>8, <2>1, <2>2 DEF Conclude, Terminal
<1>9. CASE Vanish(r)
  BY <1>9 DEF Vanish, RowsInv, RowsTypeOK, EndedRowsHoldNothing, RunningRows, SweepIsLate,
              NewRows, ChosenFew, Attended
<1>10. ASSUME NEW a \in Answers, CallEnds(r, a)
      PROVE  RowsInv'
  BY <1>10
  DEF CallEnds, Resolves, RowsInv, RowsTypeOK, EndedRowsHoldNothing, RunningRows,
      SweepIsLate, NewRows, ChosenFew, Attended
<1> QED
  BY <1>1, <1>2, <1>3, <1>5, <1>6, <1>7, <1>8, <1>9, <1>10, <1>4 DEF TaskStep

LEMMA NextKeepsRows == RowsInv /\ [RowsNext]_rowsVars => RowsInv'
<1> SUFFICES ASSUME RowsInv, [RowsNext]_rowsVars PROVE RowsInv'
  OBVIOUS
<1>1. ASSUME NEW r \in Requests, TaskStep(r) PROVE RowsInv'
  BY <1>1, TaskKeepsRows
<1>2. ASSUME NEW r \in Requests, Tick(r) PROVE RowsInv'
  BY <1>2
  DEF Tick, taskVars, RowsInv, RowsTypeOK, EndedRowsHoldNothing, RunningRows, SweepIsLate,
      NewRows, ChosenFew
<1>3. ASSUME NEW r \in Requests, Lapse(r) PROVE RowsInv'
  BY <1>3
  DEF Lapse, taskVars, RowsInv, RowsTypeOK, EndedRowsHoldNothing, RunningRows, SweepIsLate,
      NewRows, ChosenFew
<1>4. CASE ReconcileReservations
  BY <1>4
  DEF ReconcileReservations, Due, taskVars, RowsInv, RowsTypeOK, EndedRowsHoldNothing,
      RunningRows, SweepIsLate, NewRows, ChosenFew
<1>5. CASE ReadStale
  BY <1>5
  DEF ReadStale, Stale, taskVars, RowsInv, RowsTypeOK, EndedRowsHoldNothing, RunningRows,
      SweepIsLate, NewRows, ChosenFew
<1>6. CASE ExpireStale
  BY <1>6
  DEF ExpireStale, RowsInv, RowsTypeOK, EndedRowsHoldNothing, RunningRows, SweepIsLate,
      NewRows, ChosenFew, Terminal
<1>7. CASE DropSweep
  BY <1>7
  DEF DropSweep, taskVars, RowsInv, RowsTypeOK, EndedRowsHoldNothing, RunningRows,
      SweepIsLate, NewRows, ChosenFew
<1>8. CASE UNCHANGED rowsVars
  BY <1>8 DEF rowsVars, taskVars, RowsInv, RowsTypeOK, EndedRowsHoldNothing, RunningRows,
              SweepIsLate, NewRows, ChosenFew
<1> QED
  BY <1>1, <1>2, <1>3, <1>4, <1>5, <1>6, <1>7, <1>8 DEF RowsNext

(* RowsInv holds in every state: the task and the job agree on the deadline.     *)
THEOREM RowsInvariant == RowsSpec => []RowsInv
  BY InitRowsInv, NextKeepsRows, PTL DEF RowsSpec

(* Every variable of RequestRows keeps its type.                              *)
THEOREM RowsTypeCorrect == RowsSpec => []RowsTypeOK
<1>1. RowsInv => RowsTypeOK
  BY DEF RowsInv
<1> QED
  BY <1>1, RowsInvariant, PTL

(* A row its task has ended holds no money (enums.py:46); only one the job has
   expired may.                                                               *)
THEOREM EndedRowsAreResolved == RowsSpec => []EndedRowsHoldNothing
<1>1. RowsInv => EndedRowsHoldNothing
  BY DEF RowsInv
<1> QED
  BY <1>1, RowsInvariant, PTL

\* What an ended row leaves to a loop that had begun n attempts.
Ebbing(r, n) ==
  /\ row[r] \in Terminal
  /\ attempts[r] <= n + 1
  /\ pc[r] = "chosen" => attempts[r] <= n

LEMMA EbbingStays ==
  ASSUME NEW r \in Unstreamed, NEW n \in 0..MaxAttempts, RowsInv, [RowsNext]_rowsVars, Ebbing(r, n)
  PROVE  Ebbing(r, n)'
<1> USE RowsAssumption
<1>1. /\ r \in Requests /\ r \notin Streamed
      /\ attempts[r] \in Nat /\ n \in Nat
      /\ row[r] # "READY" /\ row[r] # "none"
  BY DEF Unstreamed, RowsInv, RowsTypeOK, Ebbing, Terminal
<1>2. pc[r] # "new" /\ ~(pc[r] = "head" /\ MayAttempt(r))
  BY <1>1 DEF RowsInv, NewRows, RunningRows, Attended, MayAttempt, TooLate
<1>3. ASSUME NEW q \in Requests, TaskStep(q), q # r PROVE Ebbing(r, n)'
  BY <1>1, <1>3
  DEF TaskStep, InsertRow, Refuse, Choose, RecordAttempt, GiveUp, End, Reserve, Deny, CallEnds,
      Conclude, Vanish, Ebbing, RowsInv, RowsTypeOK
<1>4. CASE InsertRow(r) \/ Refuse(r) \/ Choose(r)
  BY <1>2, <1>4 DEF InsertRow, Refuse, Choose
<1>5. CASE RecordAttempt(r)
  <2>1. attempts'[r] = attempts[r] + 1 /\ pc'[r] = "recorded" /\ row' = row
    BY <1>1, <1>5 DEF RecordAttempt, RowsInv, RowsTypeOK
  <2>2. attempts[r] <= n
    BY <1>5 DEF RecordAttempt, Ebbing
  <2> QED BY <1>1, <2>1, <2>2 DEF Ebbing
<1>6. ASSUME NEW s \in Terminal, End(r, s) PROVE Ebbing(r, n)'
  BY <1>1, <1>6 DEF End, Ebbing, RowsInv, RowsTypeOK
<1>7. CASE GiveUp(r)
  BY <1>6, <1>7 DEF GiveUp, Terminal
<1>8. CASE Reserve(r) \/ Deny(r) \/ Vanish(r) \/ \E a \in Answers : CallEnds(r, a)
  <2>1. row' = row /\ attempts' = attempts /\ pc'[r] # "chosen"
    BY <1>1, <1>8 DEF Reserve, Deny, Vanish, CallEnds, RowsInv, RowsTypeOK
  <2> QED BY <2>1 DEF Ebbing
<1>9. CASE Conclude(r)
  <2>1. CASE \E s \in Terminal : End(r, s)
    BY <1>6, <2>1
  <2>2. CASE /\ pc' = [pc EXCEPT ![r] = "head"]
             /\ UNCHANGED <<row, attempts, said, held, lapsed, clock, sweep>>
    BY <1>1, <2>2 DEF Ebbing, RowsInv, RowsTypeOK
  <2> QED
    BY <1>9, <2>1, <2>2 DEF Conclude, Terminal
<1>10. CASE ExpireStale
  BY <1>1, <1>10 DEF ExpireStale, Ebbing, Terminal
<1>11. CASE \/ \E q \in Requests : Tick(q) \/ Lapse(q)
            \/ ReconcileReservations \/ ReadStale \/ DropSweep \/ UNCHANGED rowsVars
  BY <1>11 DEF Tick, Lapse, ReconcileReservations, ReadStale, DropSweep, Ebbing, taskVars, rowsVars
<1>12. ASSUME TaskStep(r) PROVE Ebbing(r, n)'
  BY <1>4, <1>5, <1>7, <1>8, <1>9, <1>12 DEF TaskStep
<1> QED
  BY <1>3, <1>10, <1>11, <1>12 DEF RowsNext

(* Once its row is terminal the loop of a whole response begins at most the attempt
   it had decided on before.                                                  *)
THEOREM EndedLoopsStop == RowsSpec => LoopStopsAfterTheEnd
<1>1. ASSUME NEW r \in Unstreamed, NEW n \in 0..MaxAttempts
      PROVE  RowsSpec => [](row[r] \in Terminal /\ attempts[r] = n => [](attempts[r] <= n + 1))
  <2>1. RowsInv /\ [RowsNext]_rowsVars /\ Ebbing(r, n) => Ebbing(r, n)'
    BY EbbingStays
  <2>2. row[r] \in Terminal /\ attempts[r] = n => Ebbing(r, n)
    BY RowsAssumption DEF Ebbing
  <2>3. Ebbing(r, n) => attempts[r] <= n + 1
    BY DEF Ebbing
  <2> QED
    BY <2>1, <2>2, <2>3, RowsInvariant, PTL DEF RowsSpec
<1> QED
  BY <1>1 DEF LoopStopsAfterTheEnd

\* What an end before the deadline amounts to, and what keeps it.
Settled(r, s) == row[r] = s /\ pc[r] \in {"done", "gone"} /\ r \notin sweep

LEMMA SettledStays ==
  ASSUME NEW r \in Requests, NEW s \in Terminal, RowsInv, [RowsNext]_rowsVars, Settled(r, s)
  PROVE  Settled(r, s)'
<1>1. s # "READY" /\ s # "none"
  BY DEF Terminal
<1>2. ASSUME NEW q \in Requests, TaskStep(q) PROVE q # r /\ UNCHANGED sweep
  BY <1>1, <1>2
  DEF Settled, TaskStep, InsertRow, Refuse, Choose, RecordAttempt, GiveUp, End, Reserve, Deny, CallEnds,
      Conclude, Vanish, RowsInv, RowsTypeOK, RunningRows
<1>3. ASSUME NEW q \in Requests, TaskStep(q) PROVE row'[r] = row[r] /\ pc'[r] = pc[r]
  BY <1>2, <1>3
  DEF TaskStep, InsertRow, Refuse, Choose, RecordAttempt, GiveUp, End, Reserve, Deny, CallEnds,
      Conclude, Vanish, RowsInv, RowsTypeOK
<1>4. CASE ReadStale
  BY <1>1, <1>4 DEF ReadStale, Stale, Settled, taskVars
<1>5. CASE ExpireStale
  BY <1>5 DEF ExpireStale, Settled
<1>6. CASE \/ \E q \in Requests : Tick(q) \/ Lapse(q)
           \/ ReconcileReservations \/ DropSweep \/ UNCHANGED rowsVars
  BY <1>6 DEF Tick, Lapse, ReconcileReservations, DropSweep, Settled, taskVars, rowsVars
<1> QED
  BY <1>2, <1>3, <1>4, <1>5, <1>6 DEF RowsNext, Settled

LEMMA PunctualIsSettled ==
  ASSUME NEW r \in Requests, NEW s \in Terminal, RowsInv, row[r] = s, clock[r] # "late"
  PROVE  Settled(r, s)
  BY DEF Settled, RowsInv, RowsTypeOK, RunningRows, SweepIsLate, NewRows, Attended, Terminal

(* A request that ends before its deadline has ended for good.                *)
THEOREM PunctualEndsAreFinal == RowsSpec => PunctualIsFinal
<1>1. ASSUME NEW r \in Requests, NEW s \in Terminal
      PROVE  RowsSpec => [](row[r] = s /\ clock[r] # "late" => [](row[r] = s))
  <2>1. RowsInv /\ [RowsNext]_rowsVars /\ Settled(r, s) => Settled(r, s)'
    BY SettledStays
  <2>2. RowsInv => (row[r] = s /\ clock[r] # "late" => Settled(r, s))
    BY PunctualIsSettled
  <2>3. Settled(r, s) => row[r] = s
    BY DEF Settled
  <2> QED
    BY <2>1, <2>2, <2>3, RowsInvariant, PTL DEF RowsSpec
<1> QED
  BY <1>1 DEF PunctualIsFinal
=============================================================================
