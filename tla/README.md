# A formal model of the token-balancing gateway

The gateway takes a generation request, chooses models for it under cost,
privacy and quality rules, reserves money before every provider call, and
retries, repairs or escalates until an answer passes validation.  This directory
holds TLA+ modules for the parts of it where order, failure and concurrency
decide whether it is right, TLC configurations that check them on small
instances, and TLAPS proofs of what matters most for every size.

Source paths below are relative to `src/src/gateway/`.

## 1. The system

| Part | State it keeps | Operations | What makes it correct |
| --- | --- | --- | --- |
| Budget ledger (`services/budget.py`) | `budgets.reserved`, `budgets.spent`; one `budget_reservations` row per hold | `reserve`, `settle`, `release`, `settle_partial` | counters equal the rows; no limit or `max_cost` overrun; each hold resolved once; no lost update, no deadlock, no lock across a provider call |
| Reconciler (`services/reconciler.py`) | none of its own | `reconcile_reservations`, `purge_expired_idempotency`, `expire_stale_requests`, run by an operator | abandoned holds are resolved, ambiguous ones charged; it never undoes what a live task did |
| Orchestrator loop (`services/orchestrator.py`, `run`) | locals of one task; `attempts` and `requests` rows | attempt, retry, repair, escalate, fall back, end | attempts and repairs bounded and justified; nothing after visible output; always ends |
| Retry policy, circuit breaker (`services/resilience.py`) | per-process failure counts and opening times | `may_retry`, `is_open`, `record_success`, `record_failure` | no call into an open circuit; a failed probe re-opens it |
| Streaming (`run_stream`, `_passthrough`; `api/streaming_endpoints.py`) | nested generators and the rows they write | yield, unwind on disconnect, resolve, tell the ending | well-formed stream that agrees with the record; shown output is charged; abandoned streams are resolved |
| Idempotency (`services/idempotency.py`, `_run` of `api/generation.py`) | one `idempotency_records` row per client and key | `claim`, `complete`, `fail`, expiry, purge | one run at a time, no repeated success, no answer from another input, no key blocked for ever |
| Request rows (`api/generation.py`, `services/reconciler.py`) | `requests.state` | create, terminal state, `expire_stale_requests` | an end is final; an ended row holds no money; every row ends |
| Control precedence (`services/controls.py`) | none | `resolve_controls` | no layer loosens a stricter one, none is ignored |
| Planning (`services/planning.py`, `classifier.py`, `registry.py`, `policy.py`, `router.py`) | a frozen plan | `classify`, `snapshot`, `evaluate`, `rank`, `plan` | the candidates are the models every party accepts; none stands behind one it beats; the plan honours the caller's restrictions |
| Stream decision (`services/streaming.py`) | none | `decide` | what must be validated whole is not passed through |
| Normalizer (`services/normalizer.py`, `api/schemas.py`) | none | `normalize_chat_request`, `normalize_responses_request` | either endpoint and every spelling mean the same call; the capabilities asked for are the ones needed |
| Provider adapters (`providers/`) | an HTTP client or a process group per call | `generate`, `stream` | every ending is translated; nothing is left running; no wait without end |
| Validators (`validators/`) | none | `validate`, `run_plan`, `aggregate` | what is accepted fits the schema; the order of a plan decides nothing |
| HTTP API (`api/`) | none | dependencies, `_run`, `error_for` | every request is answered; an error says whether work was done |
| Persistence, telemetry | tables; none | | see section 7 |

How they interact.  An endpoint writes the request row and claims the key in one
transaction, freezes a plan, commits, and hands the request to the orchestrator.
The orchestrator opens a session of its own for each transaction of an attempt:
write the attempt row; reserve; (call the provider with nothing open); settle or
release; write the outcome.  All requests of a process share one circuit breaker
and one event loop; all processes share the database.  The reconciler works on
the same rows from outside.  A streamed request runs the same transactions inside
generators that the server may close at any yield.

What is hard, and a test hardly reaches: two tasks between check and update; the
reconciler, a crash or a cancellation between any two of an attempt's five
transactions; the breaker changing during an await; row locks taken in different
orders; a key claimed, failed, expired or purged while another run under it is
still going; a client that leaves while the provider is failing; a job that expires a
request about to be answered; a tool that exits before what it started.  `PROJECT.json`
lists each under "hazards" at its line.

## 2. The modules

| Module | Models | Run by |
| --- | --- | --- |
| `Sums` | sums over finite sets, as a fold | all money |
| `HoldBook` | abstract: holds placed all or none, closed once, for at most what they held | refined by the next two |
| `BudgetLedger` | ledger, attempt life, reconciler; one transaction a step | `MCBudgetLedger` |
| `LedgerLocks` | the same transactions as lock requests and commits | `MCLedgerLocks` |
| `RequestLoop` | the loop of `run`, `may_retry`, the breaker | `MCRequestLoop` |
| `IdempotentRequests` | the life of a key under any number of requests | `MCIdempotentRequests` |
| `StreamedRun` | one streamed response with its generators, rows and client | `MCStreamedRun` |
| `Controls` | precedence of controls, as operators on layers | used by the next |
| `RoutePlanning` | from a request to a plan and the way it is served | `MCRoutePlanning` |
| `RequestRows` | `requests.state` under tasks, streams and the operator's two jobs | `MCRequestRows` |
| `Normalizer` | from a body to the canonical request to an adapter's payload | used by the next |
| `OutputValidation` | the validators, their plans and the aggregate of verdicts | used by `Exchange` |
| `ProviderCall` | one `generate` of any adapter, with its client or processes | composed by the next |
| `Exchange` | one whole request from bytes to answer, over the three above | `MCExchange` |
| `SumsProofs`, `BudgetLedgerProofs`, `LedgerLocksProofs`, `RequestLoopProofs`, `IdempotentRequestsProofs`, `StreamedRunProofs`, `RoutePlanningProofs`, `ExchangeProofs` | proofs (section 5) | TLAPS |

`HoldBook` has no counters at all: it decides on the rows.  `BudgetLedger` decides
on `reserved` and `spent`, and implementing `HoldBook` says that those counters
can be trusted.  `LedgerLocks` decides on values read earlier under row locks, and
implementing `HoldBook` says that the locks make the transactions atomic, which
is what `BudgetLedger` takes for granted.  So the three stand on each other.

### BudgetLedger

`pc[r]` is where a request's task is between two commits; `estimate`, `outcome`
are columns of `attempts`; `hold`, `charge` of `budget_reservations`; `reserved`,
`spent` of `budgets`.  Actions in the order of `_attempt`:

| Action | Code |
| --- | --- |
| `RecordAttempt` | `_record_attempt`, orchestrator.py 154-179 |
| `Reserve`, `Deny` | `reserve`, budget.py 100-167 |
| `FinishDenied` | orchestrator.py 452-461 |
| `CallReturns` | the provider call and its except clauses, 463-497; `Bills` is what each ending is charged |
| `Resolve` | the finally block, 498-504, and `_resolve`, budget.py 170-233 |
| `Finish` | `_finish_attempt` and the running total |
| `EndLoop`, `Crash` | the loop ends; the process dies after any commit |
| `Lapse`, `Reconcile` | `expires_at` passes; `reconcile_reservations`, reconciler.py 67-135 |

The outcome the reconciler writes is CANCELLED with error code "abandoned"; it is
a value of its own here, because the properties tell the two apart.  A request
whose task is cancelled in the call (INTERRUPTED) skips both except clauses, gives
its hold back in the finally block and writes no outcome, as in the code.  An
interrupted stream does reach its outcome (CANCELLED).

The cost of a successful call is its estimate: `_actual_cost` returns it on every
path (orchestrator.py 210-220).  If usage were ever priced, `Bills` is the place.

### LedgerLocks

A transaction is `Begin`, then one `Acquire` per row lock in the order of
`Before`, then a commit, deny or crash that frees the locks.  `seen` holds what
the session read under each lock; commits write totals computed from it.
Budgets are ranked twice: by scope, which is the order of `reserve`, and by id, which
is that of everybody else; nothing in the code makes the two agree.

A reconciler pass reads without a lock beside live calls, as the code lets it, and
locks rows only as its UPDATEs are flushed.  Two history variables say what that
costs: `stale`, the budgets that a task has written since the open pass read them,
and `drifted`, those that a pass has written over then.  The properties hold for
every budget that has not drifted.  `LedgerLocksBusy.cfg` shows a budget drift, the
run `locks_reversed` the two orders meet in a deadlock.

### RequestLoop

A step is everything between two awaits; `log[r]` is the list of attempt rows.
`circuit` is "cooled" when the cooldown has passed but nobody has reported a
result.  Deadlines are small integers: `Elapse` lets an await take any part of
what is left.  The money is BudgetLedger's: here a reservation succeeds or not.

### IdempotentRequests

`record[k]` is the committed row of a key, `writer[k]` the request with an insert of it
not yet committed: on PostgreSQL another insert waits for it, on SQLite every other
transaction does.  `Settle` writes whatever state the row with the claim's id is in by
then, as `complete` and `fail` do, and whoever's it is.  `kept[r]` is false once the
rollback after a lost race has taken r's request row with it.

`sqlite` says which database it is.  Ids are the databases' own (`NewId`): a sequence
on PostgreSQL, one more than the largest in the table on SQLite, where the id of a row
deleted by a claim or a purge comes back.  Since an id does not tell a record from a later one, `under[r]` and
`wrote[r]` do: they name the request that inserted the record r was let in by, and
those that inserted the rows r's outcome went to.  `Failed(w)` is a failed run
recorded in w's record, `Strayed(r)` an outcome of r in a record that is not its own.

### StreamedRun

`pc` is where the innermost generator stands.  `Disconnect` only says the client
is gone; `Unwind` is the moment the generators notice, by GeneratorExit at a
yield or CancelledError at an await.  `frames` is what the client received.
`source` is the adapter's generator with its connection: cancelled at its own await
it closes it, but `async for` does not close a generator suspended at a yield, so
one left there is only dropped, and the loop's finalizer (`CloseDropped`) closes it
at some time after, before or after the orchestrator has written the end.

### Controls and RoutePlanning

A layer is a record of what one party says; `Unset` is `None`.  `RoutePlanning`
runs the pipeline of the endpoints one frozen result at a time: `Prepare`
(`controls`), `Classify` (`features`), `TakeSnapshot`, `BuildPlan` (`plan`), and
one action for each way a planned request is served or refused.  The registry and
the active policies are whatever they are when their step comes.  `Scores` keeps
the arithmetic in whole numbers: the code's sum of weighted, 0..1-scaled measures
times the product of the spans, which orders the models the same way.

`CandidatesAreAdmitted` is stated without `ResolveControls`: a model is acceptable
if every layer accepts it *on its own* and the gateway's defaults, class, policy
and payload do too.  That the resolved controls admit exactly those models is what
the precedence chain is for.  What becomes of a named model that is not acceptable
when fallback is off is left to `FallbackIsAskedFor`.  The risk named by a caller is
what the code takes it to be: a class the caller declares decides the risk, though
classifier.py (14-16) would let callers only raise it.  The model also shows what the
code makes of two defaults: `privacy` confidential and `quality` standard take part
as one more layer, so a caller who asks for `public` or `economy` gets neither, and
models of tier `public_only` or quality `economy` are never candidates.

### RequestRows

`row[r]` is `requests.state`, `clock[r]` says whether the deadline is far, within
the validation margin or past.  A task's steps are coarse here: `Choose`, which looks
at the cap and the deadline, `RecordAttempt`, whose transaction comes later and looks
at neither, `Reserve` or `Deny`, `CallEnds`, `Conclude`; `Conclude` writes the end of
the row without reading it, as `_set_state` does.  The job is two actions, because its two
sessions are: `ReadStale` takes the ids, `ExpireStale` overwrites the rows.
`Vanish` is a crash or a cancellation that reaches no handler; an exception of a
validator (`PlanRaises` in `OutputValidation`) leaves the row in the same way.
(`RowsInit`, `RowsNext` and `rowsVars` are so named because one module proves about
this one and about `Exchange`.)

### Exchange, ProviderCall, OutputValidation, Normalizer

`stage` follows a request through the dependencies of an endpoint in the order it
declares them, then through `_run`.  `ask` is what the client wants; `body` is one
of the ways to say it.  Every step of `Exchange` is a step of `ProviderCall` or
leaves its variables alone, so what is proved of `ProviderCall` holds of it.  In
`ProviderCall` the tool is a `leader` and one `child`, which stands for whatever
the tool starts: it inherits the pipes, may outlive the leader and may ignore
SIGTERM.  (A descendant that closes its inherited pipes is not looked for by
anybody and is left out.)  An HTTP call is "waiting" for a read, each of which has the
whole timeout before it, or "receiving" once some bytes have come (`Receives`, the
provider's step) and the next read has not begun (`ReadOn`).

A text is what the validators can tell of it: the JSON in it, whether it reads as
SQL, cites or compiles.  `Codes` is `_check_schema`, `Fits` and `NamesItsTypes` are
JSON Schema's own reading of the same keywords; `AcceptedFits` compares the two.
All three are functions on the values and schemas of the constants, defined from
their parts (`Within`, `Subschemas`), which are lower (`Height`).
A schema or subschema that names no type, several types or one that is unknown is
outside the comparison: `_check_schema` skips the first and the last, and raises
TypeError on a list of types, which the handler answers with a 500.  So is one whose
enum lists values of another type than its own, or values with a boolean in them, or
a number that Python's `in` takes for one: `PyEqual` is the code's equality, which takes
1 and 1.0 for True at any depth, and `Equal` JSON Schema's, which does not.
`NamesItsTypes` says what is left.

## 3. The runs

| Run | Question | Bound | States |
| --- | --- | --- | --- |
| `ledger` | Is the ledger right under every interleaving, and is every hold resolved in the end? | 2 requests, 2 attempts, 2 budgets (one shared), limits 3 and 2, a ceiling of 2, batches of 1 | 354,779 |
| `locks` | Do the row locks make transactions atomic, and who can deadlock with whom? | 3 calls, 3 budgets whose ids do not follow their scopes, passes that meet live calls | 335,951 |
| `loop` | Does the loop keep its rules, and end? | 2 requests, 3 attempts, 1 repair, a route that revisits a provider and passes one without adapter, threshold 2, 4 kinds of failure, 3 units of time | 687 thousand |
| `idempotency` | What do concurrent requests with one key get, and whose record gets their outcomes? | both databases, 4 requests, one with another body | 469,887 |
| `stream` | What does a client see and pay for, whenever it leaves, and what stays open? | both modes, both endpoints, 3 pieces | 1,087 |
| `planning` | Does a plan hold what every party asked for? | 4 models of 2 providers, 4 registries, 3 sets of policies, 90 combinations of layers, 32 payloads | 78,840 |
| `rows` | Who ends a request, is it final, and does the loop stop? | a whole response of 2 attempts and a stream, both jobs | 123,151 |
| `exchange` | Is what is accepted, sent and answered what was asked, whatever the provider does? | 11 asks in every spelling, 26 outputs, 5 statuses, 7 classes, 3 modes, 4 adapters | 203,932 |

Why these bounds are enough to see the interesting cases.  The limits leave room
for some and never all of the attempts, so a reservation may be refused by the
ceiling, the shared or the private budget.  Two attempts are needed for a ceiling
that spans attempts; a batch of one makes a reconciler pass stop halfway through
one attempt's holds.  Three calls are the least for a wait cycle of more than two
sessions.  A threshold of two lets one request open a circuit the other is about
to use.  Three budgets are the least for which scopes and ids can agree on two and
disagree on a third.  Four requests on a key allow an insert race, a failure, two
retries and a stranger whose record gets the id of theirs.  A stream has no counter:
three pieces show first, middle and last.
The layers of `planning` agree and disagree on what they ask, allow lists meet and
do not meet, payloads need more or less of a model, and up to three candidates are
ranked, of which one beats another in every measure.  The requests of `rows` share
nothing but the job, which reads and writes both in one pass: one that may try again and one
that may not are enough.  Each schema of `exchange` comes with outputs that fit it,
that miss it at the top or one level down, by type, by a missing name or by a
value of the enum, which may itself be a list, and with outputs that are no JSON at all.

Twelve sentences of the code's own comments, docs and tests do not hold.  Each has a
configuration that TLC must refute, with one property that says what the sentence
says.  Four of them are runs of `PROJECT.json`, and findings there:

| Run | Sentence | What happens |
| --- | --- | --- |
| `ledger_two_budgets` | an orphan whose attempt started is settled, not released (reconciler.py 14-15) | an attempt held on two budgets is charged on the first; charging it writes the outcome that makes the second look finished, and that hold is released |
| `stream_fault` | what was emitted is billed, so a partial stream settles (orchestrator.py 737-738) | only ProviderFailure and cancellation set the charge; a broken connection does neither, and is recorded as SUCCESS |
| `locks_reversed` | settlements cannot deadlock against each other or against reserve (budget.py 187-189) | reserve orders by scope, settlement by id; a global budget created before a client's makes each wait for the other |
| `planning_fallback` | fallback off an explicit ID requires `allow_fallback=true` (tests/unit/test_determinism.py 215) | a named model that fails a gate is replaced by the best of the others |

The other eight are configurations to be run by hand, as in
`tlc -config RequestRowsFinal.cfg MCRequestRows`:

| Configuration | Sentence | What happens |
| --- | --- | --- |
| `RoutePlanningAllowLists.cfg` | allow lists intersect, so no layer can widen access (controls.py 128-129) | two lists with no provider in common leave the empty tuple, which restricts nothing |
| `RequestRowsFinal.cfg` | a terminal state admits no further transitions (enums.py 63-65) | the job writes EXPIRED to rows it read as stale without looking again; a late task writes over EXPIRED |
| `RequestRowsLate.cfg` | no attempt begins when the deadline would be violated (docs/ACCEPTANCE.md 42) | the deadline is looked at with a margin of 500 ms, and the attempt inserted in a later transaction, which may wait 5 s for the database |
| `LedgerLocksBusy.cfg` | without the locks real money vanishes from the ledger (budget.py 180-184) | the reconciler takes none: it writes both counters from unlocked reads, over what a task has committed since |
| `IdempotentRequestsReuse.cfg` | saying the original completed is honest (generation.py 282-283) | on SQLite a retry that outlives its record completes the one that got its id; whoever asks that one next is told so |
| `ExchangeEnum.cfg` | schema_check implements `enum` of JSON Schema (deterministic.py 94-95) | Python's `in` takes 1 for true, inside lists too |
| `ExchangeDrip.cfg` | a request does not spend its entire deadline generating (orchestrator.py 75-76) | httpx's timeout is of one read, and nothing bounds the call: a provider that sends a little at a time keeps it |
| `ExchangeGroup.cfg` | the whole process group is signalled (commandcode_cli.py 15-17) | a tool that has exited, or exits in the grace period, leaves what it started running |

The passing runs state the strongest form that does hold beside them:
`AbandonedIsCharged` (on one budget), `VisibleIsChargedUnlessFault`,
`CandidatesAreAdmitted` (lists that meet, fallback that is allowed),
`PunctualIsFinal` (an end before the deadline), `LoopStopsAfterTheEnd` (one attempt
more), `NoWaitCycle` (which circles there are), `Conservation` of `LedgerLocks` (every
budget not written over), `NoBorrowedAnswer` and `StraysAreRetries` (whose outcome can
go astray), `AcceptedFits` (enums without booleans' doubles), `EveryExchangeEnds` (a
provider that stops), `NothingLeftBehind` (what a timeout does end).  Two more
properties say how far a sentence goes: `OverlapOnlyAfterFailure` and
`BilledTwiceOnlyAfterFailure` allow retries of a failed key to run side by side, which
idempotency.py 139 permits.  And a circuit opened by AUTH_ERROR has counted one
failure, so an ordinary failure after the cooldown leaves it passable (resilience.py
177-191); after it any number of requests may probe at once, where the docstring
(130-132) has one.

The type invariant of the ledger is on its run, because a clause of it is more than a
type (the counters are never negative); the others are proved (section 5) rather than
run, except that of `Exchange`, which documents its module.

## 4. Fairness

- `BudgetLedger`: time passes (`Lapse`) and the operator keeps running the
  reconciler (`docs/RUNBOOK.md`, "Reservations appear stuck").  Nothing is
  assumed of requests or providers: the liveness is that of the safety net.
- `RequestLoop`: tasks that can run are run, a call ends and a sleep ends.  That a call
  ends is what `Exchange` shows of every call whose provider does not send on for ever;
  of one that does, `ExchangeDrip.cfg` shows that nothing ends it, and then no loop
  goes on.  Circuits need not cool, tasks need not be cancelled.
- `IdempotentRequests`: runs end (which is what `RequestLoop` shows, if calls end), a
  day passes, the operator purges.  No client is assumed to retry, none to come back.
  One assumption is of safety: the run that inserted a record takes less than the
  record's day (`Lapse`); a retry under it may outlive it.
- `RequestRows`: time passes, and the operator runs both jobs.  Strong fairness of
  `ExpireStale` says that a job that fails between its transactions now and then
  gets through in the end.  Nothing is assumed of tasks.
- `Exchange`: the event loop runs the handler, and every wait of an adapter has a
  timeout: the tool's for the whole call, httpx's for one read, after which the next
  starts anew.  Providers need not answer, processes need not exit or heed SIGTERM.
  So a request ends unless its provider goes on sending, and the property says just
  that.
- `StreamedRun`: the event loop runs what can run, the provider's stream ends (a
  silence meets the timeout of a read; that it does not send on for ever is assumed),
  and generators nobody holds are closed by the loop's finalizer hook.  The
  client need do nothing.

## 5. Proofs

Every theorem holds for all values of the constants that satisfy the named
assumption of its module; TLC evaluates that assumption in each run.  Most
properties are not inductive, so each module first proves one inductive invariant
and cites it for everything else.

### The ledger as transactions

`BudgetLedgerProofs` proves, for any number of requests, attempts and budgets:

| Theorem | Says |
| --- | --- |
| `TypeCorrect` | `Spec => []TypeOK`; the counters are never negative |
| `CountersConserved` | `Spec => []Conservation` |
| `LimitRespected` | `Spec => []WithinHardLimit` |
| `ResolvedOnlyOnce` | `Spec => ResolvedOnce` |
| `LedgerRefinesBook` | `Spec => Book!Spec`: the ledger implements `HoldBook` |

The assumptions are `LedgerAssumption` of the module: finite sets of requests and
budgets, natural limits, estimates and ceilings.

The argument.  None of the properties is inductive alone.  `Conservation` needs to
know that `Resolve` subtracts from `reserved` no more than is in it, and that the
clamp at zero therefore never acts; that follows from `Conservation` itself once
the hold is known to be a summand.  `WithinHardLimit` needs that what is charged
is at most what was held: `settled[r]` is bounded by the estimate of r's current
attempt (`BillInv`), and an unresolved row is charged nothing (`ChargeInv`), so
that `spent` grows by exactly what a resolution charges.  And
`Reserve` needs that the attempt it places holds for has none yet (`Fresh`: rows
after `seq[r]` are unused, and an attempt still "recorded" has no hold).  The
inductive invariant `IInv` is the conjunction of these with the type invariant.
Its proof has one step per action.  `SumsProofs` supplies the facts on sums: a
sum changes by what its members change by, a part of a sum of naturals is at most
the whole, and a sum over a difference is the difference.  The refinement then
maps `Reserve` to `Place` and `Resolve` and `Reconcile` to `Close`, everything else
to a stutter; the limit guard of `Place` is the code's headroom test rewritten
with `Conservation`.

The second and the third part of the module stand on that invariant:

| Theorem | Says |
| --- | --- |
| `OutcomesFollowMoney` | `Spec => []FinishedHoldsNothing` |
| `AbandonedArePaid` | `Spec => []AbandonedIsCharged` |
| `CeilingRespected` | `Spec => []WithinCeiling` |

The first two need `OInv`: an attempt not yet reserved has no outcome, and one that
is resolved holds nothing while its outcome is not yet written.  `WithinCeiling`
needs `CInv`, which explains why `reserve` may compare the ceiling with a local
variable: that total has at least what the earlier attempts were charged
(`CostInv`), an earlier attempt holds nothing any more, and a call is charged its
estimate or nothing (`TaskInv`).  The sum of the rows changes at one step only,
`RecordAttempt`, when the latest attempt becomes an earlier one; `CapInv` carries
the bound across it.  A hold the reconciler expired during its call is the one
case in which the total can be below the rows, and `Counted` says which of those
the ceiling still covers.

### The ledger lock by lock

`LedgerLocksProofs` proves, for any tasks, budgets, scopes, ids, limits and estimates,
and beside passes that come when they like:

| Theorem | Says |
| --- | --- |
| `RowLocks` | `Spec => []LockInv`, the invariant of the locks |
| `CallsHoldNoLock` | `Spec => []NoLockAcrossCall` |
| `LedgerOnLocks` | `Spec => []LedgerInv`, the invariant of the counters |
| `NoLostUpdate` | `Spec => []Conservation` |
| `LimitsOnPostgres` | `Spec => [](TypeOK /\ WithinLimit)` |
| `NoDeadlock` | `Spec => []NoWaitCycle` |
| `LocksRefineBook` | `Spec => ImplementsBook`: the steps implement `HoldBook` until a pass first writes over what it has not seen |

`LockInv` says what an open transaction has locked and still wants (`LocksToTake`)
and that a task which has locked a budget has read what is in it
(`ReadsAreFresh`).  So a task commits a total computed from the present one, and
`Conservation` follows as in `BudgetLedger`.  A pass writes from values it read before
it locked; `PassReads` says that they are still the present ones, and its rows still
held, for every budget that no task has written since (`stale`).  A commit of the pass
therefore keeps those budgets balanced and adds the others it writes to `drifted`.

`NoDeadlock` gives each lock its place in the order of whoever takes it.  In a circle of
reservations alone, of resolutions alone, or of sessions whose two orders agree on the
budgets they touch, a session holds only locks before the ones it wants; so each waits
for a lock placed above every one it holds, and the highest lock waited for has an owner
that waits for a higher one.  What is left are the circles the property names.
`Highest` and `LeastNat` of `SumsProofs` give that lock without induction over data: they
choose a minimum in a well-founded order of the library.

### The loop

`RequestLoopProofs` proves, for any requests sharing any breakers, any routes,
plan limits, thresholds and failures:

| Theorem | Says |
| --- | --- |
| `LoopSafety` | `Spec => []LoopInv` |
| `LoopIsTyped` | `Spec => []TypeOK` |
| `RepeatsAreJustified` | `Spec => []RepeatedForAReason` |
| `EndIsTheLastAttempt` | `Spec => []EndsAsItsLastAttempt` |
| `OpenCircuitsAreSpared` | `Spec => NoCallIntoOpenCircuit` |

The two invariants speak of attempt rows only; whether the next call may repeat a
model depends on where the task is.  `Sound` adds which row the task works on, that
it failed and may be repeated if the task waits to repeat it, that its provider
has an adapter, and that the task's counter covers the repairs made on the current
model.  A repair stays on its candidate although the loop looks the candidate up
again: a call that returned output has closed its provider's circuit, so the first
usable candidate from there on is the same one.

### Idempotency keys

`IdempotentRequestsProofs` proves, for any requests, keys and bodies, on either database:

| Theorem | Says |
| --- | --- |
| `KeysAreTyped` | `Spec => []TypeOK` |
| `OneInFlight` | `Spec => []OverlapOnlyAfterFailure` |
| `SuccessIsNotRepeated` | `Spec => []BilledTwiceOnlyAfterFailure` |
| `OutcomesStayHome` | `Spec => []StraysAreRetries` |
| `AnswersAreNotBorrowed` | `Spec => []NoBorrowedAnswer` |
| `SequencesKeepAnswersHonest` | `Spec => [](~sqlite => CompletedIsHonest)` |

Two facts carry them.  `SharedRecord`: two requests get to one record only with the same
body and key and with a failed run recorded in it; for that a record must say what
happened under it (`RecordIsTrue`).  `Home`: the record of a run that inserted it is
there as long as the run, so its outcome cannot go astray.  Ids matter only for where the
outcomes of retries go, and what the two databases promise of them is `SequenceIds` (an
id is given once) and `TableIds` (no two rows have one id, one writer at a time).

### Streams

`StreamedRunProofs` proves, for any bound on the pieces of output and both modes:

| Theorem | Says |
| --- | --- |
| `StreamSafety` | `Spec => []StreamInv` |
| `StreamIsTyped` | `Spec => []TypeOK` |
| `StreamIsWellFramed` | `Spec => []WellFramed` |
| `ClientIsToldTheTruth` | `Spec => []ToldTheTruth` |
| `EndedStreamHoldsNothing` | `Spec => []TerminalHoldsNothing` |
| `ShownIsCharged` | `Spec => []VisibleIsChargedUnlessFault` |

The properties are about money, frames and rows, and the invariant ties them to the
place of the generators: `MoneyInv` says where an attempt can hold money and where
a request can have ended, `FramesInv` that the frames sent are the opening, some
pieces and the first frames of the ending of the state on record, and that the
frames still to send are the rest of that ending.

### Planning

`RoutePlanningProofs` proves, for any registries, policies, layers and payloads:

| Theorem | Says |
| --- | --- |
| `FrozenInvariant` | `Spec => []Frozen` |
| `PlanningTypes` | `Spec => []TypeOK` |
| `Admitted` | `Spec => []CandidatesAreAdmitted` |
| `BestStandFirst` | `Spec => []BestFirst` |
| `NothingStreamedUnchecked` | `Spec => []NothingUncheckedIsStreamed` |

`Frozen` is the pipeline read backwards: each result is what its step computes from
the results before it, which no later step touches.  What is left is about the
operators:

- A model stands under the resolved controls exactly if it stands under every layer
  alone.  Each control is resolved by a rule of its own (the stricter rank, the
  least, both lists), so there is one lemma per control, and the theorem puts them
  together with the gates of `Passes`.  Allow lists that do not meet
  are excepted in the property, and only there.
- `Rank` puts every candidate at the place that the number of candidates before it
  says.  The order is total, by score and then by id, which no two models share;
  `Ranking` of `SumsProofs` shows, by counting, that each place then has exactly one.
- A model that is as good as another in every measure and better in one has the
  lower score, and so the earlier place: scaling keeps the order of a measure, and
  every weight counts.
- `ExpectedAttempts` recurses over the attempts.  `Recursion` of `SumsProofs` unfolds
  it, `AttemptsOrdered` shows that it does not grow when the chance to pass does.

`RegistryAssumption` and `RequestAssumption` say what a registry and a body can
hold.  Weights are positive and validators exist because `persistence/seed.py`
(221-300) writes the policies so; ids differ because they are the primary key.

### Request rows

`ExchangeProofs` has three parts, for `RequestRows`, `ProviderCall` and `Exchange`.
For any requests and any cap on attempts:

| Theorem | Says |
| --- | --- |
| `RowsInvariant` | `RowsSpec => []RowsInv` |
| `RowsTypeCorrect` | `RowsSpec => []RowsTypeOK` |
| `EndedRowsAreResolved` | `RowsSpec => []EndedRowsHoldNothing` |
| `EndedLoopsStop` | `RowsSpec => LoopStopsAfterTheEnd` |
| `PunctualEndsAreFinal` | `RowsSpec => PunctualIsFinal` |

The task never reads the row and the job never looks at the task; what keeps them
apart is the deadline, which both look at, the task before each attempt: one that has
looked in time may still insert its attempt late (`Ebbing` counts it), and no second.
So `RowsInv` says that what the job holds is late, and that while a task runs its row
is READY or was expired late.

### Provider calls and the exchange

For any adapters, statuses, texts, asks, task classes, JSON values and schemas:

| Theorem | Says |
| --- | --- |
| `CallsAreTyped` | `CallSpec => []CallTypeOK`: every ending is a reply the orchestrator knows |
| `NothingIsLeftBehind` | `CallSpec => []NothingLeftBehind` |
| `ExchangeMakesOneCall` | `Spec => CallSpec`: an exchange calls as `ProviderCall` says |
| `ExchangeLeavesNothing` | `Spec => []NothingLeftBehind`, by the two before |
| `ExchangeInvariant` | `Spec => []ExchangeInv` |
| `RefusalsPrecedeWork` | `Spec => []RefusedBeforeWork` |
| `StopDecidesNothing` | `Spec => []StopChangesNoDecision` |
| `AcceptedIsInstance` | `Spec => []AcceptedFits` |
| `CallsSayWhatWasAsked` | `Spec => []CallSaysWhatWasAsked` |

In `ProviderCall`, `Held` keeps with each phase the client and the processes its
adapter may have in it; a call is over with its leader running only if it was
cancelled.

`ExchangeInv` says, for each stage, which of the request's forms exist and from
what they were made: the body is one of the spellings of the ask and is not spoilt
once a stage has looked (`Received`), the canonical request is what the endpoint's
normaliser makes of the body (`Normal`), the validators are those of the policy
and the format (`Planned`), nothing is called before (`Unpaid`) or answered before
its stage (`Silent`), and "ok" means the aggregate accepted what the provider
returned (`Paid`).  `RefusedBeforeWork` follows at once; the others need facts
about operators:

- *Stopping.*  `RunPlan` stops at a verdict more severe than any that is accepted or
  repaired, and the decision goes by the most severe one: what is left out can
  change which failure is named, not what is done about it.
- *Acceptance.*  `CodesOf`, `FitsOf`, `NamesItsTypesOf`, `PyEqualOf`
  and `EqualOf` say that each recursive
  function satisfies its equation, which `Descent` of `SumsProofs` gives for any
  function whose value depends on its values at less height.  `NoCodesFits`, that
  what the gate finds nothing wrong with fits, then goes up by height
  (`IntervalInduction`, on a set instead of a predicate) and through the keywords;
  `ConfusesNothing` does the same for the two equalities, which agree on values without
  a boolean's double.
- *Messages.*  Either endpoint's spelling splits a turn in parts or leaves it whole,
  and puts the instructions in a field or in turns of their own.  `FlattenIs`
  describes `FlattenSeq` as its pieces laid end to end; `ChatSays` and
  `ResponsesSays` show for each endpoint that the normaliser joins what the spelling
  split.

`JsonAssumption` says that values and schemas are finite trees and that `Absent` is
neither; `ExchangeAssumption` what an ask can consist of.

### What is only model-checked

Liveness: `EveryHoldResolved`, `EveryRequestEnds`, `KeyIsFreed`,
`AbandonedStreamEnds`, `EveryRowEnds`, `EveryExchangeEnds`, since the prover has no
rules for fairness and ENABLED.  Every other property of a passing run is a theorem.

## 6. What the models leave out

- Budget windows do not roll over while a request runs.
- In `BudgetLedger` the reconciler takes any rows of a batch, not the oldest.
- A provider's own retries and partial usage reports: charges are the estimate
  or nothing, as the code computes them.
- Lock timeouts and PostgreSQL's deadlock detector: a wait cycle is reported as such,
  not as the error that breaks it.  SQLite's busy timeout is only a step that may come
  late (`RecordAttempt` of `RequestRows`), never an error.
- The time a wait takes beyond the deadline (`Retry-After` is not capped by it).
- Several streams at once: they meet only in the ledger, which is modelled.
- In `Exchange`: sampling parameters and identifiers, which are copied; the ids of
  tool calls and the calls a model makes, which the code neither sends on
  (openai_http.py 156-203) nor returns (serializers.py 108-166); pictures, which
  are detected and required of a model but not sent (normalizer.py 53-70); how
  white space, fences, SQL, code and citations are recognised in a text; the
  second attempt, which is `RequestLoop`'s.
- In `RoutePlanning`: parsing of headers and bodies (a malformed one is refused),
  the keywords of the classifier (the class they stand for is an input), rounding
  of scores, `route_upper_bound` and the reasons of exclusions, which are only
  reported.  `build_plan` passes `evaluate` no health, quota or budget, so those
  gates are open in the code and in the model.

## 7. What is not modelled, and the plan

Not worth a model: the SSE wire format, `_check_destination` of the HTTP adapter (a
check of configuration), read-only endpoints, seeding beyond the policies'
validators, migrations, telemetry (nothing reads it back).

Left for later: the fields of a streamed event (`openai_http.py` 293-318); a
malformed one is a failure in `StreamedRun` whatever is wrong with it.
