---------------------------- MODULE StreamedRun ----------------------------
(***************************************************************************)
(* One streamed response: StreamingOrchestrator of                         *)
(* services/orchestrator.py under the SSE generators of                    *)
(* api/streaming_endpoints.py, with a client that may go away at any time. *)
(*                                                                         *)
(* The generators are nested, and every yield is a place to stay: the      *)
(* client reads the next frame, or it is gone, and then the innermost      *)
(* generator is closed there (GeneratorExit), or its task cancelled while  *)
(* it awaits the provider (CancelledError).  The transactions after the    *)
(* provider's stream has ended run without a yield between them; a crash   *)
(* of the process may still come between two.                              *)
(*                                                                         *)
(* A buffered stream first runs RequestLoop, which is one step here, and   *)
(* then replays its output.  The candidate's estimated cost is not zero.   *)
(***************************************************************************)
EXTENDS Naturals, Sequences, SequencesExt

CONSTANT MaxDeltas  \* bound on the pieces of output of one stream

ASSUME DeltasAssumption == MaxDeltas \in Nat

VARIABLES
  mode,     \* StreamPlan.mode
  api,      \* the endpoint the request came in by
  pc,       \* where the generators are
  client,   \* "on", or "gone"
  frames,   \* the frames the client was sent
  toSend,   \* terminal frames still to be sent
  emitted,  \* local emitted: provider output was passed on
  source,   \* the adapter's generator, with its connection to the provider
  ending,   \* how the provider's stream ended
  final,    \* the state _terminal is to record
  hold,     \* the reservation of the attempt
  outcome,  \* Attempt.outcome
  state     \* Request.state

wire == <<client, frames, toSend>>
rows == <<hold, outcome, state>>
fixed == <<mode, api>>
provider == <<emitted, source>>
vars == <<fixed, pc, wire, provider, ending, final, rows>>

Init ==
  /\ mode \in {"passthrough", "buffered"}
  /\ api \in {"chat", "responses"}
  /\ pc = "headers"        \* 200 is committed, no frame is
  /\ client = "on"
  /\ frames = <<>>
  /\ toSend = <<>>
  /\ emitted = FALSE
  /\ source = "none"
  /\ ending = "none"
  /\ final = "none"
  /\ hold = "none"
  /\ outcome = "none"
  /\ state = "READY"

Send(f) == frames' = Append(frames, f)
Opening == IF api = "chat" THEN "role" ELSE "created"
Deltas  == Cardinality({i \in 1..Len(frames) : frames[i] = "delta"})

-----------------------------------------------------------------------------
\* The first frame goes out before the orchestrator is entered.
Open ==
  /\ pc = "headers" /\ client = "on"
  /\ Send(Opening)
  /\ pc' = "opened"
  /\ UNCHANGED <<fixed, client, toSend, provider, ending, final, rows>>

\* run_stream is entered: the plan has a route with an adapter and an attempt row
\* is written, or the request ends here.
Enter ==
  /\ pc = "opened" /\ client = "on"
  /\ \/ mode = "buffered" /\ pc' = "running" /\ UNCHANGED <<final, outcome>>
     \/ /\ mode = "passthrough"
        /\ final' \in {"REJECTED_NO_ROUTE", "FAILED_EXHAUSTED"}
        /\ pc' = "terminating"
        /\ UNCHANGED outcome
     \/ /\ mode = "passthrough"
        /\ outcome' = "null"
        /\ pc' = "recorded"
        /\ UNCHANGED final
  /\ UNCHANGED <<fixed, wire, provider, ending, hold, state>>

Reserve ==
  /\ pc = "recorded"
  /\ \/ hold' = "ACTIVE" /\ source' = "open" /\ pc' = "streaming" /\ UNCHANGED <<ending, final>>
     \/ /\ ending' = "denied"
        /\ final' = "REJECTED_BUDGET"
        /\ pc' = "finishing"
        /\ UNCHANGED <<hold, source>>
  /\ UNCHANGED <<fixed, wire, emitted, outcome, state>>

\* A piece of output arrives and is yielded to the client.
Delta ==
  /\ pc = "streaming" /\ Deltas < MaxDeltas
  /\ emitted' = TRUE
  /\ IF client = "on" THEN Send("delta") ELSE UNCHANGED frames
  /\ pc' = "yielding"
  /\ UNCHANGED <<fixed, client, toSend, source, ending, final, rows>>

Resume ==
  /\ pc = "yielding" /\ client = "on"
  /\ pc' = "streaming"
  /\ UNCHANGED <<fixed, wire, provider, ending, final, rows>>

\* The provider's stream is over, with a ProviderFailure or with an exception of
\* another kind: adapters translate only error statuses, timeouts and malformed
\* events, and refuse to stream at all with a failure.  The adapter's own finally
\* comes first.
StreamEnds ==
  /\ pc = "streaming"
  /\ ending' \in {"complete", "failure", "fault"}
  /\ source' = "closed"
  /\ pc' = "resolving"
  /\ UNCHANGED <<fixed, wire, emitted, final, rows>>

\* Slip: a failed stream is never charged.
ChargedOnlyComplete == ending = "complete"

\* The local settled is positive.  A fault leaves it at its initial zero.
Charged == \/ ending = "complete"
           \/ ending \in {"failure", "cancelled"} /\ emitted

Resolve ==
  /\ pc = "resolving"
  /\ hold' = IF Charged THEN "SETTLED" ELSE "RELEASED"
  /\ pc' = "finishing"
  /\ UNCHANGED <<fixed, wire, provider, ending, final, outcome, state>>

\* The rest of the finally block, and what follows it for each ending.  A fault
\* is recorded as a success and then goes up through all the generators.
Finish ==
  /\ pc = "finishing"
  /\ outcome' = CASE ending \in {"cancelled", "denied"} -> "CANCELLED"
                  [] ending = "failure" -> "FAILED"
                  [] OTHER -> "SUCCESS"
  /\ \/ ending = "fault" /\ pc' = "broken" /\ UNCHANGED final
     \/ ending = "complete" /\ pc' = "judging" /\ UNCHANGED final
     \/ ending = "denied" /\ pc' = "terminating" /\ UNCHANGED final
     \/ ending = "cancelled" /\ pc' = "terminating" /\ final' = "CANCELLED"
     \/ /\ ending = "failure"
        /\ pc' = "terminating"
        /\ final' = IF emitted THEN "FAILED_PARTIAL" ELSE "FAILED_EXHAUSTED"
  /\ UNCHANGED <<fixed, wire, provider, ending, hold, state>>

\* The whole output is validated after the client has seen it.
Judge ==
  /\ pc = "judging"
  /\ final' \in {"SUCCEEDED", "FAILED_PARTIAL"}
  /\ pc' = "terminating"
  /\ UNCHANGED <<fixed, wire, provider, ending, rows>>

\* The frames that end a response.
Success == IF api = "chat" THEN <<"finish", "usage", "done">> ELSE <<"completed">>
Failure == IF api = "chat" THEN <<"error", "done">> ELSE <<"error">>

\* Slip: a stream the provider completed is reported as a success.
LastFramesByProvider(s) ==
  IF ending = "complete" \/ s = "SUCCEEDED" THEN Success ELSE Failure

LastFrames(s) == IF s = "SUCCEEDED" THEN Success ELSE Failure

Terminate ==
  /\ pc = "terminating"
  /\ state' = final
  /\ IF ending = "cancelled"
     THEN pc' = "closed" /\ UNCHANGED toSend
     ELSE pc' = "telling" /\ toSend' = LastFrames(final)
  /\ UNCHANGED <<fixed, client, frames, provider, ending, final, hold, outcome>>

\* Slip: after an error before any output the code falls through to validation.
TellWithoutReturn ==
  /\ pc = "telling" /\ client = "on" /\ toSend # <<>>
  /\ Send(Head(toSend))
  /\ toSend' = Tail(toSend)
  /\ pc' = IF toSend' # <<>> THEN "telling"
           ELSE IF ending = "failure" THEN "judging" ELSE "closed"
  /\ UNCHANGED <<fixed, client, provider, ending, final, rows>>

Tell ==
  /\ pc = "telling" /\ client = "on" /\ toSend # <<>>
  /\ Send(Head(toSend))
  /\ toSend' = Tail(toSend)
  /\ pc' = IF toSend' # <<>> THEN "telling" ELSE "closed"
  /\ UNCHANGED <<fixed, client, provider, ending, final, rows>>

-----------------------------------------------------------------------------
\* Buffered: Orchestrator.run has recorded a terminal state.
RunEnds ==
  /\ pc = "running"
  /\ state' \in {"SUCCEEDED", "FAILED_EXHAUSTED", "EXPIRED", "REJECTED_BUDGET",
                 "REJECTED_NO_ROUTE"}
  /\ toSend' = LastFrames(state')
  /\ pc' = IF state' = "SUCCEEDED" THEN "replaying" ELSE "telling"
  /\ UNCHANGED <<fixed, client, frames, provider, ending, final, hold, outcome>>

Replay ==
  /\ pc = "replaying" /\ client = "on"
  /\ \/ Deltas < MaxDeltas /\ Send("delta") /\ UNCHANGED pc
     \/ pc' = "telling" /\ UNCHANGED frames
  /\ UNCHANGED <<fixed, client, toSend, provider, ending, final, rows>>

-----------------------------------------------------------------------------
Disconnect ==
  /\ client = "on" /\ pc # "dead"
  /\ client' = "gone"
  /\ UNCHANGED <<fixed, pc, frames, toSend, provider, ending, final, rows>>

\* The adapter's generator, when the orchestrator's is cancelled while it awaits
\* the provider, gets the CancelledError first and closes its connection.  One that
\* is suspended itself, at the yield of a piece, is only dropped.
LeaveSource == source' = IF pc = "streaming" THEN "closed" ELSE "dropped"

\* Slip: cancelled before the finally block could run.
UnwindUnresolved ==
  /\ client = "gone"
  /\ pc \in {"streaming", "yielding"}
  /\ LeaveSource
  /\ ending' = "cancelled" /\ final' = "CANCELLED" /\ pc' = "terminating"
  /\ UNCHANGED <<fixed, wire, emitted, rows>>

\* Slip: a generator suspended at a yield is not closed.
UnwindAwaitOnly ==
  /\ client = "gone"
  /\ pc = "streaming" /\ LeaveSource /\ ending' = "cancelled" /\ pc' = "resolving"
  /\ UNCHANGED <<fixed, wire, emitted, final, rows>>

\* The client's absence reaches the generators.  One that has not entered the
\* orchestrator, or is past it, just ends; so does a buffered run, whose attempt
\* gives its hold back and whose request stays READY.
Unwind ==
  /\ client = "gone"
  /\ \/ /\ pc \in {"streaming", "yielding"}
        /\ LeaveSource
        /\ ending' = "cancelled" /\ pc' = "resolving"
     \/ /\ pc \in {"headers", "opened", "running", "replaying", "telling"}
        /\ pc' = "closed"
        /\ UNCHANGED <<ending, source>>
  /\ UNCHANGED <<fixed, wire, emitted, final, rows>>

\* The loop's finalizer hook closes a generator that was dropped, whatever the
\* orchestrator's own finally has written by then.
CloseDropped ==
  /\ source = "dropped" /\ pc # "dead"
  /\ source' = "closed"
  /\ UNCHANGED <<fixed, pc, wire, emitted, ending, final, rows>>

Crash ==
  /\ pc \notin {"closed", "broken", "dead"}
  /\ pc' = "dead"
  /\ UNCHANGED <<fixed, wire, provider, ending, final, rows>>

Progress == \/ Open \/ Enter \/ Reserve \/ Resume \/ StreamEnds \/ Resolve
            \/ Finish \/ Judge \/ Terminate \/ Tell \/ RunEnds \/ Replay

Next == Progress \/ Delta \/ Disconnect \/ Unwind \/ CloseDropped \/ Crash

Spec == Init /\ [][Next]_vars

\* The event loop runs what can run: the provider's stream ends (a silence between
\* two pieces meets a timeout; that it does not send on for ever is assumed), and
\* abandoned generators are closed by the loop's finalizer hook.  No client need go
\* away, nor stay.
FairSpec == /\ Spec
            /\ WF_vars(Progress) /\ WF_vars(StreamEnds)
            /\ WF_vars(Unwind) /\ WF_vars(CloseDropped)
-----------------------------------------------------------------------------
Failed   == {"FAILED_EXHAUSTED", "FAILED_PARTIAL", "EXPIRED", "REJECTED_BUDGET",
             "REJECTED_NO_ROUTE"}
Terminal == Failed \cup {"SUCCEEDED", "CANCELLED"}

(* Every variable has its type, and an attempt row is there before its hold.  *)
TypeOK ==
  /\ mode \in {"passthrough", "buffered"} /\ api \in {"chat", "responses"}
  /\ pc \in {"headers", "opened", "recorded", "streaming", "yielding", "resolving",
             "finishing", "judging", "terminating", "telling", "running",
             "replaying", "closed", "broken", "dead"}
  /\ client \in {"on", "gone"}
  /\ emitted \in BOOLEAN
  /\ source \in {"none", "open", "dropped", "closed"}
  /\ ending \in {"none", "complete", "failure", "fault", "cancelled", "denied"}
  /\ final \in Terminal \cup {"none"}
  /\ hold \in {"none", "ACTIVE", "SETTLED", "RELEASED"}
  /\ outcome \in {"none", "null", "SUCCESS", "FAILED", "CANCELLED"}
  /\ state \in Terminal \cup {"READY"}
  /\ hold # "none" => outcome # "none"

(* What the client has received is the beginning of a response of its protocol:
   an opening frame, output, and one ending, of success or of failure.        *)
WellFramed ==
  \E n \in 0..MaxDeltas, last \in {Success, Failure} :
    IsPrefix(frames, <<Opening>> \o [i \in 1..n |-> "delta"] \o last)

(* The ending the client is told is the state on record: a success only of a
   request that SUCCEEDED, an error only of one that ended otherwise.         *)
ToldTheTruth ==
  /\ Contains(frames, Head(Success)) => state = "SUCCEEDED"
  /\ Contains(frames, "error") => state \in Failed

(* A request in a terminal state holds no money (the comment on TERMINAL_STATES,
   enums.py lines 46-47), on every path including cancellation.               *)
TerminalHoldsNothing == state \in Terminal => hold # "ACTIVE"

(* Output that was passed on is charged, however the stream ended, unless by an
   exception that is no ProviderFailure.                                      *)
VisibleIsChargedUnlessFault ==
  hold = "RELEASED" /\ ending # "fault" => ~emitted

(* The comment in _passthrough (orchestrator.py lines 737-738): anything already
   emitted will be billed, so a partial stream settles rather than releases.  *)
VisibleIsCharged == hold = "RELEASED" => ~emitted

(* When the client leaves a stream whose money is held, unless the process dies
   the hold is resolved, the connection to the provider closed and the request
   brought to a terminal state, which only a fault of the stream prevents.    *)
AbandonedStreamEnds ==
  client = "gone" /\ hold = "ACTIVE" ~>
    \/ pc = "dead"
    \/ /\ hold # "ACTIVE" /\ source = "closed"
       /\ state \in Terminal \/ ending = "fault"
=============================================================================
