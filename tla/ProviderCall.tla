---------------------------- MODULE ProviderCall ----------------------------
(***************************************************************************)
(* One call of ProviderAdapter.generate: the HTTP adapter                  *)
(* (providers/openai_http.py), the adapter that runs a command-line tool   *)
(* as a process group (providers/commandcode_cli.py) and the two fakes     *)
(* (providers/fake.py).                                                    *)
(*                                                                         *)
(* The other actors are the provider, which answers, fails, sends a little *)
(* or keeps silent; the tool's own process, the leader of its group, which *)
(* may start a descendant and exit while that still holds its pipes; and   *)
(* whoever cancels the task.  Streamed calls are StreamedRun's.            *)
(***************************************************************************)
EXTENDS Naturals

CONSTANTS Adapters,  \* the adapters of the deployment
          Statuses,  \* the HTTP statuses a provider answers with
          Texts,     \* the texts a provider generates
          NoText     \* the text of a call that yields none

ASSUME CallAssumption == /\ Adapters \subseteq {"openai_compatible", "commandcode", "fake", "alien"}
                         /\ Statuses \subseteq Nat
                         /\ NoText \notin Texts

VARIABLES
  adapter, \* the adapter that makes the call
  phase,   \* "idle"; "waiting" for the provider; "receiving", some bytes have come;
           \* "stopping" its processes; "over"
  client,  \* the httpx client: "none", "shared", "owned" by the call, "closed"
  leader,  \* the child process: "none", "running", "exited", "killed"
  child,   \* its descendant: "none", "running", "stubborn" (ignores SIGTERM), "gone"
  reply    \* what generate returned or raised

callVars == <<adapter, phase, client, leader, child, reply>>

Result(text) == [kind |-> "result", outcome |-> "SUCCESS", retryable |-> FALSE, text |-> text]

Failure(outcome, retryable) ==
  [kind |-> "failure", outcome |-> outcome, retryable |-> retryable, text |-> NoText]

\* An exception that is no ProviderFailure; the cancellation of the task.
Fault     == [Failure("null", FALSE) EXCEPT !.kind = "fault"]
Cancelled == [Failure("null", FALSE) EXCEPT !.kind = "cancelled"]
NoReply   == [Failure("null", FALSE) EXCEPT !.kind = "none"]

CallInit ==
  /\ adapter \in Adapters
  /\ phase = "idle" /\ client = "none" /\ leader = "none" /\ child = "none"
  /\ reply = NoReply

Over(r) == phase' = "over" /\ reply' = r

-----------------------------------------------------------------------------
\* openai_compatible

RetryableStatuses == {408, 409, 425, 429, 500, 502, 503, 504}

Classify(status) ==
  CASE status \in {401, 403} -> Failure("AUTH_ERROR", FALSE)
    [] status = 429          -> Failure("RATE_LIMITED", TRUE)
    [] status = 413          -> Failure("CONTEXT_REJECTED", FALSE)
    [] OTHER                 -> Failure("PROVIDER_ERROR", status \in RetryableStatuses)

\* What becomes of the body of a 200: a completion, JSON that lacks one, or JSON of
\* a shape .get() cannot be called on, which no except clause of either adapter names.
Parsed(retryable) == {Result(t) : t \in Texts} \cup {Failure("INVALID_RESPONSE", retryable), Fault}

\* The finally of _post: a client the adapter was not given is closed.
CloseOwned == client' = IF client = "owned" THEN "closed" ELSE client

Post ==
  /\ adapter = "openai_compatible" /\ phase = "idle"
  /\ phase' = "waiting" /\ client' \in {"shared", "owned"}
  /\ UNCHANGED <<adapter, leader, child, reply>>

PostEnds(replies) ==
  /\ adapter = "openai_compatible" /\ phase = "waiting"
  /\ \E r \in replies : Over(r) /\ CloseOwned
  /\ UNCHANGED <<adapter, leader, child>>

\* Some of the response has come, and not its end.
Receives ==
  /\ adapter = "openai_compatible" /\ phase = "waiting"
  /\ phase' = "receiving"
  /\ UNCHANGED <<adapter, client, leader, child, reply>>

\* The next read starts with the whole timeout before it: a float is httpx's timeout
\* of every single operation.
ReadOn ==
  /\ phase = "receiving"
  /\ phase' = "waiting"
  /\ UNCHANGED <<adapter, client, leader, child, reply>>

Responds       == PostEnds({Classify(s) : s \in Statuses} \cup Parsed(FALSE))
PostTimesOut   == PostEnds({Failure("TIMEOUT", TRUE)})
TransportFails == PostEnds({Failure("PROVIDER_ERROR", TRUE)})

-----------------------------------------------------------------------------
\* commandcode

Alive(process) == process \in {"running", "stubborn"}

\* communicate returns once the leader has exited and its pipes are at their end; a
\* descendant has inherited them.
PipesClosed == leader = "exited" /\ ~Alive(child)

Spawn ==
  /\ adapter = "commandcode" /\ phase = "idle"
  /\ \/ phase' = "waiting" /\ leader' = "running" /\ UNCHANGED reply
     \/ Over(Failure("AUTH_ERROR", FALSE)) /\ UNCHANGED leader
  /\ UNCHANGED <<adapter, client, child>>

\* Output past the limit, an exit code that is not zero, or _parse.
Collect ==
  /\ adapter = "commandcode" /\ phase = "waiting"
  /\ PipesClosed
  /\ \E r \in Parsed(FALSE) \cup {Failure("PROVIDER_ERROR", TRUE)} : Over(r)
  /\ UNCHANGED <<adapter, client, leader, child>>

\* wait_for gives up.  A leader that has exited is not signalled, nor is what is
\* left of its group; a running one and its group get SIGTERM and a grace period.
CallTimesOut ==
  /\ adapter = "commandcode" /\ phase = "waiting"
  /\ IF leader = "exited" THEN Over(Failure("TIMEOUT", TRUE))
                          ELSE phase' = "stopping" /\ UNCHANGED reply
  /\ UNCHANGED <<adapter, client, leader, child>>

\* The leader left within the grace period; nobody looks at its group again.
Reap ==
  /\ phase = "stopping" /\ leader = "exited"
  /\ Over(Failure("TIMEOUT", TRUE))
  /\ UNCHANGED <<adapter, client, leader, child>>

\* Slip: the direct child is killed, not its group.
KillLeader == leader' = "killed" /\ UNCHANGED child

KillGroup == leader' = "killed" /\ child' = IF Alive(child) THEN "gone" ELSE child

\* Slip: SIGKILL only if nothing of the group ignores signals.
GraceOverWhenAlone == phase = "stopping" /\ leader = "running" /\ child # "stubborn"

GraceOver == phase = "stopping" /\ leader = "running"

Escalate ==
  /\ GraceOver
  /\ KillGroup
  /\ Over(Failure("TIMEOUT", TRUE))
  /\ UNCHANGED <<adapter, client>>

\* The processes do as they like, before and after the call is over.
LeaderForks == /\ leader = "running" /\ child = "none"
               /\ child' \in {"running", "stubborn"}
               /\ UNCHANGED <<adapter, phase, client, leader, reply>>
LeaderExits == /\ leader = "running" /\ leader' = "exited"
               /\ UNCHANGED <<adapter, phase, client, child, reply>>
ChildExits  == /\ Alive(child) /\ child' = "gone"
               /\ UNCHANGED <<adapter, phase, client, leader, reply>>

-----------------------------------------------------------------------------
\* fake and alien: the next scripted failure, or a text.
ScriptedFailures == {Failure("RATE_LIMITED", TRUE), Failure("PROVIDER_ERROR", TRUE),
                     Failure("AUTH_ERROR", FALSE), Failure("TIMEOUT", TRUE),
                     Failure("PARTIAL", FALSE)}

Pretend ==
  /\ adapter \in {"fake", "alien"} /\ phase = "idle"
  /\ \E r \in ScriptedFailures \cup {Result(t) : t \in Texts} : Over(r)
  /\ UNCHANGED <<adapter, client, leader, child>>

\* The task is cancelled at its await: the HTTP adapter has its finally, the other
\* leaves the processes as they are.
CallCancelled ==
  /\ phase \in {"waiting", "receiving", "stopping"}
  /\ Over(Cancelled) /\ CloseOwned
  /\ UNCHANGED <<adapter, leader, child>>

GatewayStep == \/ Post \/ ReadOn \/ Responds \/ PostTimesOut \/ TransportFails
               \/ Spawn \/ Collect \/ CallTimesOut \/ Reap \/ Escalate
               \/ Pretend \/ CallCancelled
ProcessStep == LeaderForks \/ LeaderExits \/ ChildExits

CallNext == GatewayStep \/ Receives \/ ProcessStep

CallSpec == CallInit /\ [][CallNext]_callVars
-----------------------------------------------------------------------------
Outcomes == {"null", "SUCCESS", "AUTH_ERROR", "RATE_LIMITED", "CONTEXT_REJECTED",
             "PROVIDER_ERROR", "INVALID_RESPONSE", "TIMEOUT", "PARTIAL"}

(* Every variable has its type.                                               *)
CallTypeOK ==
  /\ adapter \in Adapters
  /\ phase  \in {"idle", "waiting", "receiving", "stopping", "over"}
  /\ client \in {"none", "shared", "owned", "closed"}
  /\ leader \in {"none", "running", "exited", "killed"}
  /\ child  \in {"none", "running", "stubborn", "gone"}
  /\ reply  \in [kind : {"none", "result", "failure", "fault", "cancelled"},
                 outcome : Outcomes, retryable : BOOLEAN, text : Texts \cup {NoText}]

(* A call that is over has closed the client it opened, however it ended.  One
   whose task was not cancelled has outlived the tool it started, and unless that
   one exited before SIGKILL, everything the tool started too; an answer was read
   to its end, so nobody is left who could have written more of it.           *)
NothingLeftBehind ==
  phase = "over" =>
    /\ client # "owned"
    /\ reply.kind # "cancelled" =>
         /\ leader # "running"
         /\ Alive(child) => leader = "exited" /\ reply.outcome = "TIMEOUT"
=============================================================================
