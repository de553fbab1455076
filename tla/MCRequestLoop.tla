--------------------------- MODULE MCRequestLoop ---------------------------
(* Two requests share a provider.  r1 has no other; r2's route goes past one that
   has no adapter, back to the first provider and on to a second.  Time is
   counted in units: a call is predicted to take one, the validation margin is
   one, so a retry needs three left and a call two.                           *)
EXTENDS RequestLoop, TLC

CONSTANTS r1, r2, acme, bolt, ghost

MCRoute == (r1 :> <<acme>>) @@ (r2 :> <<acme, ghost, acme, bolt>>)

Fault(o, retryable, emitted) ==
  [outcome |-> o, retryable |-> retryable, emitted |-> emitted]

\* One failure of each kind the loop tells apart.  CONTEXT_REJECTED and its like
\* take the same path as the INVALID_RESPONSE here: not retried, repairs reset.
MCFailures == {Fault("TIMEOUT", TRUE, FALSE), Fault("AUTH_ERROR", FALSE, FALSE),
               Fault("INVALID_RESPONSE", TRUE, FALSE),
               Fault("PARTIAL", FALSE, TRUE)}
=============================================================================
