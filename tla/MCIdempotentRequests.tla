------------------------ MODULE MCIdempotentRequests ------------------------
(* Four requests with one key, one or two of them with another body: on SQLite the
   record of one body may get the id the other's had.                           *)
EXTENDS IdempotentRequests, TLC

CONSTANTS r1, r2, r3, r4, ours, asked, altered

OneKey == [r \in Requests |-> ours]
OneAltered == [r \in Requests |-> IF r = r4 THEN altered ELSE asked]
TwoAltered == [r \in Requests |-> IF r \in {r1, r2} THEN asked ELSE altered]
=============================================================================
