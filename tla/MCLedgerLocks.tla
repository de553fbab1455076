--------------------------- MODULE MCLedgerLocks ---------------------------
(* Three calls on three budgets.  t1 and t2 come from one client, whose monthly
   budget was created in between; t3, of another client, asks for more than the
   global budget has.

   The client's budgets sort before the global one by scope.  The global budget
   was created first and the monthly one last, so ids say otherwise of the global
   budget and the same of the client's two.                                   *)
EXTENDS LedgerLocks, TLC

CONSTANTS t1, t2, t3, global, client, month

MCScopesOf == (t1 :> {global, client}) @@ (t2 :> {global, client, month})
                @@ (t3 :> {global})
MCHardLimit == (global :> 3) @@ (client :> 2) @@ (month :> 1)
MCEstimate == (t1 :> 1) @@ (t2 :> 1) @@ (t3 :> 4)
ByScope == (client :> 1) @@ (month :> 2) @@ (global :> 3)
ById == (global :> 1) @@ (client :> 2) @@ (month :> 3)
=============================================================================
