--------------------------- MODULE MCBudgetLedger ---------------------------
(* Two requests compete for the global budget; r1 has a max_cost below it, and r2
   is also held to its client's budget.  Neither budget has room for what every
   attempt might cost, so a reservation may be refused by the ceiling, by the
   shared budget or by the private one.                                       *)
EXTENDS BudgetLedger, TLC

CONSTANTS r1, r2, global, client

MCScopesOf == (r1 :> {global}) @@ (r2 :> {global, client})
MCHardLimit == (global :> 3) @@ (client :> 2)
MCEstimates == (r1 :> {1, 2}) @@ (r2 :> {2})
MCCeiling == (r1 :> 2) @@ (r2 :> NoCeiling)
=============================================================================
