---------------------------- MODULE MCCapsuleLedger ----------------------------
(* Instances of CapsuleLedger for TLC.  Prices are in tenths. *)
EXTENDS CapsuleLedger

NoLimits == [ allowed_venues |-> {}, allowed_symbols |-> {"up", "down"},
              max_open_positions |-> 0, max_trades_per_day |-> 0, max_position_pct |-> 0,
              max_daily_loss |-> 0, max_total_drawdown |-> 0, min_between_trades |-> 0 ]

Binary == [t \in {"up"} |-> "down"]

\* Sim orders: bought at one price, sold at three, so that the proportional cost
\* basis divides exactly as it does in the program's floating point.
SimOrders ==
    [venue : {"sim"}, symbol : {"up"}, side : {"BUY"}, size : {1, 2, 3}, price : {20}]
    \cup [venue : {"sim"}, symbol : {"up"}, side : {"SELL"}, size : {1, 2, 4}, price : {10, 20, 30}]

Api(lim) == [limits |-> lim, orders |-> SimOrders, signals |-> {}, budgets |-> {}]
SimBinding == Api([NoLimits EXCEPT !.max_trades_per_day = 3, !.max_position_pct = 60,
                                   !.max_daily_loss = 2, !.max_total_drawdown = 3])

\* The arena buys one binary on its YES side, or its NO token with a SELL.
ArenaBinding ==
    [limits |-> [NoLimits EXCEPT !.max_daily_loss = 7], orders |-> {}, budgets |-> {},
     signals |-> [symbol : {"up"}, side : {"BUY"}, size_usd : {2, 3, 8}, price : {5}]
                 \cup [symbol : {"up"}, side : {"SELL"}, size_usd : {2}, price : {5}]]

BudgetBinding ==
    [Api(NoLimits) EXCEPT !.budgets =
        {[capital |-> 4, daily_loss_cap |-> 2, total_dd_cap |-> 4, max_trades_per_day |-> 2]}]

\* A championship's capsule: a share of its capital, on a venue whose buys are
\* dollars.  Buys of 3 at 0.2 pass the gate beyond the limit of 5.
PctBinding ==
    [limits |-> [NoLimits EXCEPT !.max_position_pct = 50], orders |-> {}, budgets |-> {},
     signals |-> [symbol : {"up"}, side : {"BUY"}, size_usd : {1, 3}, price : {2}]]

AllBindings == {SimBinding, ArenaBinding, BudgetBinding, PctBinding}
=============================================================================
