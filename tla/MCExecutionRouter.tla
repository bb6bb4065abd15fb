--------------------------- MODULE MCExecutionRouter ---------------------------
(* Instances of ExecutionRouter for TLC. *)
EXTENDS ExecutionRouter, TLC

CONSTANTS c1, c2, k, none

TwoCalls == {c1, c2}
PairSymmetry == Permutations({c1, c2})

OneCapsule == {k}
Adapters == [v \in {"sim", "coinbase"} |->
                IF v = "sim" THEN {"MARKET", "LIMIT", "FOK_BASKET"} ELSE {"MARKET"}]

NoLimits == [ allowed_venues |-> {"sim", "coinbase"}, allowed_symbols |-> {"btc"},
              max_open_positions |-> 0, max_trades_per_day |-> 0, max_position_pct |-> 0,
              max_daily_loss |-> 0, max_total_drawdown |-> 0, min_between_trades |-> 0 ]
Unlimited == [j \in OneCapsule |-> NoLimits]
TightLimits ==
    [j \in OneCapsule |-> [NoLimits EXCEPT !.max_trades_per_day = 2, !.min_between_trades = 2]]

WideRisk == [ enabled |-> TRUE, forbidden_symbols |-> {}, max_order_notional |-> 50,
              max_orders_per_minute |-> 9, max_daily_loss |-> 9, max_position_notional |-> 50,
              max_open_positions |-> 9, max_concentration_pct |-> 25 ]
TwoPerMinute == [WideRisk EXCEPT !.max_orders_per_minute = 2]
TightLoss == [WideRisk EXCEPT !.max_daily_loss = 2]

Order(id, capsule, venue, side, price) ==
    [clientOrderId |-> id, capsule |-> capsule, venue |-> venue, symbol |-> "btc",
     side |-> side, type |-> "MARKET", size |-> 1, price |-> price, allowTaker |-> TRUE]

\* One order for every way through the gates: a real venue's three
\* answers, and one order each that the adapter lookup, the capability check and
\* the maker-only gate refuse.
MixedOrders ==
    { Order("b", k, "coinbase", "BUY", 2), Order("x", none, "kalshi", "BUY", 2),
      [Order("y", none, "coinbase", "BUY", 2) EXCEPT !.type = "LIMIT"],
      [Order("m", none, "sim", "SELL", 2) EXCEPT !.allowTaker = FALSE] }

\* Three buys that the limits make compete, and a sell at a real venue.
Competing ==
    {Order(i, k, "sim", "BUY", 2) : i \in {"a", "b", "d"}} \cup {Order("s", k, "coinbase", "SELL", 1)}

TwoVenues == { Order("a", k, "sim", "BUY", 2), Order("b", k, "coinbase", "SELL", 2) }
LosingTrades == { Order("a", k, "sim", "BUY", 5), Order("b", k, "sim", "SELL", 1) }
=============================================================================
