---------------------------- MODULE CapsuleEnvelope ----------------------------
(***************************************************************************)
(* The capsule: a per-agent risk envelope.  Two pure functions guard and   *)
(* update it, packages/risk/src/capsules/gate.ts (checkOrder) and          *)
(* packages/risk/src/capsules/journal.ts (applyFillToCapsule); the router  *)
(* and the ledger modules call both.                                       *)
(*                                                                         *)
(* Money and quantities are integers (the smallest unit the instance       *)
(* cares about), max_position_pct is in percent, a date is a day number,   *)
(* and a price of p stands for refPrice = p / PriceScale.                  *)
(***************************************************************************)
EXTENDS Integers

CONSTANT PriceScale
ASSUME PriceScaleAssumption == PriceScale \in Nat \ {0}

\* daily_pnl_reset_date IS NULL: the capsule has never journaled a fill.
NoDate == -1

CapsuleStatuses == {"draft", "paper", "live", "paused", "stopped", "closed"}

\* The realtime row of the capsules table.
CapsuleRow ==
    [ status               : CapsuleStatuses,
      capital_allocated    : Nat,
      capital_deployed     : Nat,
      capital_available    : Nat,
      current_pnl          : Int,
      daily_pnl            : Int,
      open_positions       : Nat,
      trades_today         : Nat,
      open_position_qty    : Nat,
      open_position_cost   : Int,
      daily_pnl_reset_date : Nat \cup {NoDate} ]

\* createCapsule followed by the operator's activation.
NewCapsule(status, allocated) ==
    [ status               |-> status,
      capital_allocated    |-> allocated,
      capital_deployed     |-> 0,
      capital_available    |-> allocated,
      current_pnl          |-> 0,
      daily_pnl            |-> 0,
      open_positions       |-> 0,
      trades_today         |-> 0,
      open_position_qty    |-> 0,
      open_position_cost   |-> 0,
      daily_pnl_reset_date |-> NoDate ]

AtLeastZero(n) == IF n >= 0 THEN n ELSE 0
Smaller(a, b)  == IF a <= b THEN a ELSE b

-----------------------------------------------------------------------------
(***************************************************************************)
(* checkOrder.  A limit of 0 means "off".  "since" is the number of clock  *)
(* units since the last submission on the same (capsule, symbol, side),    *)
(* NeverTraded when there was none.                                        *)
(***************************************************************************)
NeverTraded == -1

Active(c) == c.status \in {"paper", "live"}

OutsideScope(lim, o) ==
    \/ lim.allowed_venues # {} /\ o.venue \notin lim.allowed_venues
    \/ o.symbol \notin lim.allowed_symbols

AtMaxOpenPositions(lim, c) ==
    lim.max_open_positions > 0 /\ c.open_positions >= lim.max_open_positions

\* Mutated form of AtMaxTradesPerDay.
TradesCapOffByOne(lim, c) ==
    lim.max_trades_per_day > 0 /\ c.trades_today > lim.max_trades_per_day

AtMaxTradesPerDay(lim, c) ==
    lim.max_trades_per_day > 0 /\ c.trades_today >= lim.max_trades_per_day

\* Mutated form of OverPositionPct.
OrderAloneOverPct(lim, c, o) ==
    /\ o.side = "BUY" /\ lim.max_position_pct > 0
    /\ 100 * o.size * o.price > lim.max_position_pct * c.capital_allocated * PriceScale

\* Binds on buys only.
OverPositionPct(lim, c, o) ==
    /\ o.side = "BUY"
    /\ lim.max_position_pct > 0 /\ c.capital_allocated > 0 /\ o.price > 0
    /\ 100 * (PriceScale * c.capital_deployed + o.size * o.price)
          > lim.max_position_pct * c.capital_allocated * PriceScale

PastLossLimit(lim, c) ==
    \/ lim.max_daily_loss > 0 /\ c.daily_pnl <= -lim.max_daily_loss
    \/ lim.max_total_drawdown > 0 /\ c.current_pnl <= -lim.max_total_drawdown

CoolingDown(lim, since) ==
    lim.min_between_trades > 0 /\ since # NeverTraded /\ since < lim.min_between_trades

CheckOrder(lim, c, o, since) ==
    /\ Active(c)
    /\ ~OutsideScope(lim, o)
    /\ ~AtMaxOpenPositions(lim, c)
    /\ ~AtMaxTradesPerDay(lim, c)
    /\ ~OverPositionPct(lim, c, o)
    /\ ~PastLossLimit(lim, c)
    /\ ~CoolingDown(lim, since)

-----------------------------------------------------------------------------
(***************************************************************************)
(* applyFillToCapsule.  The day rolls only here, on a fill; the fee is 0   *)
(* on every path (no adapter reports one).                                 *)
(***************************************************************************)
\* Mutated form of RollDay.
RollKeepsTradeCount(c, today) ==
    IF c.daily_pnl_reset_date \in {NoDate, today}
    THEN [c EXCEPT !.daily_pnl_reset_date = today]
    ELSE [c EXCEPT !.daily_pnl_reset_date = today, !.daily_pnl = 0]

\* Mutated form of RollDay.
RollForgetsTotalPnl(c, today) ==
    IF c.daily_pnl_reset_date \in {NoDate, today}
    THEN [c EXCEPT !.daily_pnl_reset_date = today]
    ELSE [c EXCEPT !.daily_pnl_reset_date = today, !.daily_pnl = 0, !.trades_today = 0,
                   !.current_pnl = 0]

RollDay(c, today) ==
    IF c.daily_pnl_reset_date \in {NoDate, today}
    THEN [c EXCEPT !.daily_pnl_reset_date = today]
    ELSE [c EXCEPT !.daily_pnl_reset_date = today, !.daily_pnl = 0, !.trades_today = 0]

\* The share of the cost basis that selling qty units releases.
CostClosed(c, qty) ==
    IF c.open_position_qty > 0
    THEN (c.open_position_cost * Smaller(qty, c.open_position_qty)) \div c.open_position_qty
    ELSE 0

\* The USD an adapter reports for a filled order.  The sim adapter multiplies
\* size by price; polymarket and coinbase take the size of a BUY as USD.
UsdEquivalent(o) ==
    IF o.venue # "sim" /\ o.side = "BUY" THEN o.size ELSE (o.size * o.price) \div PriceScale

FillOf(o) == [side |-> o.side, qty |-> o.size, usd |-> UsdEquivalent(o)]

\* What a fill does to a capsule whose day is current.
Bought(c, fill) ==
    [c EXCEPT !.open_position_qty  = @ + fill.qty,
              !.open_position_cost = @ + fill.usd,
              !.capital_deployed   = AtLeastZero(@ + fill.usd),
              !.open_positions     = IF c.open_position_qty = 0 THEN @ + 1 ELSE @]

\* Mutated form of Sold.
SoldReleasesProceeds(c, fill) ==
    LET cost     == CostClosed(c, fill.qty)
        leftOver == c.open_position_qty - Smaller(fill.qty, c.open_position_qty)
    IN  [c EXCEPT !.open_position_qty  = leftOver,
                  !.open_position_cost = @ - cost,
                  !.capital_deployed   = AtLeastZero(@ - fill.usd),
                  !.open_positions     = IF leftOver = 0 THEN AtLeastZero(@ - 1) ELSE @,
                  !.current_pnl        = @ + (fill.usd - cost),
                  !.daily_pnl          = @ + (fill.usd - cost)]

\* Mutated form of Sold.
SoldUncountsEverySell(c, fill) ==
    LET cost == CostClosed(c, fill.qty)
    IN  [c EXCEPT !.open_position_qty  = @ - Smaller(fill.qty, @),
                  !.open_position_cost = @ - cost,
                  !.capital_deployed   = AtLeastZero(@ - cost),
                  !.open_positions     = @ - 1,
                  !.current_pnl        = @ + (fill.usd - cost),
                  !.daily_pnl          = @ + (fill.usd - cost)]

Sold(c, fill) ==
    LET cost     == CostClosed(c, fill.qty)
        leftOver == c.open_position_qty - Smaller(fill.qty, c.open_position_qty)
    IN  [c EXCEPT !.open_position_qty  = leftOver,
                  !.open_position_cost = @ - cost,
                  !.capital_deployed   = AtLeastZero(@ - cost),
                  !.open_positions     = IF leftOver = 0 THEN AtLeastZero(@ - 1) ELSE @,
                  !.current_pnl        = @ + (fill.usd - cost),
                  !.daily_pnl          = @ + (fill.usd - cost)]

ApplyFill(c, fill, today) ==
    LET rolled == RollDay(c, today)
        moved  == IF fill.side = "BUY" THEN Bought(rolled, fill) ELSE Sold(rolled, fill)
    IN  [moved EXCEPT !.trades_today      = @ + 1,
                      !.capital_available = AtLeastZero(c.capital_allocated - moved.capital_deployed)]
=============================================================================
