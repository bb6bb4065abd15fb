------------------------------ MODULE RiskEngine -------------------------------
(***************************************************************************)
(* The global pre-trade risk gate, packages/risk/src/engine.ts: a halt     *)
(* flag, the times of the orders it approved, the equity at the start of   *)
(* the UTC day, and check().  Operators on an engine record; the router    *)
(* module holds the state.                                                 *)
(*                                                                         *)
(* Time is in clock units; Minute of them make the rate window, DayLength  *)
(* of them a UTC day.                                                      *)
(***************************************************************************)
EXTENDS Integers, Sequences, FiniteSets

CONSTANTS Minute, DayLength
ASSUME ClockAssumption == Minute \in Nat \ {0} /\ DayLength \in Nat \ {0}

\* dayStartDate = null
NoDay == -1
DayOf(now) == now \div DayLength

NewEngine == [halted |-> FALSE, orderTimes |-> <<>>, dayStartDate |-> NoDay, dayStartEquity |-> 0]

\* What the router's snapshotPortfolio returns, whatever the venues hold.
EmptyPortfolio == [equity |-> 0, positions |-> <<>>]

SetHalted(e, halted) == [e EXCEPT !.halted = halted]
ForceRollDay(e) == [e EXCEPT !.dayStartDate = NoDay]

MaybeRollDay(e, equity, now) ==
    IF e.dayStartDate = DayOf(now) THEN e
    ELSE [e EXCEPT !.dayStartDate = DayOf(now), !.dayStartEquity = equity]

\* Mutated form of Stale.
StaleTooSoon(times, now) == {n \in DOMAIN times : \A m \in 1..n : times[m] <= now - Minute}

\* The times at the head of the queue that lie before the window.
Stale(times, now) == {n \in DOMAIN times : \A m \in 1..n : times[m] < now - Minute}

\* The while loop that shifts them off.
Pruned(times, now) == SubSeq(times, Cardinality(Stale(times, now)) + 1, Len(times))

\* In price units: limits on notionals are given in the same unit.
Notional(o) == o.size * o.price

Malformed(lim, o) ==
    \/ o.size <= 0
    \/ o.price <= 0
    \/ o.symbol \in lim.forbidden_symbols
    \/ Notional(o) > lim.max_order_notional

OverRate(lim, e, now) == Len(Pruned(e.orderTimes, now)) >= lim.max_orders_per_minute

\* Only a positive baseline counts; ForceRollDay erases it.
PastDailyLoss(lim, e, equity, now) ==
    LET rolled == MaybeRollDay(e, equity, now)
    IN  rolled.dayStartEquity > 0 /\ equity - rolled.dayStartEquity <= -lim.max_daily_loss

QtyOf(portfolio, symbol) ==
    IF symbol \in DOMAIN portfolio.positions THEN portfolio.positions[symbol] ELSE 0

Magnitude(n) == IF n < 0 THEN -n ELSE n

NewNotional(o, portfolio) ==
    LET held == QtyOf(portfolio, o.symbol)
    IN  Magnitude(IF o.side = "BUY" THEN held + o.size ELSE held - o.size) * o.price

OverExposed(lim, o, portfolio) ==
    \/ NewNotional(o, portfolio) > lim.max_position_notional
    \/ /\ QtyOf(portfolio, o.symbol) = 0
       /\ Cardinality({s \in DOMAIN portfolio.positions : portfolio.positions[s] # 0}) + 1
             > lim.max_open_positions
    \/ /\ portfolio.equity > 0
       /\ 100 * NewNotional(o, portfolio) > lim.max_concentration_pct * portfolio.equity

\* Mutated form of Approves.
ApprovesHalted(lim, e, o, portfolio, now) ==
    ~lim.enabled \/ /\ ~Malformed(lim, o)
                    /\ ~OverRate(lim, e, now)
                    /\ ~PastDailyLoss(lim, e, portfolio.equity, now)
                    /\ ~OverExposed(lim, o, portfolio)

\* check().ok
Approves(lim, e, o, portfolio, now) ==
    ~lim.enabled \/ /\ ~e.halted
                    /\ ~Malformed(lim, o)
                    /\ ~OverRate(lim, e, now)
                    /\ ~PastDailyLoss(lim, e, portfolio.equity, now)
                    /\ ~OverExposed(lim, o, portfolio)

\* What check() leaves behind: the queue is pruned before the rate test, the
\* baseline taken after it, and only an approved order's time is recorded.
AfterCheck(lim, e, o, portfolio, now) ==
    LET pruned == [e EXCEPT !.orderTimes = Pruned(@, now)]
        rolled == MaybeRollDay(pruned, portfolio.equity, now)
    IN  IF ~lim.enabled \/ e.halted \/ Malformed(lim, o) THEN e
        ELSE IF OverRate(lim, e, now) THEN pruned
        ELSE IF Approves(lim, e, o, portfolio, now)
             THEN [rolled EXCEPT !.orderTimes = Append(@, now)]
             ELSE rolled
=============================================================================
