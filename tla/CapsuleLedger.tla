----------------------------- MODULE CapsuleLedger -----------------------------
(***************************************************************************)
(* One active capsule, its orders one at a time: what the gate lets        *)
(* through, what the journal makes of every fill, how the day counters and *)
(* the capital fields evolve over several days.  Orders come from the HTTP *)
(* route (ApiOrder) or from the arena worker (ArenaEntry, ArenaExit), which *)
(* clamps entries to the capital the capsule says it has.                  *)
(*                                                                         *)
(* Interleaved submissions are the subject of module ExecutionRouter.      *)
(***************************************************************************)
EXTENDS CapsuleEnvelope, FiniteSetsExt

CONSTANTS
    Bindings,      \* what may drive the capsule, and the limits it was created with
    Allocated,     \* capital_allocated_usd
    NoTokenOf,     \* YES token -> its NO token
    ExitPrices,    \* prices at which the arena closes a position
    AgentPnls,     \* realized + unrealized pnl the paper agent may show
    MaxTradeUsd,   \* MAX_TRADE_USD
    MaxDay,        \* bound: last day
    MaxFills       \* bound: fills of a behaviour

\* A binding is [limits, orders, signals, budgets]: the limit columns, the orders
\* clients post to /api/venue/submit, the entry signals of the bound paper agent,
\* the budgets apply-risk-budget.ts may write.  The day's live-capsule-fill events
\* cover the fills of an arena capsule only when the arena alone drives it.
ASSUME OneSource == \A b \in Bindings : b.orders = {} \/ b.signals = {}

\* Amounts are not negative (the route requires positive sizes and prices, a
\* signal's price is inside (0, 1)); a limit and the paper agent's pnl may be any
\* number.
ASSUME LedgerAssumption ==
    /\ Allocated \in Nat /\ MaxTradeUsd \in Nat /\ MaxDay \in Nat
    /\ ExitPrices \subseteq Nat /\ AgentPnls \subseteq Int
    /\ \A b \in Bindings :
          /\ b.limits.max_daily_loss \in Int /\ b.limits.max_position_pct \in Int
          /\ \A o \in b.orders : o.side \in {"BUY", "SELL"} /\ o.size \in Nat /\ o.price \in Nat \ {0}
          /\ \A s \in b.signals : s.size_usd \in Nat /\ s.price \in Nat \ {0}
          /\ \A g \in b.budgets : g.capital \in Nat

Days == 0..MaxDay
Tokens == DOMAIN NoTokenOf \cup {NoTokenOf[t] : t \in DOMAIN NoTokenOf}

VARIABLES
    binding,     \* what drives the capsule; constant
    capsule,     \* the row of the capsules table, its realtime columns
    limits,      \* its limit columns
    today,       \* the UTC date
    holdings,    \* at the venue: units of each token the capsule's orders left open
    fillsOn,     \* [day -> fills]
    spentOn,     \* [day -> sum of usdEquivalent over the fill events]
    realizedOn,  \* [day -> realized pnl]
    paid,        \* USD paid for what was bought, all days
    proceeds     \* USD received for what was sold, all days

history == <<fillsOn, spentOn, realizedOn, paid, proceeds>>
vars == <<binding, capsule, limits, today, holdings, history>>

ArenaDriven == binding.signals # {}
BudgetFixed == binding.budgets = {}

Zero == [d \in Days |-> 0]

Init ==
    /\ \E s \in {"paper", "live"} : capsule = NewCapsule(s, Allocated)
    /\ binding \in Bindings
    /\ limits = binding.limits
    /\ today = 0
    /\ holdings = [t \in Tokens |-> 0]
    /\ fillsOn = Zero /\ spentOn = Zero /\ realizedOn = Zero
    /\ paid = 0 /\ proceeds = 0

-----------------------------------------------------------------------------
Realized(fill) == IF fill.side = "BUY" THEN 0
                  ELSE fill.usd - CostClosed(capsule, fill.qty)

\* The books kept beside the program: what each fill moved.  "bought" says what
\* the adapter did at the venue, which is not always the order's side.
Book(fill, bought) ==
    /\ MapThenSumSet(LAMBDA d : fillsOn[d], Days) < MaxFills
    /\ fillsOn' = [fillsOn EXCEPT ![today] = @ + 1]
    /\ spentOn' = [spentOn EXCEPT ![today] = @ + fill.usd]
    /\ realizedOn' = [realizedOn EXCEPT ![today] = @ + Realized(fill)]
    /\ paid' = paid + (IF bought THEN fill.usd ELSE 0)
    /\ proceeds' = proceeds + (IF bought THEN 0 ELSE fill.usd)
    /\ UNCHANGED <<binding, today, limits>>

\* POST /api/venue/submit on a route that fills: gate, then journal.
ApiOrder(o) ==
    /\ CheckOrder(limits, capsule, o, NeverTraded)
    /\ o.side = "SELL" => holdings[o.symbol] >= o.size
    /\ capsule' = ApplyFill(capsule, FillOf(o), today)
    /\ Book(FillOf(o), o.side = "BUY")
    /\ holdings' = [holdings EXCEPT ![o.symbol] =
                       IF o.side = "BUY" THEN @ + o.size ELSE @ - o.size]

\* Mutated form of Refreshed.
RefreshedPnlOnly(c, pnl, spent) == [c EXCEPT !.current_pnl = pnl]

\* refreshCapsuleRealtime: pnl is the paper agent's, spent the day's fill total.
Refreshed(c, pnl, spent) == [c EXCEPT !.current_pnl = pnl, !.daily_pnl = -spent]

ArenaOrder(symbol, side, size, price) ==
    [venue |-> "polymarket", symbol |-> symbol, side |-> side, size |-> size, price |-> price]

ArenaFill(fill, bought, pnl) ==
    /\ capsule' = Refreshed(ApplyFill(capsule, fill, today), pnl, spentOn[today] + fill.usd)
    /\ Book(fill, bought)

EntrySize(sig) == Smaller(sig.size_usd, Smaller(capsule.capital_available, MaxTradeUsd))

\* The arena worker, entry: the size is clamped; a SELL on a binary becomes a
\* BUY of its NO token at the adapter while the order keeps side SELL.
ArenaEntry(sig, pnl) ==
    LET size  == EntrySize(sig)
        token == IF sig.side = "SELL" THEN NoTokenOf[sig.symbol] ELSE sig.symbol
        order == ArenaOrder(sig.symbol, sig.side, size, sig.price)
    IN  /\ size > 0
        /\ CheckOrder(limits, capsule, order, NeverTraded)
        /\ ArenaFill([side |-> sig.side, qty |-> size, usd |-> size], TRUE, pnl)
        /\ holdings' = [holdings EXCEPT ![token] = @ + (size * PriceScale) \div sig.price]

\* The arena worker, exit: SELL the reconciled share count of the filled token.
ArenaExit(token, price, pnl) ==
    LET order == ArenaOrder(token, "SELL", holdings[token], price)
    IN  /\ holdings[token] > 0
        /\ CheckOrder(limits, capsule, order, NeverTraded)
        /\ ArenaFill(FillOf(order), FALSE, pnl)
        /\ holdings' = [holdings EXCEPT ![token] = 0]

\* A signal the router refused: the worker refreshes the capsule all the same.
ArenaRefused(pnl) ==
    /\ capsule' = Refreshed(capsule, pnl, spentOn[today])
    /\ UNCHANGED <<binding, limits, today, holdings, history>>

Rebudgeted(c, b) ==
    [c EXCEPT !.capital_allocated = b.capital, !.capital_available = b.capital,
              !.daily_pnl = 0, !.trades_today = 0, !.daily_pnl_reset_date = today]

\* scripts/apply-risk-budget.ts, run by the operator on the live capsules.
ApplyRiskBudget(b) ==
    /\ capsule.status = "live"
    /\ capsule' = Rebudgeted(capsule, b)
    /\ limits' = [limits EXCEPT !.max_daily_loss = b.daily_loss_cap,
                                !.max_total_drawdown = b.total_dd_cap,
                                !.max_trades_per_day = b.max_trades_per_day]
    /\ UNCHANGED <<binding, today, holdings, history>>

\* UTC midnight: nothing in the program runs.
Midnight ==
    /\ today < MaxDay
    /\ today' = today + 1
    /\ UNCHANGED <<binding, capsule, limits, holdings, history>>

Next ==
    \/ \E o \in binding.orders : ApiOrder(o)
    \/ /\ ArenaDriven
       /\ \E pnl \in AgentPnls :
             \/ \E sig \in binding.signals : ArenaEntry(sig, pnl)
             \/ \E token \in Tokens, price \in ExitPrices : ArenaExit(token, price, pnl)
             \/ ArenaRefused(pnl)
    \/ \E b \in binding.budgets : ApplyRiskBudget(b)
    \/ Midnight

Spec == Init /\ [][Next]_vars

-----------------------------------------------------------------------------
(* Types. *)
TypeOK ==
    /\ binding \in Bindings /\ DOMAIN limits = DOMAIN binding.limits
    /\ capsule \in CapsuleRow
    /\ today \in Days
    /\ holdings \in [Tokens -> Nat]
    /\ fillsOn \in [Days -> Nat] /\ spentOn \in [Days -> Nat]
    /\ realizedOn \in [Days -> Int]
    /\ paid \in Nat /\ proceeds \in Nat

\* The capital the capsule reports as deployed is the cost basis of what it
\* holds: the two columns, patched by different branches of applyFillToCapsule
\* and one of them clamped at zero, never drift apart over any sequence of buys,
\* partial sells and budget changes.
DeployedIsCostBasis == capsule.capital_deployed = capsule.open_position_cost

\* No money appears or disappears in the journal: cumulative pnl is what was
\* received minus what was paid, plus the cost still tied up in open positions.
\* (The arena overwrites current_pnl with its paper agent's.)
CashConserved ==
    ~ArenaDriven => capsule.current_pnl + paid = proceeds + capsule.open_position_cost

\* The day counters describe the capsule's current book day exactly, whatever
\* days went by without a fill.
DayCountersMatchBookDay ==
    ~ArenaDriven /\ BudgetFixed /\ capsule.daily_pnl_reset_date # NoDate =>
        /\ capsule.trades_today = fillsOn[capsule.daily_pnl_reset_date]
        /\ capsule.daily_pnl = realizedOn[capsule.daily_pnl_reset_date]

\* The buys the driver may send to a real venue, whose size is in dollars, and
\* what the gate leaves out of one when it multiplies that size by the price.
DollarBuys ==
    {o \in binding.orders : o.side = "BUY" /\ o.venue # "sim"}
    \cup {ArenaOrder(sig.symbol, "BUY", Smaller(sig.size_usd, MaxTradeUsd), sig.price) :
             sig \in {x \in binding.signals : x.side = "BUY"}}
Uncounted(o) == o.size * (PriceScale - o.price)

\* max_position_pct bounds what a capsule has deployed however the position was
\* built up, and exactly so on the simulator.  The "Strict bankroll bound" of
\* docs/skills/capsules.md:111 does not hold on real venues, where the gate counts
\* a BUY as size * price (gate.ts:51) and the journal as size: there the deployed
\* capital may pass the limit, by the uncounted part of one order and no more,
\* since the gate reads what earlier orders really deployed.
PctOvershootBounded ==
    BudgetFixed /\ limits.max_position_pct > 0 /\ capsule.capital_allocated > 0 =>
        \E over \in {0} \cup {Uncounted(o) : o \in DollarBuys} :
            100 * PriceScale * capsule.capital_deployed
               <= PriceScale * limits.max_position_pct * capsule.capital_allocated + 100 * over

\* With the arena's refresh, the daily-loss limit acts as a spend brake: no
\* fill happens on a day whose fills already total the limit.
SpendBrake ==
    [][ArenaDriven /\ BudgetFixed /\ spentOn' # spentOn /\ limits.max_daily_loss > 0
         => spentOn[today] < limits.max_daily_loss]_vars
=============================================================================
