# A TLA+ verification of the trading core of polymarket-agents

The repository runs trading agents on a simulator, Polymarket and Coinbase.
Agents, strategies and markets are data and numerics. What can go wrong in ways
no unit test shows is the machinery between a decision and a venue: an order
router with gates, the risk envelopes (capsules) it enforces and updates, a kill
switch, an audit log, and several processes sharing one SQLite database. This
directory models that machinery, checks it with TLC and proves part of it with
TLAPS.

Paths below are relative to the repository root.

## 1. The system

```
 web server (apps/web)             arena worker (scripts/arena-tick.ts)      other scripts
   POST /api/venue/submit            routeArenaSignal                        apply-risk-budget, auto-promote,
   POST/DELETE /api/risk/halt        refreshCapsuleRealtime                  worker-reconcile, worker-*-exec
          |                               |                                        |
          v                               v                                        |
   ExecutionRouter (one per process) ---- 6 gates ---> VenueAdapter (sim, polymarket, coinbase)
     orders map, lastSubmitAt, RiskEngine, KillSwitch: in memory                   |
          |                               |                                        |
          v                               v                                        v
   SQLite: capsules (one row per envelope), order_events (hash chain), evolution_log, paper_agents
```

| Component | State it keeps | Operations | What makes it correct |
|---|---|---|---|
| Router, `packages/core/src/venue/router.ts` | ids seen, time of the last hand-off per (capsule, symbol, side), both in memory | `submit` | an id reaches a venue at most once; nothing goes out while halted; the log announces exactly what is sent; fills are journaled once |
| Risk engine, `packages/risk/src/engine.ts` | halt flag, times of approved orders, equity baseline of the day | `check`, `setHalted`, `forceRollDay` | the rate window holds at its boundary; the daily loss stops orders |
| Kill switch, `packages/risk/src/kill-switch.ts` | halted, brokersHalted | `haltAll` (awaits every venue), `resume` | it says what the operator last asked |
| Capsule gate and journal, `packages/risk/src/capsules/{gate,journal}.ts` | none (pure) | `checkOrder`, `applyFillToCapsule` | caps hold over any sequence of fills; no money appears; day counters describe a day |
| Capsule store, `capsules/store.ts`, `/api/capsules` | table `capsules` | create, setStatus, updateRealtime, delete | no update is lost |
| Audit log, `packages/core/src/venue/order-events.ts` | table `order_events` | append, verify | gapless, verifiable, complete |
| Adapters, `packages/adapters/*` | what was executed today, in `evolution_log` | `submit`, `cancelAll` | daily cap; an answer says what happened |
| Arena worker, `scripts/arena-tick.ts`, `src/lib/arena/{sim,live-capsule}.ts` | cash, positions and counters of paper agents (one row each), their trade log | decide, execute or route, record; tick count | the books are what the log adds up to; a live position ends with a live order or its settlement |
| Settlement, `arena/binary-resolver.ts` | settled binaries | settle, close positions | every position on a settled binary is paid out once |
| Fill reconciler, `arena/reconcile-polymarket.ts` | filled shares on positions | list, match, write | a fill reaches its own position, and undoes nothing newer |
| Evolution, `arena/evolve.ts` | generations, who is alive, who is elite | rank, cull, seal, breed | one generation is open, runs its term and has a successor; nobody is forgotten |
| Guards of the seal: `capsules/circuit-breaker.ts`, `portfolio/cluster-killswitch*.ts` | none | pause capsules | losses that add up across capsules stop them; a trip lasts until the operator acts |
| Auto-promotion, `arena/auto-promote.ts`, `fitness-allocation.ts` | status and capital of auto-live capsules | select, allocate, pause, create, rebalance | who is live are those chosen, with the budget between them |
| OMS reconciler, `packages/oms/src/reconcile` | mirror of venue orders | one pass | reaches a fixed point, never undoes newer state |
| Release stages, `packages/oms/src/stages` | `strategy_versions.stage` | `setVersionStage` | no rung is skipped |

What is hard here:

- **Interleaving.** `submit` awaits twice, so calls interleave with each other,
  with halts, resumes and operator edits. Checks are made before an await and
  relied on after it.
- **Several processes, one database.** Each has its own router, ids, halt flag
  and rate window; the capsule rows and the audit log are shared.
- **Crash and restart.** A supervisor restarts processes. Memory is lost between
  any two steps, the database is not. The arena's loop gives up on a slow tick by
  killing the shell around it (`scripts/worker-arena-loop.ts:91`), so two ticks
  can run at once.
- **Time.** Rate windows, cooldowns and the UTC day; the day of a capsule only
  rolls on a fill.
- **Partial failure.** Adapters throw or time out; the router swallows failures
  of the audit append and of the journal.

`PROJECT.json` lists every hazard at its line, with the properties that watch it
or the reason none does yet.

## 2. The modules

| Module | Models | State and actions |
|---|---|---|
| `CapsuleEnvelope` | `capsules/gate.ts`, `capsules/journal.ts` | operators on a capsule row: `CheckOrder` with one named test per refusal, `ApplyFill` made of `RollDay`, `Bought`, `Sold` |
| `RiskEngine` | `engine.ts` | operators on an engine record: `Approves` (the verdict of `check`) and `AfterCheck` (what it leaves behind, rejected or not) |
| `ExecutionRouter` | `router.ts`, `kill-switch.ts`, `maker-only-gate.ts`, the capsule API | one process; see below |
| `OrderLifecycle` | the promise of `docs/skills/SKILL.md` | abstract: an id is new, then refused, or working and then settled; nothing is sent while halted |
| `CapsuleLedger` | the journal over time, the arena's routing, `apply-risk-budget.ts` | one capsule, its orders one after another over several days, with independent books beside it |
| `OrderEvents` | `order-events.ts` on SQLite in WAL mode | several processes appending; `verifyChain` |
| `ArenaGenerations` | `arena-tick.ts`, `runEvolveOnce`, the loop around them | processes that tick, evolve, overlap and die over two shared tables |
| `CapsulePromotion` | the end of `runEvolveOnce`: breaker, cluster switches, `runAutoPromote` | one pass over the capsule rows, beside the operator and the market |
| `ArenaBasket` | `sim.ts`, `arena-tick.ts`, `binary-resolver.ts`, `reconcile-polymarket.ts`, the realization in `evolve.ts` | one database statement per step over rows that every process reads, changes in memory and writes back |
| `ExecutionRouterProofs`, `OrderEventsProofs`, `CapsuleLedgerProofs`, `ArenaGenerationsProofs`, `CapsulePromotionProofs`, `ArenaBasketProofs` | | theorems about the module of that name |
| `CapsuleEnvelopeProofs`, `FiniteSums` | | lemmas: what the journal does to each column of a row; sums over finite sets |
| `MC*` | | the instances TLC checks |

`ExecutionRouter` EXTENDS `CapsuleEnvelope` and `RiskEngine` and instantiates
`OrderLifecycle`; `CapsuleLedger` EXTENDS `CapsuleEnvelope`; the other modules
stand alone. A definition introduced by "Mutated form of X" is X with a plausible bug:
it is used by no other definition, and is there to show that a property notices.

### ExecutionRouter

JavaScript runs one section at a time, so an action is the code between two
awaits:

| Code | Action |
|---|---|
| `submit`, the id is known | `Duplicate` |
| halt gate or capsule gate refuses | `RefusedAtEntry` |
| both pass, up to `await snapshotPortfolio` | `Admit` |
| `RiskEngine.check` refuses | `RefusedAtRisk` |
| adapter lookup, availability, capability, maker-only gate refuse | `RefusedAtVenue` (the engine has already counted the order) |
| all pass, up to `await adapter.submit` | `HandOff` |
| the adapter answers or throws | `Answered`: log, then journal |
| `haltAll`, up to its await / after it | `HaltAll`, `PauseNewOnly` / `HaltDone` |
| `resume` | `Resume` |
| PATCH and DELETE `/api/capsules/[id]` | `SetStatus`, `DeleteCapsule` |
| process killed: anywhere, and inside a synchronous section between two database writes or before a request | `Restart`, `KilledBeforeHandOff`, `KilledBeforeJournal` |

`orders`, `lastSubmitAt`, `engine` and `killSwitch` are the fields of those
names. `capsules` and `events` are tables and survive a restart. `received` is
what the venues got; with `haltRequested`, the field `seen` of a call, and the
fields `life` of a record, it is history that properties refer to. The engine is
always given the empty portfolio, because `snapshotPortfolio` returns nothing
else; `OverExposed` and `PastDailyLoss` are modelled all the same.

Abstractions: money and sizes are integers; a clock unit stands for as much time
as the instance needs (`Minute` units make the rate window, `DayLength` a day);
an adapter's answer is one of the events it leads to; a Coinbase SELL, which the
adapter values at the live bid, is valued at the order's price. The audit append
always succeeds here: what it may do is the subject of `OrderEvents`.

### CapsuleLedger

The orders of one capsule, one at a time, from one source: API clients on any
venue, or the arena worker on Polymarket (`ROUTER_ALLOW_TAKER=1`, without
which the maker-only gate refuses every arena order). The arena's SELL entry buys
the NO token at the adapter while the capsule is journaled a SELL; its exits sell
the reconciled share count; and after every signal, refused ones included, it
overwrites `current_pnl` and `daily_pnl`. Beside the capsule the module keeps
books that the program does not: fills, spend and realized pnl per day, cash paid
and received, units held at the venue. The properties compare the two.
`Uncounted` is what the position gate does not count of a BUY whose size is dollars,
because it multiplies that size by the price. The journal, the fill event and the refresh
of one arena order (`live-capsule.ts:303-342`, `arena-tick.ts:192`) are one step here; a
death between them is not modelled.

### OrderEvents

`appendOrderEvent` is a deferred transaction: the SELECT takes a snapshot
(`BeginAppend`), the INSERT needs the write lock and gets it only if the snapshot
is still the newest (`InsertRow`, otherwise `AppendFails`). better-sqlite3 has no
await inside, but another process has no reason to wait. SHA-256 is ideal: the
digest of a row is its preimage. `written` remembers what the program wrote, so
that an edited row can be told from a sound one. An edit changes the body of a row, of
any age, and leaves its number and hashes alone; deleted rows and rewritten hashes are not
modelled.

### ArenaGenerations

| Code | Action |
|---|---|
| `arena-tick.ts`: find or auto-open a generation, load its agents, elites and pinned agents | `TickStart` |
| one agent decides and its row is written | `Trade` |
| `tick_count + 1`; evolve when due | `TickEnd` |
| `runEvolveOnce`: no generation, or nobody alive | `NothingToBreed` |
| ranking, elites, drawdown demotions, survivors | `Decide` |
| `markElite`, `demoteElite`, `retireAgent` | `Cull` |
| `sealGeneration` / `startGeneration` (throws on a taken number) | `Seal` / `Start` |
| children, carryovers and presets, one insert after each await | `Breed` |
| the process dies anywhere | `Crash` |

A genome is a track record: whether the agent entered, has closed trades, exceeds
the drawdown cap, and a fitness. Which part of the pool survives is the operator
parameter `Survivors`. `Cull` is one step for the writes of one synchronous loop
(`markElite` ... `retireAgent`): a death inside it leaves agents that the next
evolution of the same, still open generation culls. The guards and auto-promotion, which
run after the breeding (`evolve.ts:526-539`), touch neither table and
are module `CapsulePromotion`. `overlapped` and `interrupted` are history: two
ticks ran at once; a process died after its cull and before its last child.

### CapsulePromotion

| Code | Action |
|---|---|
| a seal has culled some agents and bred, and goes on to the guards | `SealBegin` |
| `runCircuitBreaker` | `Breaker` |
| `checkClusters` and its wrapper, which pauses | `Clusters` |
| the overfit gate fails the cohort | `Blocked` |
| ranking, cut, PnL gate, diversity veto, allocation, pausing the rest | `Select` |
| one agent of the rebalance: create, rebalance, reactivate | `Promote` |
| `force-auto-promote.ts` | `ForceBegin` |
| the process dies | `Crash` |
| outside: trading records, fills and errors, `infer-capsule-diversity`, PATCH | `Perform`, `Trade`, `TagProfiles`, `Operator` |

An agent's record is the level of the promotion ladder it passes and a fitness.
`allocateByFitness` is modelled in cents with its rounding. The daily PnL of a capsule is
signed, and a cluster's is the sum of its members', profits included
(`cluster-killswitch.ts:37`). The operator's capsules (`Manual`) may be bound to an agent, as a
championship's are; what keeps auto-promotion away from those is the name it tests,
`AutoLive`, in the query that pauses and in the one that looks for the capsule of an agent
(`Existing`). `settled` and `chosen` are history: whom the last complete pass chose, until
somebody interferes. So is `guarded`: what the guards of the seal under way have paused, less what
the operator has touched since.

A promotion is one step: the two statements of a rebalance (`auto-promote.ts:538-547`) and
the three of a creation (`:559-569`) are not separated, so a death inside one is not modelled. It
would leave new capital on a capsule still paused, which the next pass that chooses the agent
completes, or a draft capsule that no query finds again. One pass runs at a time, although
`force-auto-promote.ts` is a process of its own.

### ArenaBasket

Money paths are modelled one database statement at a time, because nothing spans
two of them: a tick reads the rows of all agents, decides on the copies, inserts
each trade, then writes the whole row back (`Persist`).

| Code | Action |
|---|---|
| `resolveExpiredBinaries`: list, mark settled, read the holders, close each | `TickStart`, `Resolve`, `Close` |
| load all agents; `decide`; `applySignal` on paper | `Load`, `Decide` |
| a live order and the await of its answer | `Decide`, `Answer` |
| the row is written back | `Persist` |
| `realizeOpenPositions` for the agents a seal culls: what the basket is worth, one insert per closed position; `retireAgent` | `SealStart`, `Realize`, `RealizeOne`, `Persist`, `SealEnd` |
| `reconcileFills`: list, read again, write by position index | `RecList`, `RecRead`, `RecWrite`, `RecEnd` |
| the asset's clock and candles; capsules going live or paused | `Expire`, `Candles`, `Switch` |

A strategy is any entry into a market it does not hold and any exit, at the
quotes of `EntryAt` and `ExitAt`; prices are points, `Unit` to the dollar. `stale`
and `torn` are history: which rows somebody wrote since a process read them, and
which agents were hit by a lost update or a death between insert and write.
Properties about books leave those agents out: what is lost there is what the
code loses, and `torn` says when that can happen.

## 3. The runs

Sizes are distinct states of a run with two workers.

| Run | Checks | Instance, and why it is enough |
|---|---|---|
| `RouterGates` (about 600 000) | `TypeOK`, `HaltedUntilResume`, `HaltStopsHandOffs` | two calls; four orders, one for each way through the venue gates; all halt modes with two halts in progress; operator pauses, reactivates and deletes the capsule. Two calls suffice for a call and its rival at each await, two halts for an overlap. |
| `RouterLimits` (about 580 000) | `RateWindow`, `CooldownUnlessOverlapping`, `OvershootBounded`, `BooksMatchAudit` | two calls, four orders against caps of two; five instants with a window of two and a midnight, so that both edges of the window and a day's roll happen. The capsule is not edited or deleted here; `BooksMatch` is proved with that. |
| `RouterRestarts` (about 370 000) | `AtMostOncePerLife`, `CallsOwnTheirIds`, `ImplementsLifecycle`, `HaltDrains` | two calls, two orders, a halt, two lives; every id can be submitted by both calls, before and after the restart |
| `Ledger` (about 507 000) | `TypeOK`, `DeployedIsCostBasis`, `CashConserved`, `DayCountersMatchBookDay`, `PctOvershootBounded`, `SpendBrake` | five fills over three days, four bindings (API on the simulator with tight limits, arena with a daily loss, API with budgets, arena with a position limit); sizes include oversells, and the prices make every proportional cost exact, as in the program's floating point. Under the last binding a buy really takes the deployed capital past the limit. |
| `EventChain` (about 205 000) | `TypeOK`, `SeqGapless`, `VerdictIsExact`, `ChainedAsWritten` | three processes, two bodies, five commits, two edits (one to break a row, one to restore it or break another) |
| `Generations` (about 330 000) | `TypeOK`, `OneOpenGeneration`, `NoForgottenAgents`, `FullTerm`, `StallsOnlyAfterAccident`, `Succession` | two ticks that may overlap, two deaths, three generations of two ticks each, one elite; every record (fresh, winner, modest, drawn down). Three generations let a demoted elite outlive its own by two. |
| `Promotion` (about 8.7 million; two to four minutes) | `TypeOK`, `LiveAreTheChosen`, `CapitalAddsUp`, `CapitalFollowsFitness`, `ManualUntouched`, `ClusterLossContained` | three agents for two places, two of one family; two manual capsules of the third agent's family, one bound to that agent and of an asset class of its own; two outside events and a death between any number of passes. Losses and profits are such that one capsule trips its family, that profits keep an asset class below its cap, and that pausing the family takes such a profit away. |
| `PromotionLive` (about 147 000) | `RetiredLoseCapital` | the same with one outside event and no losses: the temporal check needs the smaller graph |
| `Basket` (about 394 000) | `TypeOK`, `BooksMatchLog`, `CashAccounted`, `MaxLossIsStake`, `FillOnItsPosition`, `PaidOut` | one agent, a binary that it sells and a product that it buys, two entries, one capsule switch, one death; a tick process and the reconciler, which read and write the same row between any two statements of each other. More agents, tick processes, and sales of products are the theorems' (section 4). |

The other three runs each check one statement of the documentation that the code
does not keep; TLC's counterexample is the finding in `PROJECT.json`:

| Run | The documentation | The code |
|---|---|---|
| `RouterDailyLoss` | orders are refused past the daily loss (`safety-gates.md:44`) | equity is always 0, the test never runs |
| `SealReactivates` | a tripped capsule "isn't immediately re-promoted in the same seal" (`evolve.ts:523`) | auto-promotion reactivates every chosen agent's capsule that is not live, those the guards of the same seal have just paused (`guarded`) included |
| `LiveExitsPaper` | live agents' signals route through the router "instead of the pure-sim apply path" (`live-capsule.ts:4`) | a seal, or a tick after the capsule was paused, closes a real position in the books only |

Bounds, all constants of the modules: `MaxNow`, `MaxHalting`, `MaxLives`
(router); `MaxDay`, `MaxFills` (ledger); `MaxCommits`, `MaxEdits` (log); `MaxGen`,
`MaxTrades`, `MaxCrashes` (generations); `MaxEvents`, `MaxCrashes` (promotion);
`MaxEntries`, `MaxEvents`, `MaxCrashes` (basket). No run checks for deadlock: each
system may stop, when its orders are used up and the operator does nothing, or at
a bound.

**What the properties say.** `AtMostOncePerLife` is the idempotency gate under
interleaving. `HaltStopsHandOffs` covers the calls that had passed the halt gate
before the halt: the risk engine's own test of the flag is what stops them.
`OvershootBounded` and `CooldownUnlessOverlapping` say exactly how much the stale
reads cost: one trade per further call in flight, and nothing for calls that do
not overlap. `BooksMatchAudit` relates the capsule's counter to the audit log
(a kill between the two leaves the capsule behind, which nothing repairs). `VerdictIsExact` says that
verification neither rejects an untouched log nor names the wrong row.

`FullTerm`, `StallsOnlyAfterAccident` and `NoForgottenAgents` say which accident it
takes for a generation to be cut short, for evolution to stop behind an
auto-opened generation, and for an agent to stay alive out of reach;
`OneOpenGeneration` and the sealing half of `Succession` hold whatever happens.
The agents `NoForgottenAgents` excuses as `demoted` are real: an elite that loses
its status stays alive in a generation sealed long ago. `BooksMatchLog` says the
row is the sum of the log, and with `CashAccounted` finds every cent, the one that
settlement drops included: a live entry locks the stake asked for, and settlement
returns what was paid (`gap`).

**Symmetry** is used in `RouterGates`, `RouterLimits` (the two calls) and
`EventChain` (the processes), which check no liveness; calls and processes are
interchangeable there.

**Fairness.** Of the router, `FairSpec` assumes weak fairness of two actions of
every call: `Continue` (the event loop runs a continuation that is ready) and
`Answer` (an adapter's promise settles: its HTTP requests and child process end or
fail). Nothing is assumed of clients, the operator, halts or the clock. Of the
arena, weak fairness of `Advance(p)` and `Tick(p)`: the worker loop keeps starting
ticks and a process that is not killed goes on; of the promotion pass, weak
fairness of `SealBegin` and of `Advance`, for the same reason. Deaths, the overlap
of ticks, the market and the reconciler are never assumed. Liveness properties:
`HaltDrains`, `Succession`, `PaidOut` and `RetiredLoseCapital`; the last is
conditional on seals that get past the overfit gate and promote somebody, since
one that does not returns before it pauses anybody.

## 4. The proofs

`ExecutionRouterProofs` proves about `ExecutionRouter`, for every set of calls,
orders, capsules and limits and any number of restarts:

| Theorem | States |
|---|---|
| `TypeCorrect` | `[]TypeOK` |
| `CallsOwn` | `[]CallsOwnTheirIds` |
| `AtMostOnce` | `[]AtMostOncePerLife` |
| `HaltStops` | `HaltStopsHandOffs`, if `RiskLimits.enabled` |
| `Implements` | `ImplementsLifecycle`, if `RiskLimits.enabled` |

Assumptions: those of the modules (`InputsAssumption`, `ClockAssumption`,
`PriceScaleAssumption`), which TLC evaluates in each run. `RiskLimits.enabled` is
needed because `RISK_ENABLED=0` turns the engine off, its halt test included.

`AtMostOncePerLife` is not inductive: nothing in it forbids a call about to send
an id already sent. The invariant that is, `CallsOwnTheirIds`, has four parts:

1. `TracesAreRegistered`: what left a trace in this life, in the log or at a
   venue, is in the orders map, and so are the ids of the calls in progress;
2. `OneOwner`: no two calls in progress have the same id;
3. `CheckedLeftNoTrace`: before its hand-off a call's id has left no trace;
4. `SentIsWorking`: after it, the id's last trace is the hand-off.

Part 1 makes `Admit` preserve 2 and 3, 3 makes `HandOff` preserve
`AtMostOncePerLife`, and 4 makes `Answered` a step from working to settled. The
refinement then maps each action to a step of `OrderLifecycle` or a stutter, the
status of an id being read off the audit log. A kill maps to a restart, as it
starts a life in which the log is empty.

About times and counts, again for every number of calls, orders, capsules and (but
where said) lives:

| Theorem | States | Assumes |
|---|---|---|
| `HaltedUntil` | `[]HaltedUntilResume` | `MaxLives = 1`: a restart forgets a halt |
| `CooldownHolds` | `[]CooldownUnlessOverlapping` | `CooldownsTyped`: each `min_between_trades` is a number |
| `RateHolds` | `[]RateWindow` | `RateTyped`: limits enabled, `max_orders_per_minute` is a number |
| `BooksMatch` | `[]BooksMatchAudit` | `MaxLives = 1`: a kill between log and journal forgets a fill |
| `OvershootHolds` | `[]OvershootBounded` | `MaxLives = 1`, and `CountsTyped`: finitely many calls, each cap a number |

`CooldownHolds` rests on `CooldownInv`: `lastSubmitAt` is not older than any hand-off
of this life (`Remembered`), so a call that passes the gate is a cooldown away from
all it has seen, and stays so while it waits, because time only grows (`Cooled`).
`RateHolds` rests on `RateInv`: there is a map that gives every hand-off of this life
a place of its own in the engine's queue of times, the place holding its time, or a
place below 1 if it was shifted off, and then it is older than a minute. Pruning
shifts all places, an approval appends one, a rejection may prune; so the recent
hand-offs inject into a queue that `check` found not full (`Placed`, from the
library's `FS_Injection`). Without the map the invariant would have to count.
`BooksMatch` rests on `BooksInv`: no fill in the log is later than the book day of its
capsule, nor that day than today (`BookDayIsLast`), so the first fill of a new day
starts the counter where the log has none; `FilledOn` then grows by the one event
that is journaled. `OvershootHolds` adds `RoomLeft`: the fills of a day together with
the calls in flight never exceed the cap by more than the number of calls less one. A
call enters the count when it passes the gate, which saw fewer fills than the cap, and
leaves it when its fill enters; the counter the gate reads is the log's, by `BooksInv`.

`CapsuleLedgerProofs`, on the lemmas of `CapsuleEnvelopeProofs`, proves about
`CapsuleLedger`, for any orders, signals, limits, budgets and number of days and fills:

| Theorem | States |
|---|---|
| `TypeCorrect` | `[]TypeOK` |
| `CostBasisDeployed` | `[]DeployedIsCostBasis` |
| `CashIsConserved` | `[]CashConserved` |
| `DayCountersMatch` | `[]DayCountersMatchBookDay` |
| `Brakes` | `SpendBrake` |
| `PctBounds` | `[]PctOvershootBounded` |

`LedgerAssumption` says amounts are not negative, prices are positive and limits are numbers,
`OneSource` that a capsule has one driver. `LedgerInv` adds to the properties that nothing was
spent on days to come, that the book day is the last with a fill (`BookDayIsLast`) and,
for the brake, that `daily_pnl` is at most minus the day's spend (`PnlCoversSpend`), which
survives a sale because a fill's realized pnl never exceeds its proceeds. The rounding
of a proportional cost is covered: `ShareOf` bounds it between nothing and the whole
cost, and conservation needs no more.
`PctBounds` needs that the deployed capital, the gate's input, is what earlier orders really
cost, on every venue: then an order that passes the gate can exceed the limit by its own
uncounted part only (`PctAfterFill`), sales lower the sum, and on the simulator, where
nothing is uncounted, the bound is the limit itself. It holds until a budget changes the capital.

`OrderEventsProofs` proves about `OrderEvents`, for any number of processes,
commits and edits:

| Theorem | States |
|---|---|
| `TypeCorrect` | `[]TypeOK` |
| `Chained` | `[]ChainedAsWritten` |
| `Gapless` | `[]SeqGapless` |
| `Exact` | `[]VerdictIsExact` |

The only assumption on the constants is `BoundsAssumption`; that a digest gives
its preimage away is how the model defines `Hash`, not an axiom.
`SeqGapless` is not inductive, as it says nothing of the snapshots that are about
to become rows. `ChainedAsWritten` adds that a snapshot no commit has outdated
continues the last row (`NewestContinues`): any commit, of whatever table,
outdates all the others, so an append that succeeds extends the chain. It also
adds that each row's hash commits to its number, its body as written and the
previous hash (`RowsAsWritten`): an edit of a body changes none of these.
`Exact` then needs two facts: appending is injective, so the rows that fail
verification are those whose body is not the written one; and a non-empty set of
naturals has a least element (`MinIsLeast`, from the well-foundedness of strict
inclusion among finite sets), so the row that is named exists.

`ArenaGenerationsProofs` proves about `ArenaGenerations`, for any number of tick
processes, agents, records, generations and deaths, and any operator `Survivors`:

| Theorem | States |
|---|---|
| `TypeCorrect` | `[]TypeOK` |
| `OneOpen` | `[]OneOpenGeneration` |
| `RunsItsTerm` | `[]FullTerm` |
| `NeverStalls` | `[]StallsOnlyAfterAccident` |
| `NobodyForgotten` | `[]NoForgottenAgents` |

The only assumption is `ArenaAssumption`. The invariant has three layers, each of
which uses the one below. `Inv` holds whatever happens: a process about to open a
generation has sealed the one before, so a successor is never inserted behind an
open one. `Regular` adds what holds until two ticks overlap: one process at most is
not idle (`Alone`), and it evolves a generation that is due (`OnTime`). `Smooth`
adds what holds while, besides, nobody has died between a cull and the last child:
the open generation has somebody alive in it, and everybody alive is of it, an elite
or a former elite. The excuses of the properties are thus exactly the hypotheses of
the layers.

`CapsulePromotionProofs` proves about `CapsulePromotion`, for any finite sets of agents,
capsules and scores, any budget and thresholds (`PromotionAssumption`):

| Theorem | States |
|---|---|
| `TypeCorrect` | `[]TypeOK` |
| `ChosenAreLive` | `[]LiveAreTheChosen` |
| `FitnessDecides` | `[]CapitalFollowsFitness` |
| `BudgetIsSpent` | `[]CapitalAddsUp` |
| `ManualIsUntouched` | `ManualUntouched` |
| `ClustersContain` | `ClusterLossContained` |

What makes the first invariant inductive is `HalfDone`: between the choice and the last
promotion nobody but the chosen is at work and those already promoted are live, unless
the operator touched an agent's capsule meanwhile. The theorems about capital rest on
`FundInv`: the plan of a pass is `Fair` (floors, order of fitness, total within half a cent
each), and a capsule already rebalanced is `Near` it, within the cent a rebalance leaves
alone. `ManualIsUntouched` is about every step of the process, each single promotion
included: a promotion finds or creates a capsule by its name (`RebalancedOwn`), whoever a manual
one is bound to. `ClustersContain` splits the PnL of a cluster into that of the members left at
work, and of those paused; the latter is at most its profits (`SumWithoutLosses`), so a cluster
that did not trip has lost, but for these profits, less than its share in the members left. That `allocateByFitness`
returns a fair plan is `PlanIsFair`, a fact about rounded shares and their sum.

Sums over sets are folds, whose laws need induction. `FiniteSums` derives them without
an induction theorem: were a law false of some subset of a finite set, it would be false of a
smallest one (`Smallest`, from the well-foundedness of strict inclusion), and removing
one element of it gives a contradiction. Since the fold is defined by choosing an
element, that the order does not matter (`SumsInAnyOrder`) is proved first.

`ArenaBasketProofs` proves about `ArenaBasket`, for any agents, processes, markets,
quotes, stakes, fees and any number of entries, switches and deaths:

| Theorem | States |
|---|---|
| `TypeCorrect` | `[]TypeOK` |
| `FillsLand` | `[]FillOnItsPosition` |
| `BooksMatch` | `[]BooksMatchLog` |
| `CashIsAccounted` | `[]CashAccounted` |
| `MaxLoss` | `[]MaxLossIsStake`, if `Covered` |

It assumes `BasketAssumption`: prices of binaries are strictly between 0 and a dollar and
those of products above a dollar (`genome.ts:45` trades BTC, ETH and SOL), so that no
formula divides by 0. Every step of a tick is one of four kinds (`Progress`): it moves on,
reading rows (`Moved`); inserts a trade and changes its copy (`Recorded`); writes a row
(`Wrote`); or dies (`Died`). The properties are then shown of the kinds, not of the
actions one by one. The invariants are layered:

1. `Basic`: types, and what each process can have in hand at each place;
2. `Sound` and `RecKept`: shares are on live positions only; what the reconciler knows
   of an order is still true of the position it is about to write, unless somebody wrote that
   row since, which makes the write a lost update (`FillInv`);
3. `Current` and `Books`: a copy nobody overtook equals the row until its reader trades on
   it; log and row match, except between an insert and its write, where log and copy do
   and no second process is in that place with a current copy (`BooksInv`);
4. `Solvent` and `LossesBounded`: no row or copy has negative cash or a negative stake,
   and no record loses more (`LossInv`). These hold of torn agents too.

`Covered` is needed by 4 alone: what a product is sold for must cover the exit fee. A
product that lost nearly everything would take more than the stake with its fee, the cash
could go below 0, and an entry of `min(entry_size, cash)` dollars would then be an entry of a
negative size, which the guard at `sim.ts:1034` lets through.

Only model-checked: liveness, which is beyond the proof system used: `HaltDrains`,
`Succession`, `PaidOut` and `RetiredLoseCapital`. Every safety property of a passing run
is proved above, under the hypotheses given. The three runs that end in a violation
are TLC's alone, and so are the mutants.

## 5. What the models show beside the properties

Facts met while modelling. The code may well intend them; each is visible in a
model, and is where a reader of the code is likely to be surprised.

- Router: a restart forgets the submitted ids (`router.ts:37`, against
  `SKILL.md:28`) and a halt (`kill-switch.ts:36`, against `safety-gates.md:24`); a
  failed audit append is swallowed (`router.ts:349`, against `:31`).
- Capsule gate: at its trade cap a capsule never trades again, since only a fill
  rolls the day (`gate.ts:44`, against `safety-gates.md:32`); at its position cap it
  cannot close either (`gate.ts:40`, against `:31`).
- `max_position_pct` is the limit of the deployed capital on the simulator only. The gate
  multiplies a BUY's size by its price (`gate.ts:51`); on the real venues that size is dollars
  already (`packages/adapters/polymarket/src/adapter.ts:113`), and the journal books it as
  such. The deployed capital can pass the limit there, by the uncounted part of one order
  (`PctOvershootBounded`). At 20 cents, a limit of half the capital, as championship capsules
  have (`championship.ts:60`), lets an order of all of it through; `docs/skills/capsules.md:111`
  calls the limit a "strict bankroll bound".
- Cluster switches: which clusters trip is decided before anything is paused, so pausing one
  cluster can take away the profits that had kept another below its cap. Of $3000 at work, X
  (family F1, crypto) has won 100, Y (F1, equity) lost 220, Z (F2) and W (F3), both crypto, lost
  90 each, V (F4) won 100. F1 has lost 120, its 4%, and X and Y are paused; crypto stood at
  -80, does not trip, and what is left of it stands at -180, 6%, until the next seal.
  `ClusterLossContained` allows for exactly such profits.
- `refreshCapsuleRealtime` stores the day's spend in `daily_pnl` (`live-capsule.ts:367`),
  which the gate reads as a realized loss (`gate.ts:62`).
- Auto-promotion: the equal-split fallback throws where the weighted one does
  (`auto-promote.ts:449`, `fitness-allocation.ts:74`); the cut to the top N precedes
  the PnL gate, so places stay empty; an agent can be vetoed for resembling a
  capsule the same pass is about to pause; a cohort that fails the overfit gate is
  not promoted, and nobody is paused either; a capsule has no diversity profile, and
  so no cluster, until a separate script runs.
- Evolution: a generation opened as a throughput vessel is never sealed, so that one
  death at the wrong moment stops evolution for good; agents in a sealed
  generation that are no longer elite are neither ticked nor culled.
- Basket: a Coinbase short (`sim.ts:228`) is closed by the formula for prices between 0 and
  1 (`sim.ts:1074`), whose denominator is negative above a dollar: it earns when the price
  rises and loses at its own target; the fallback share count takes the YES price for NO tokens
  (`binary-resolver.ts:125`); an exit without a known token is refused, where
  `live-capsule.ts:62` says it falls back to the simulator; a live fill whose fee
  no longer fits the cash leaves a real position the books do not have
  (`sim.ts:1034`); trade and row are two statements, where `arena-tick.ts:8` speaks
  of a transaction per agent.
- OMS reconciliation: a drift without a remote record is reported on every pass,
  against the comment at `loop.ts:58`.

## 6. Not modelled, and the plan

Left for a continuation, in this order:

1. `DailyCap`: the caps inside the Coinbase and Polymarket adapters, checked
   before an await, and submissions that execute but whose answer is lost. Same
   shape as the router's trades-per-day cap, whose overshoot is bounded there.
2. `CapsuleJournal`: several processes over one capsule row. `ArenaBasket` has the
   same pattern on agents' rows.
3. `Reconciler` and `ReleaseStages` of the OMS: nothing in the order path reads
   what they write.
4. `Fleet`: two `ExecutionRouter` processes over one database.

Not modelled at all, because nothing of it is control that a model checker can
say something about: strategies, quant and backtests, the decision pipeline's
scores, genomes and fitness, the statistics of the overfit battery, championships
and meta-evolution, model training, market-data feeds and caches, the web pages,
the Aave bridge tool. These are most of the repository's lines.

Left out of modelled components: the operator's PATCH of a capsule's realtime
columns (it can set anything), `recordSignalSnapshot` (a row nothing reads back),
database failures other than those of the audit append, multi-leg signals, the EV
and Kelly sizing rails, mark-to-market, fills reconciled in several parts, the
seven-day filter on retired agents, the `reduce_size` tier (only logged), and the
decision pipeline between an arena signal and its order, which is off unless two
environment flags are set.
