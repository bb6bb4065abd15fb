------------------------------ MODULE ArenaBasket ------------------------------
(***************************************************************************)
(* The books of paper agents: cash, positions and counters in one row of   *)
(* paper_agents each, and the trades in paper_trades.  They are written by *)
(*   arena-tick   scripts/arena-tick.ts, which settles expired binaries    *)
(*                (src/lib/arena/binary-resolver.ts), then loads, decides  *)
(*                and persists agent by agent (src/lib/arena/sim.ts), and  *)
(*                sometimes seals (src/lib/arena/evolve.ts)                *)
(*   reconciler   src/lib/arena/reconcile-polymarket.ts, which writes the  *)
(*                fills of live orders onto positions                      *)
(* Every write replaces what an earlier read of the same row was turned    *)
(* into, without a transaction around them, and a tick that its loop gave  *)
(* up on goes on beside the next one.  One statement on the database is    *)
(* one step here; a process may die between any two.                       *)
(*                                                                         *)
(* Prices are in points, Unit points to the dollar; money is in dollars.   *)
(***************************************************************************)
EXTENDS Integers, Sequences, FiniteSets, SequencesExt, FiniteSetsExt, Functions

CONSTANTS
    Agents,     \* paper agents: ids
    Procs,      \* processes that may run arena-tick at the same time
    Binaries,   \* YES tokens of short binaries, priced between 0 and Unit
    Spots,      \* Coinbase products
    Sides,      \* [market -> the sides the genome enters it on]
    EntryAt,    \* [market -> the quotes the genome enters it at]
    ExitAt,     \* [market -> the quotes of its targets and stops]
    Unit,       \* points to the dollar
    Start,      \* cash_usd_start
    Stake,      \* entry_size_usd of the genome
    FeeBps,     \* CB_TAKER_FEE_BPS
    LiveCap,    \* MAX_TRADE_USD
    DryRun,     \* the adapters only rehearse orders: ALLOW_TRADE is not set
    MaxEntries, \* bound: entries of an agent
    MaxEvents,  \* bound: capsules going live or being paused
    MaxCrashes  \* bound: deaths of processes

Markets == Binaries \cup Spots

ASSUME BasketAssumption ==
    /\ Agents \subseteq Nat /\ IsFiniteSet(Agents) /\ "reconciler" \notin Procs
    /\ Binaries \cap Spots = {} /\ IsFiniteSet(Markets)
    /\ Unit \in Nat \ {0} /\ {Start, Stake, FeeBps, LiveCap} \subseteq Nat
    /\ DryRun \in BOOLEAN /\ MaxEntries \in Nat
    /\ \A m \in Markets : Sides[m] \subseteq {"BUY", "SELL"}
    /\ \A m \in Binaries : EntryAt[m] \cup ExitAt[m] \subseteq 1..(Unit - 1)
    /\ \A m \in Spots : EntryAt[m] \cup ExitAt[m] \subseteq {x \in Nat : x > Unit}

VARIABLES
    row,     \* [agent -> its row]
    log,     \* [agent -> its paper_trades, in order; forgotten once it is torn]
    alive,   \* agents that are not retired
    bound,   \* agents with a live capsule
    binary,  \* [binary -> "open", "expired", "due" (with its candles), "settled"]
    fate,    \* [binary -> TRUE iff the asset closed higher than it opened]
    proc,    \* [process -> where it is, with the rows it read]
    stale,   \* history: [process -> agents somebody wrote since it read them]
    torn,    \* history: agents hit by a lost update or a death between writes
    events, crashes

vars == <<row, log, alive, bound, binary, fate, proc, stale, torn, events, crashes>>

Rec == "reconciler"
Idle == [pc |-> "idle"]

Init ==
    /\ row = [a \in Agents |-> [cash |-> Start, pos |-> <<>>, realized |-> 0,
                                trades |-> 0, wins |-> 0, entries |-> 0]]
    /\ log = [a \in Agents |-> <<>>]
    /\ alive = Agents /\ bound \in SUBSET Agents
    /\ binary = [m \in Binaries |-> "open"] /\ fate = [m \in Binaries |-> FALSE]
    /\ proc = [p \in Procs \cup {Rec} |-> Idle]
    /\ stale = [p \in Procs \cup {Rec} |-> {}] /\ torn = {}
    /\ events = 0 /\ crashes = 0

-----------------------------------------------------------------------------
(* applySignal, the resolver's settlement, and the seal's: on a copy. *)

\* Dollars are whole here.
Part(n, d) == IF d < 0 THEN (-n) \div (-d) ELSE n \div d

\* Mutated form of Gain: the formula before 2026-05-26.
GainOfAShort(pos, px) ==
    IF pos.side = "BUY" THEN Part(pos.size * (px - pos.px), pos.px)
    ELSE Part(pos.size * (pos.px - px), pos.px)

\* Selling YES is buying NO at 1 - price, on every venue.
Gain(pos, px) ==
    IF pos.side = "BUY" THEN Part(pos.size * (px - pos.px), pos.px)
    ELSE Part(pos.size * (pos.px - px), Unit - pos.px)

FeeOn(m, size) == IF m \in Spots THEN Part(size * FeeBps, 10000) ELSE 0
Least(x, y) == IF x < y THEN x ELSE y

IndexOf(r, m) == SelectInSeq(r.pos, LAMBDA pos : pos.m = m)
Holds(r, m) == IndexOf(r, m) # 0
PositionOn(r, m) == r.pos[IndexOf(r, m)]

\* Mutated form of Exited.
ExitedLast(r, m, back, realized) ==
    [r EXCEPT !.cash = @ + back, !.realized = @ + realized, !.trades = @ + 1,
              !.wins = IF realized > 0 THEN @ + 1 ELSE @,
              !.pos = Front(@)]

\* The row without its position on m, paid back and counted.
Exited(r, m, back, realized) ==
    [r EXCEPT !.cash = @ + back, !.realized = @ + realized, !.trades = @ + 1,
              !.wins = IF realized > 0 THEN @ + 1 ELSE @,
              !.pos = RemoveAt(@, IndexOf(r, m))]

\* Mutated form of Exit.
ExitWithoutFee(r, m, px, live) ==
    LET pos == PositionOn(r, m)
        realized == Gain(pos, px) - FeeOn(m, pos.size)
    IN [row |-> Exited(r, m, pos.size + Gain(pos, px), realized),
        trade |-> [id |-> pos.id, m |-> m, exit |-> TRUE, stake |-> pos.size,
                   realized |-> realized, gap |-> 0, live |-> live]]

\* Each way out gives the row and the trade that goes to the log; live says
\* whether it was for real.
Exit(r, m, px, live) ==
    LET pos == PositionOn(r, m)
        realized == Gain(pos, px) - FeeOn(m, pos.size)
    IN [row |-> Exited(r, m, pos.size + realized, realized),
        trade |-> [id |-> pos.id, m |-> m, exit |-> TRUE, stake |-> pos.size,
                   realized |-> realized, gap |-> 0, live |-> live]]

\* A live position is worth its shares if its token won: YES if it was bought,
\* NO if YES was sold.  Without a reconciled fill the shares are estimated from
\* the YES price of the entry.
Payout(pos) ==
    IF (pos.side = "BUY") # fate[pos.m] THEN 0
    ELSE IF pos.shares > 0 THEN pos.shares
    ELSE Part(pos.paid * Unit, pos.px)

\* resolveBinary: a live position pays out its shares.
SettledLive(r, m) ==
    LET pos == PositionOn(r, m)
    IN [row |-> Exited(r, m, Payout(pos), Payout(pos) - pos.paid),
        trade |-> [id |-> pos.id, m |-> m, exit |-> TRUE, stake |-> pos.size,
                   realized |-> Payout(pos) - pos.paid, gap |-> pos.size - pos.paid,
                   live |-> TRUE]]

Outcome(m) == IF fate[m] THEN Unit ELSE 0
Settled(r, m) ==
    IF PositionOn(r, m).live THEN SettledLive(r, m) ELSE Exit(r, m, Outcome(m), FALSE)

\* The position of an entry: its live order too, when it was filled.
NewPosition(sig, px, live) ==
    [id |-> sig.id, m |-> sig.m, side |-> sig.side, size |-> sig.size, px |-> px,
     live |-> live,
     paid |-> IF live THEN Least(sig.size, LiveCap) ELSE 0,
     shares |-> 0]

Entered(r, sig, px, live) ==
    [row |-> [r EXCEPT !.cash = @ - sig.size - FeeOn(sig.m, sig.size), !.entries = @ + 1,
                       !.pos = Append(@, NewPosition(sig, px, live))],
     trade |-> [id |-> sig.id, m |-> sig.m, exit |-> FALSE, stake |-> sig.size,
                realized |-> 0, gap |-> 0, live |-> live]]

-----------------------------------------------------------------------------
(* Rows are read into a process and written from it. *)

Read(p, S) == stale' = [stale EXCEPT ![p] = @ \ S]

Tear(S) ==
    /\ torn' = torn \cup S
    /\ log' = [a \in Agents |-> IF a \in S THEN <<>> ELSE log[a]]

Write(p, a, new) ==
    /\ row' = [row EXCEPT ![a] = new]
    /\ stale' = [q \in DOMAIN stale |->
                   IF q = p THEN stale[p] \ {a}
                   ELSE IF proc[q] # Idle THEN stale[q] \cup {a}
                   ELSE stale[q]]
    /\ Tear(IF a \in stale[p] THEN {a} ELSE {})

Goto(p, state) == proc' = [proc EXCEPT ![p] = state]

\* insertPaperTrade.
Insert(a, trade) == log' = IF a \in torn THEN log ELSE [log EXCEPT ![a] = Append(@, trade)]

\* A row about to be persisted, once the markets left to realize are.
Writing(a, new, traded, left, then) ==
    [pc |-> "persist", a |-> a, new |-> new, traded |-> traded, left |-> left, then |-> then]

\* The trade of the way out or in is inserted, and the row persisted next.
Record(p, a, out, then) ==
    /\ Insert(a, out.trade)
    /\ Goto(p, Writing(a, out.row, TRUE, <<>>, then))

\* Nothing happened, and the row is persisted all the same.
Hold(p, a, r, then) ==
    /\ Goto(p, Writing(a, r, FALSE, <<>>, then))
    /\ UNCHANGED log

Done(p) == /\ Goto(p, Idle)
           /\ stale' = [stale EXCEPT ![p] = {}]

Persist(p) ==
    LET w == proc[p]
    IN  /\ w.pc = "persist" /\ w.left = <<>>
        /\ Write(p, w.a, w.new)
        /\ Goto(p, w.then)
        /\ UNCHANGED <<alive, bound, binary, fate, events, crashes>>

-----------------------------------------------------------------------------
(* resolveExpiredBinaries *)

Pending == {m \in Binaries : binary[m] \in {"expired", "due"}}

TickStart(p) ==
    /\ proc[p].pc = "idle"
    /\ Goto(p, [pc |-> "resolve", pending |-> Pending])
    /\ UNCHANGED <<row, log, alive, bound, binary, fate, stale, torn, events, crashes>>

\* Mutated form of Holders: what listAgentsHoldingPosition replaced.
HoldersAlive(m) == {a \in alive : Holds(row[a], m)}

\* Retired agents too.
Holders(m) == {a \in Agents : Holds(row[a], m)}

\* No candles yet: the next tick retries.  Otherwise the binary is marked
\* settled first, and its holders are read next.
Resolve(p) ==
    /\ proc[p].pc = "resolve"
    /\ \E m \in proc[p].pending :
          LET rest == [pc |-> "resolve", pending |-> proc[p].pending \ {m}]
          IN IF binary[m] = "expired"
             THEN Goto(p, rest) /\ UNCHANGED <<binary, stale>>
             ELSE /\ binary' = [binary EXCEPT ![m] = "settled"]
                  /\ Read(p, Holders(m))
                  /\ Goto(p, [pc |-> "close", m |-> m, then |-> rest,
                              todo |-> Restrict(row, Holders(m))])
    /\ UNCHANGED <<row, log, alive, bound, fate, torn, events, crashes>>

\* The agent a process is at, of the rows it has still to go through.
At(todo) == Min(DOMAIN todo)
Rest(todo) == Restrict(todo, DOMAIN todo \ {At(todo)})

\* One holder: its trade is inserted, and its row persisted next.
Close(p) ==
    LET s == proc[p]
        a == At(s.todo)
    IN  /\ s.pc = "close"
        /\ IF DOMAIN s.todo = {}
           THEN Goto(p, s.then) /\ UNCHANGED log
           ELSE Record(p, a, Settled(s.todo[a], s.m), [s EXCEPT !.todo = Rest(@)])
        /\ UNCHANGED <<row, alive, bound, binary, fate, stale, torn, events, crashes>>

-----------------------------------------------------------------------------
(* The loop over the agents. *)

Deciding(todo) == [pc |-> "decide", todo |-> todo]

Load(p) ==
    /\ proc[p].pc = "resolve" /\ proc[p].pending = {}
    /\ Read(p, alive)
    /\ Goto(p, Deciding(Restrict(row, alive)))
    /\ UNCHANGED <<row, log, alive, bound, binary, fate, torn, events, crashes>>

Exits(r) ==
    {[exit |-> TRUE, id |-> pos.id, m |-> pos.m, side |-> pos.side, size |-> pos.size] :
        pos \in ToSet(r.pos)}

Entries(r, M) ==
    UNION {{[exit |-> FALSE, id |-> r.entries + 1, m |-> m, side |-> side,
             size |-> Least(Stake, r.cash)] : side \in Sides[m]} :
           m \in {x \in M : r.entries < MaxEntries}}

\* Mutated form of Signals.
SignalsToAdd(r) == Exits(r) \cup Entries(r, Markets)

\* decide() on the copy: an exit of a position that reached its target, stop or
\* time, or else an entry into a market it holds nothing of, whether a binary has
\* expired or not.
Signals(r) == Exits(r) \cup Entries(r, {m \in Markets : ~Holds(r, m)})

\* An exit that the live path refuses: it does not know the token to sell.
NoToken(r, sig) ==
    sig.m \in Binaries /\ sig.exit /\ ~PositionOn(r, sig.m).live

\* applySignal at a quote, for a signal that was filled for real or not: nothing
\* happens if the stake and its fee exceed the cash.
Executed(p, sig, px, live) ==
    LET s == proc[p]
        a == At(s.todo)
        r == s.todo[a]
        out == IF sig.exit THEN Exit(r, sig.m, px, live) ELSE Entered(r, sig, px, live)
    IN IF ~sig.exit /\ sig.size + FeeOn(sig.m, sig.size) > r.cash
       THEN Hold(p, a, r, Deciding(Rest(s.todo)))
       ELSE Record(p, a, out, Deciding(Rest(s.todo)))

\* One agent holds, or is refused; or trades on paper, without a live capsule or
\* in dry-run mode; or has an order filled, whose answer it awaits.
Decide(p) ==
    LET s == proc[p]
        a == At(s.todo)
        r == s.todo[a]
        quotes(sig) == IF sig.exit THEN ExitAt[sig.m] ELSE EntryAt[sig.m]
    IN  /\ s.pc = "decide" /\ DOMAIN s.todo # {}
        /\ \/ Hold(p, a, r, Deciding(Rest(s.todo)))
           \/ \E sig \in Signals(r) : \E px \in quotes(sig) :
                 /\ ~(a \in bound /\ NoToken(r, sig))
                 /\ IF a \in bound /\ ~DryRun
                    THEN /\ Goto(p, [pc |-> "await", todo |-> s.todo, sig |-> sig, px |-> px])
                         /\ UNCHANGED log
                    ELSE Executed(p, sig, px, FALSE)
        /\ UNCHANGED <<row, alive, bound, binary, fate, stale, torn, events, crashes>>

Answer(p) ==
    /\ proc[p].pc = "await"
    /\ Executed(p, proc[p].sig, proc[p].px, TRUE)
    /\ UNCHANGED <<row, alive, bound, binary, fate, stale, torn, events, crashes>>

TickEnd(p) ==
    /\ proc[p].pc = "decide" /\ DOMAIN proc[p].todo = {}
    /\ Done(p)
    /\ UNCHANGED <<row, log, alive, bound, binary, fate, torn, events, crashes>>

-----------------------------------------------------------------------------
(* The seal at the end of some ticks. *)

\* Some agents are culled; their rows are read.
SealStart(p) ==
    /\ proc[p].pc = "decide" /\ DOMAIN proc[p].todo = {}
    /\ \E C \in SUBSET alive \ {{}} :
          /\ Read(p, C)
          /\ Goto(p, [pc |-> "seal", todo |-> Restrict(row, C), cull |-> C])
    /\ UNCHANGED <<row, log, alive, bound, binary, fate, torn, events, crashes>>

\* realizeOpenPositions: on its copy of the row, over the markets it holds.
Realize(p) ==
    LET s == proc[p]
        a == At(s.todo)
        r == s.todo[a]
        rest == [s EXCEPT !.todo = Rest(@)]
    IN  /\ s.pc = "seal" /\ DOMAIN s.todo # {}
        /\ Goto(p, IF r.pos = <<>> THEN rest
                   ELSE Writing(a, r, FALSE, [i \in DOMAIN r.pos |-> r.pos[i].m], rest))
        /\ UNCHANGED <<row, log, alive, bound, binary, fate, stale, torn, events, crashes>>

\* What a market closes at: a settled binary at its outcome, a product at its
\* quote, if there is one.
Closings(m) ==
    IF m \in Spots THEN ExitAt[m]
    ELSE IF binary[m] = "settled" THEN {Outcome(m)} ELSE {}

\* One position is closed and its trade inserted, or it stays in the basket.
RealizeOne(p) ==
    LET w == proc[p]
        m == Head(w.left)
        rest == [w EXCEPT !.left = Tail(@)]
    IN  /\ w.pc = "persist" /\ w.left # <<>>
        /\ \/ /\ m \in Spots \/ Closings(m) = {} \/ ~Holds(w.new, m)
              /\ Goto(p, rest) /\ UNCHANGED log
           \/ /\ Holds(w.new, m)
              /\ \E px \in Closings(m) :
                    LET out == Exit(w.new, m, px, FALSE)
                    IN  /\ Insert(w.a, out.trade)
                        /\ Goto(p, [rest EXCEPT !.new = out.row, !.traded = TRUE])
        /\ UNCHANGED <<row, alive, bound, binary, fate, stale, torn, events, crashes>>

\* retireAgent, once every basket is realized.
SealEnd(p) ==
    /\ proc[p].pc = "seal" /\ DOMAIN proc[p].todo = {}
    /\ alive' = alive \ proc[p].cull
    /\ Done(p)
    /\ UNCHANGED <<row, log, bound, binary, fate, torn, events, crashes>>

-----------------------------------------------------------------------------
(* reconcileFills *)

\* What the venue filled of a live order: as many tokens as the dollars buy.
Filled(pos) ==
    Part(pos.paid * Unit, IF pos.side = "BUY" THEN pos.px ELSE Unit - pos.px)

\* Live positions without a fill, of agents alive, by their place in the basket.
Unreconciled ==
    UNION {{[a |-> a, at |-> i, shares |-> Filled(row[a].pos[i]), paid |-> row[a].pos[i].paid] :
              i \in {j \in DOMAIN row[a].pos : LET pos == row[a].pos[j] IN
                        pos.live /\ pos.shares = 0 /\ pos.m \in Binaries}} : a \in alive}

\* The venue's trades match some of them.
RecList ==
    /\ proc[Rec].pc = "idle"
    /\ \E U \in SUBSET Unreconciled \ {{}} :
          /\ Read(Rec, alive)
          /\ Goto(Rec, [pc |-> "listed", todo |-> U])
    /\ UNCHANGED <<row, log, alive, bound, binary, fate, torn, events, crashes>>

Fill(positions, at, u) ==
    [positions EXCEPT ![at].shares = u.shares, ![at].paid = u.paid]

\* Mutated form of FillAt.
FillAtNext(positions, u) ==
    Fill(positions, IF u.at < Len(positions) THEN u.at + 1 ELSE u.at, u)

FillAt(positions, u) == Fill(positions, u.at, u)

\* writeReconciledFill reads the basket again, and finds the place in it.
RecRead ==
    /\ proc[Rec].pc = "listed"
    /\ \E u \in proc[Rec].todo :
          LET rest == [proc[Rec] EXCEPT !.todo = @ \ {u}]
          IN IF u.at > Len(row[u.a].pos) THEN Goto(Rec, rest)
             ELSE Goto(Rec, [pc |-> "fill", a |-> u.a, then |-> rest,
                             pos |-> FillAt(row[u.a].pos, u)])
    /\ UNCHANGED <<row, log, alive, bound, binary, fate, stale, torn, events, crashes>>

RecWrite ==
    LET w == proc[Rec]
    IN  /\ w.pc = "fill"
        /\ Write(Rec, w.a, [row[w.a] EXCEPT !.pos = w.pos])
        /\ Goto(Rec, w.then)
        /\ UNCHANGED <<alive, bound, binary, fate, events, crashes>>

RecEnd ==
    /\ proc[Rec].pc = "listed" /\ proc[Rec].todo = {}
    /\ Done(Rec)
    /\ UNCHANGED <<row, log, alive, bound, binary, fate, torn, events, crashes>>

-----------------------------------------------------------------------------
(* Deaths, and the world outside. *)

\* The agent a process was in the middle of.
HalfDone(p) ==
    LET s == proc[p]
    IN IF s.pc = "persist" THEN (IF s.traded THEN {s.a} ELSE {})
       ELSE IF s.pc = "await" THEN {At(s.todo)}
       ELSE {}

Crash(p) ==
    /\ crashes < MaxCrashes /\ proc[p].pc # "idle"
    /\ crashes' = crashes + 1
    /\ Tear(HalfDone(p))
    /\ Done(p)
    /\ UNCHANGED <<row, alive, bound, binary, fate, events>>

Expire(m) ==
    /\ binary[m] = "open"
    /\ binary' = [binary EXCEPT ![m] = "expired"]
    /\ UNCHANGED <<row, log, alive, bound, fate, proc, stale, torn, events, crashes>>

\* The candles of the expiry are ingested.
Candles(m) ==
    /\ binary[m] = "expired"
    /\ binary' = [binary EXCEPT ![m] = "due"]
    /\ \E higher \in BOOLEAN : fate' = [fate EXCEPT ![m] = higher]
    /\ UNCHANGED <<row, log, alive, bound, proc, stale, torn, events, crashes>>

\* Auto-promotion or the operator puts a capsule live or pauses it.
Switch(a) ==
    /\ events < MaxEvents /\ events' = events + 1
    /\ bound' = IF a \in bound THEN bound \ {a} ELSE bound \cup {a}
    /\ UNCHANGED <<row, log, alive, binary, fate, proc, stale, torn, crashes>>

Tick(p) ==
    \/ TickStart(p) \/ Resolve(p) \/ Close(p) \/ Load(p) \/ Decide(p) \/ Answer(p)
    \/ Persist(p) \/ TickEnd(p) \/ SealStart(p) \/ Realize(p)
    \/ RealizeOne(p) \/ SealEnd(p)

Reconcile == RecList \/ RecRead \/ RecWrite \/ RecEnd

Next ==
    \/ \E p \in Procs : Tick(p) \/ Crash(p)
    \/ Reconcile \/ Crash(Rec)
    \/ \E m \in Binaries : Expire(m) \/ Candles(m)
    \/ \E a \in Agents : Switch(a)

\* The loop keeps ticking, and a step of a tick that is not killed is taken.
Spec ==
    /\ Init /\ [][Next]_vars
    /\ \A p \in Procs : WF_vars(Tick(p))

-----------------------------------------------------------------------------
(* Properties. *)

Position ==
    {pos \in [id : 1..MaxEntries, m : Markets, side : {"BUY", "SELL"},
              size : {n \in Int : n <= Stake}, px : Nat, live : BOOLEAN,
              paid : {n \in Int : n <= LiveCap}, shares : Int] :
        pos.px \in EntryAt[pos.m]}

\* At most one position on a market.
Basket == {s \in Seq(Position) : \A i, j \in DOMAIN s : s[i].m = s[j].m => i = j}

Row == {r \in [cash : Int, pos : Basket, realized : Int, trades : Nat, wins : Nat,
               entries : 0..MaxEntries] : r.wins <= r.trades}

Trade == [id : 1..MaxEntries, m : Markets, exit : BOOLEAN, stake : {n \in Int : n <= Stake},
          realized : Int, gap : Int, live : BOOLEAN]

Copies(todo) == DOMAIN todo \subseteq Agents /\ \A a \in DOMAIN todo : todo[a] \in Row

\* What a process may be at.
Resolves == [pc : {"resolve"}, pending : SUBSET Binaries]
GoesThrough(s) ==
    /\ s.pc \in {"close", "decide", "seal"} /\ Copies(s.todo)
    /\ s \in [pc : {"close"}, m : Binaries, then : Resolves, todo : {s.todo}]
             \cup [pc : {"decide"}, todo : {s.todo}]
             \cup [pc : {"seal"}, todo : {s.todo}, cull : SUBSET Agents]
Signal == [exit : BOOLEAN, id : 1..MaxEntries, m : Markets, side : {"BUY", "SELL"},
           size : {n \in Int : n <= Stake}]
Awaits(s) ==
    /\ s.pc = "await" /\ Copies(s.todo)
    /\ s \in [pc : {"await"}, todo : {s.todo}, sig : Signal, px : Nat]
    /\ s.px \in IF s.sig.exit THEN ExitAt[s.sig.m] ELSE EntryAt[s.sig.m]
Persists(s) ==
    /\ s.pc = "persist" /\ GoesThrough(s.then)
    /\ s \in [pc : {"persist"}, a : Agents, new : Row, traded : BOOLEAN,
              left : Seq(Markets), then : {s.then}]
Listed == [pc : {"listed"},
           todo : SUBSET [a : Agents, at : Nat \ {0}, shares : Int,
                          paid : {n \in Int : n <= LiveCap}]]
Fills == [pc : {"fill"}, a : Agents, then : Listed, pos : Basket]

TypeOK ==
    /\ row \in [Agents -> Row] /\ log \in [Agents -> Seq(Trade)]
    /\ alive \subseteq Agents /\ bound \subseteq Agents /\ torn \subseteq Agents
    /\ binary \in [Binaries -> {"open", "expired", "due", "settled"}]
    /\ fate \in [Binaries -> BOOLEAN]
    /\ \A p \in Procs : \/ proc[p] \in {Idle} \cup Resolves
                        \/ GoesThrough(proc[p]) \/ Awaits(proc[p]) \/ Persists(proc[p])
    /\ proc[Rec] \in {Idle} \cup Listed \cup Fills
    /\ stale \in [Procs \cup {Rec} -> SUBSET Agents]

\* A trade of a that is in the log, and whose row is not written yet.
BetweenWrites(a) ==
    \E p \in Procs : proc[p].pc = "persist" /\ proc[p].a = a /\ proc[p].traded

Undisturbed(a) == a \notin torn /\ ~BetweenWrites(a)

Outs(trades) == {i \in DOMAIN trades : trades[i].exit}
Ins(trades) == DOMAIN trades \ Outs(trades)

\* Every entry is either open or was closed once, and the counters that fitness
\* is computed from count those exits.
AddsUp(r, trades) ==
    LET ids(I) == {trades[i].id : i \in I}
        open == {r.pos[i].id : i \in DOMAIN r.pos}
    IN /\ \A i, j \in DOMAIN trades :
             trades[i].exit = trades[j].exit /\ trades[i].id = trades[j].id => i = j
       /\ \A i, j \in DOMAIN r.pos : r.pos[i].id = r.pos[j].id => i = j
       /\ ids(Outs(trades)) \cap open = {}
       /\ ids(Outs(trades)) \cup open = ids(Ins(trades))
       /\ r.trades = Cardinality(Outs(trades)) /\ r.entries = Cardinality(Ins(trades))
       /\ r.wins = Cardinality({i \in Outs(trades) : trades[i].realized > 0})
       /\ r.realized = SumFunction([i \in Outs(trades) |-> trades[i].realized])

\* The row is what the trade log adds up to, whether decide(), the resolver or a
\* seal closed the positions; but for rows hit by a death between the two writes
\* or by two writers that read the same row.
BooksMatchLog == \A a \in Agents : Undisturbed(a) => AddsUp(row[a], log[a])

HeldMarkets(r) == {r.pos[i].m : i \in DOMAIN r.pos}
Locked(r) == SumFunction([m \in HeldMarkets(r) |-> PositionOn(r, m).size])
Fees(trades) == SumFunction([i \in Ins(trades) |-> FeeOn(trades[i].m, trades[i].stake)])
Gaps(trades) == SumFunction([i \in Outs(trades) |-> trades[i].gap])

\* Cash is the start, what was realized, less what is open and the entry fees;
\* and less, for every live position settled by the resolver, the part of its
\* stake that was never sent to the venue: the entry locked the stake the
\* strategy asked for, and the settlement releases what was paid.
CashAccounted ==
    \A a \in Agents : Undisturbed(a) =>
        row[a].cash = Start + row[a].realized - Locked(row[a]) - Fees(log[a]) - Gaps(log[a])

\* A position on a binary never loses more than its stake, whichever of the
\* three ways out closes it and whatever the quotes were; so no agent, torn or
\* not, ever has less than nothing, as long as the products it trades do not lose
\* more than their stake either.
MaxLossIsStake ==
    /\ \A a \in Agents : \A i \in DOMAIN log[a] :
          log[a][i].exit /\ log[a][i].m \in Binaries => log[a][i].realized >= -log[a][i].stake
    /\ \A a \in Agents : row[a].cash >= 0

\* The shares on a position are those of its own order, but where the basket was
\* rewritten between the reconciler's listing and its write.
FillOnItsPosition ==
    \A a \in Agents \ torn : \A i \in DOMAIN row[a].pos :
        row[a].pos[i].shares # 0 => /\ row[a].pos[i].live
                                    /\ row[a].pos[i].shares = Filled(row[a].pos[i])

\* A position on a binary that expired and has its candles is paid out, whether
\* its agent is alive or retired, unless a death or a lost update intervenes.
PaidOut ==
    \A a \in Agents, m \in Binaries :
        binary[m] = "due" /\ Holds(row[a], m)
            ~> ~Holds(row[a], m) \/ crashes > 0 \/ a \in torn

\* live-capsule.ts:4: the signals of an agent with a live capsule route through
\* the router "instead of the pure-sim apply path", and arena-tick.ts:86 ticks
\* such agents "so real-money capsules never get stranded": a position that was
\* bought for real is closed by a real order, or by its settlement.
LiveExitsAreReal ==
    \A a \in Agents : \A i, j \in DOMAIN log[a] :
        log[a][i].live /\ ~log[a][i].exit /\ log[a][j].exit /\ log[a][i].id = log[a][j].id
            => log[a][j].live
=============================================================================
