---------------------------- MODULE ExecutionRouter ----------------------------
(***************************************************************************)
(* One process's router, packages/core/src/venue/router.ts, with the risk  *)
(* engine and the kill switch it shares with the rest of that process, the *)
(* capsule rows and the audit log in the database, and the venues.         *)
(*                                                                         *)
(* submit() is a sequence of synchronous sections cut by two awaits, and   *)
(* calls of submit() interleave there:                                     *)
(*   from the call to snapshotPortfolio   Duplicate, RefusedAtEntry, Admit *)
(*   from there to adapter.submit         RefusedAtRisk, RefusedAtVenue,   *)
(*                                        HandOff                          *)
(*   from the answer to the return        Answered                         *)
(* The process may be killed anywhere; the database outlives it.           *)
(***************************************************************************)
EXTENDS CapsuleEnvelope, RiskEngine, FiniteSetsExt

CONSTANTS
    Calls,          \* submit() calls that can be in progress together
    Orders,         \* the orders clients submit
    CapsuleIds,     \* capsules that exist at the start
    NoCapsule,      \* order.capsuleId is undefined
    CapsuleLimits,  \* [capsule -> its limits]
    Allocated,      \* capital_allocated_usd of each
    RiskLimits,     \* the engine's limits
    Venues,         \* registered adapters: [venue -> the order types it supports]
    Available,      \* venues whose credentials are present
    AllowTaker,     \* ROUTER_ALLOW_TAKER=1
    OperatorSets,   \* statuses the operator may give a capsule
    CanDelete,      \* the operator may delete a capsule
    MaxNow,         \* bound: the last instant
    HaltModes,      \* modes posted to /api/risk/halt; {}: nobody calls it
    MaxHalting,     \* bound: haltAll() calls in progress together
    MaxLives        \* bound: lives of the process

\* Sizes and prices are not negative: /api/venue/submit validates that they are
\* positive, and the arena submits nothing when its clamped size is not.
ASSUME InputsAssumption ==
    /\ NoCapsule \notin CapsuleIds
    /\ Allocated \in Nat
    /\ OperatorSets \subseteq CapsuleStatuses
    /\ RiskLimits.max_daily_loss \in Nat
    /\ \A o \in Orders :
          /\ o.capsule \in CapsuleIds \cup {NoCapsule}
          /\ o.size \in Nat /\ o.price \in Nat

VARIABLES
    now,           \* Date.now()
    life,          \* which life of the process this is
    call,          \* [call -> where it is, and its order]
    orders,        \* the router's orders map: ids of this life
    lastSubmitAt,  \* [(capsule, symbol, side) -> time]
    engine,        \* RiskEngine
    killSwitch,    \* KillSwitch.state, and haltAll() calls in progress
    capsules,      \* table capsules: [existing capsule -> row]
    events,        \* table order_events
    received,      \* what the venues got: one record per adapter.submit
    haltRequested  \* history: the operator has halted, and not resumed

memory == <<orders, lastSubmitAt, engine, killSwitch>>
vars == <<now, life, call, memory, capsules, events, received, haltRequested>>

Ids == {o.clientOrderId : o \in Orders}
Key(o) == <<o.capsule, o.symbol, o.side>>
Keys == {Key(o) : o \in Orders}
Today == DayOf(now)

Idle == [pc |-> "idle"]
InProgress(c) == call[c].pc \in {"checked", "sent"}

\* A process that has just loaded its modules.
FreshMemory ==
    /\ orders' = {}
    /\ lastSubmitAt' = [k \in Keys |-> NeverTraded]
    /\ engine' = NewEngine
    /\ killSwitch' = [halted |-> FALSE, brokersHalted |-> {}, halting |-> 0]
    /\ call' = [c \in Calls |-> Idle]
    /\ life' = life + 1

Init ==
    /\ now = 0 /\ life = 1
    /\ call = [c \in Calls |-> Idle]
    /\ orders = {}
    /\ lastSubmitAt = [k \in Keys |-> NeverTraded]
    /\ engine = NewEngine
    /\ killSwitch = [halted |-> FALSE, brokersHalted |-> {}, halting |-> 0]
    /\ capsules = [k \in CapsuleIds |-> NewCapsule("live", Allocated)]
    /\ events = <<>> /\ received = <<>>
    /\ haltRequested = FALSE

-----------------------------------------------------------------------------
(* Helpers of submit(). *)

\* logEvent; module OrderEvents shows what the append itself may do.  The row's
\* created_at is kept as the day, and as the process's life.
Log(event, o) ==
    events' = Append(events, [event |-> event, id |-> o.clientOrderId, capsule |-> o.capsule,
                              day |-> Today, life |-> life])

\* Mutated form of Since.
SinceInMillis(o) ==
    IF lastSubmitAt[Key(o)] = NeverTraded THEN NeverTraded
    ELSE 1000 * (now - lastSubmitAt[Key(o)])

Since(o) ==
    IF lastSubmitAt[Key(o)] = NeverTraded THEN NeverTraded ELSE now - lastSubmitAt[Key(o)]

\* Gate 3, capsule not found included.
CapsuleRefuses(o) ==
    /\ o.capsule # NoCapsule
    /\ o.capsule \in DOMAIN capsules
          => ~CheckOrder(CapsuleLimits[o.capsule], capsules[o.capsule], o, Since(o))

EngineApproves(o) == Approves(RiskLimits, engine, o, EmptyPortfolio, now)
EngineAfter(o) == AfterCheck(RiskLimits, engine, o, EmptyPortfolio, now)

\* checkMakerOnly
TakerBlocked(o) == o.type = "MARKET" /\ ~o.allowTaker /\ ~AllowTaker

\* Adapter lookup, availability, capability, maker-only gate: the event logged,
\* "none" when the order may go.
VenueRefusal(o) ==
    CASE o.venue \notin DOMAIN Venues \cap Available -> "rejected_no_adapter"
      [] o.venue \in DOMAIN Venues \cap Available /\ o.type \notin Venues[o.venue]
            -> "rejected_unsupported"
      [] o.venue \in DOMAIN Venues \cap Available /\ o.type \in Venues[o.venue]
         /\ TakerBlocked(o) -> "rejected_maker_only"
      [] OTHER -> "none"

\* The events an answer of the adapter leads to.  Only the real venues have a dry
\* run, and fail; a throw or a timeout is logged like a rejection.
Outcomes(o) ==
    IF o.venue = "sim" THEN {"status_filled"}
    ELSE {"status_filled", "dry_run", "rejected_adapter"}

\* journalToCapsule: getCapsule, applyFillToCapsule, updateRealtime.
Journaled(o, outcome) ==
    IF outcome = "status_filled" /\ o.capsule \in DOMAIN capsules
    THEN [capsules EXCEPT ![o.capsule] = ApplyFill(@, FillOf(o), Today)]
    ELSE capsules

-----------------------------------------------------------------------------
(* submit(), up to snapshotPortfolio. *)

CanStart(c) == ~InProgress(c)

\* The id is known: the caller is told so, and nothing else happens.
Duplicate(c, o) ==
    /\ CanStart(c) /\ o.clientOrderId \in orders
    /\ UNCHANGED vars

EntryRefusal(o) == IF engine.halted THEN "rejected_halt" ELSE "rejected_capsule"

RefusedAtEntry(c, o) ==
    /\ CanStart(c) /\ o.clientOrderId \notin orders
    /\ engine.halted \/ CapsuleRefuses(o)
    /\ orders' = orders \cup {o.clientOrderId}
    /\ Log(EntryRefusal(o), o)
    /\ call' = [call EXCEPT ![c] = Idle]
    /\ UNCHANGED <<now, life, lastSubmitAt, engine, killSwitch, capsules, received, haltRequested>>

\* Mutated form of Admit.
AdmitUnregistered(c, o) ==
    /\ CanStart(c) /\ o.clientOrderId \notin orders
    /\ ~engine.halted /\ ~CapsuleRefuses(o)
    /\ call' = [call EXCEPT ![c] = [pc |-> "checked", order |-> o, seen |-> Len(received)]]
    /\ UNCHANGED <<now, life, memory, capsules, events, received, haltRequested>>

\* "seen" is history: how many orders had been handed off at this point.
Admit(c, o) ==
    /\ CanStart(c) /\ o.clientOrderId \notin orders
    /\ ~engine.halted /\ ~CapsuleRefuses(o)
    /\ orders' = orders \cup {o.clientOrderId}
    /\ call' = [call EXCEPT ![c] = [pc |-> "checked", order |-> o, seen |-> Len(received)]]
    /\ UNCHANGED <<now, life, lastSubmitAt, engine, killSwitch, capsules, events, received,
                   haltRequested>>

-----------------------------------------------------------------------------
(* submit(), from the snapshot to adapter.submit. *)

\* Mutated form of RefusedAtRisk.
RefusedAtRiskUnlessHalted(c) ==
    /\ call[c].pc = "checked"
    /\ ~EngineApproves(call[c].order) /\ ~engine.halted
    /\ engine' = EngineAfter(call[c].order)
    /\ Log("rejected_risk", call[c].order)
    /\ call' = [call EXCEPT ![c] = Idle]
    /\ UNCHANGED <<now, life, orders, lastSubmitAt, killSwitch, capsules, received, haltRequested>>

RefusedAtRisk(c) ==
    /\ call[c].pc = "checked"
    /\ ~EngineApproves(call[c].order)
    /\ engine' = EngineAfter(call[c].order)
    /\ Log("rejected_risk", call[c].order)
    /\ call' = [call EXCEPT ![c] = Idle]
    /\ UNCHANGED <<now, life, orders, lastSubmitAt, killSwitch, capsules, received, haltRequested>>

\* The engine has counted the order in its rate window by now.
RefusedAtVenue(c) ==
    /\ call[c].pc = "checked"
    /\ EngineApproves(call[c].order)
    /\ VenueRefusal(call[c].order) # "none"
    /\ engine' = EngineAfter(call[c].order)
    /\ Log(VenueRefusal(call[c].order), call[c].order)
    /\ call' = [call EXCEPT ![c] = Idle]
    /\ UNCHANGED <<now, life, orders, lastSubmitAt, killSwitch, capsules, received, haltRequested>>

HandOff(c) ==
    LET o == call[c].order
    IN  /\ call[c].pc = "checked"
        /\ EngineApproves(o)
        /\ VenueRefusal(o) = "none"
        /\ engine' = EngineAfter(o)
        /\ Log("submitting", o)
        /\ lastSubmitAt' = IF o.capsule = NoCapsule THEN lastSubmitAt
                           ELSE [lastSubmitAt EXCEPT ![Key(o)] = now]
        /\ received' = Append(received, [id |-> o.clientOrderId, key |-> Key(o), at |-> now,
                                         life |-> life, seen |-> call[c].seen])
        /\ call' = [call EXCEPT ![c].pc = "sent"]
        /\ UNCHANGED <<now, life, orders, killSwitch, capsules, haltRequested>>

-----------------------------------------------------------------------------
(* submit(), from the adapter's answer to the return. *)

Answered(c, outcome) ==
    /\ call[c].pc = "sent"
    /\ outcome \in Outcomes(call[c].order)
    /\ Log(outcome, call[c].order)
    /\ capsules' = Journaled(call[c].order, outcome)
    /\ call' = [call EXCEPT ![c] = Idle]
    /\ UNCHANGED <<now, life, memory, received, haltRequested>>

-----------------------------------------------------------------------------
(* packages/risk/src/kill-switch.ts *)

\* haltAll up to its first await: the flags first.
HaltAll ==
    /\ HaltModes \cap {"close_and_pause", "liquidate"} # {}
    /\ killSwitch.halting < MaxHalting
    /\ killSwitch' = [killSwitch EXCEPT !.halted = TRUE, !.halting = @ + 1]
    /\ engine' = SetHalted(engine, TRUE)
    /\ haltRequested' = TRUE
    /\ UNCHANGED <<now, life, call, orders, lastSubmitAt, capsules, events, received>>

\* haltAll with pause_new_only, which awaits nothing.
PauseNewOnly ==
    /\ "pause_new_only" \in HaltModes
    /\ killSwitch' = [killSwitch EXCEPT !.halted = TRUE, !.brokersHalted = DOMAIN Venues]
    /\ engine' = SetHalted(engine, TRUE)
    /\ haltRequested' = TRUE
    /\ UNCHANGED <<now, life, call, orders, lastSubmitAt, capsules, events, received>>

\* cancelAll of every adapter has returned or thrown.  Every order is immediate
\* or cancel, so nothing rests at a venue for it to cancel.
HaltDone ==
    /\ killSwitch.halting > 0
    /\ killSwitch' = [killSwitch EXCEPT !.halting = @ - 1, !.brokersHalted = DOMAIN Venues]
    /\ UNCHANGED <<now, life, call, orders, lastSubmitAt, engine, capsules, events, received,
                   haltRequested>>

\* Mutated form of Resume.
ResumeKeepingEngine ==
    /\ HaltModes # {}
    /\ killSwitch' = [killSwitch EXCEPT !.halted = FALSE, !.brokersHalted = {}]
    /\ haltRequested' = FALSE
    /\ UNCHANGED <<now, life, call, orders, lastSubmitAt, engine, capsules, events, received>>

\* Mutated form of Resume.
ResumeEndsHalting ==
    /\ HaltModes # {}
    /\ killSwitch' = [killSwitch EXCEPT !.halted = FALSE, !.brokersHalted = {}, !.halting = @ - 1]
    /\ engine' = ForceRollDay(SetHalted(engine, FALSE))
    /\ haltRequested' = FALSE
    /\ UNCHANGED <<now, life, call, orders, lastSubmitAt, capsules, events, received>>

Resume ==
    /\ HaltModes # {}
    /\ killSwitch' = [killSwitch EXCEPT !.halted = FALSE, !.brokersHalted = {}]
    /\ engine' = ForceRollDay(SetHalted(engine, FALSE))
    /\ haltRequested' = FALSE
    /\ UNCHANGED <<now, life, call, orders, lastSubmitAt, capsules, events, received>>

-----------------------------------------------------------------------------
(* The operator, the clock, the process. *)

\* PATCH /api/capsules/[id]
SetStatus(k, status) ==
    /\ capsules' = [capsules EXCEPT ![k].status = status]
    /\ UNCHANGED <<now, life, call, memory, events, received, haltRequested>>

\* DELETE /api/capsules/[id]
DeleteCapsule(k) ==
    /\ CanDelete
    /\ capsules' = [j \in DOMAIN capsules \ {k} |-> capsules[j]]
    /\ UNCHANGED <<now, life, call, memory, events, received, haltRequested>>

Tick ==
    /\ now < MaxNow
    /\ now' = now + 1
    /\ UNCHANGED <<life, call, memory, capsules, events, received, haltRequested>>

Restart ==
    /\ life < MaxLives
    /\ FreshMemory
    /\ UNCHANGED <<now, capsules, events, received, haltRequested>>

\* The process dies after announcing an order in the log and before sending it.
KilledBeforeHandOff(c) ==
    /\ life < MaxLives
    /\ call[c].pc = "checked"
    /\ EngineApproves(call[c].order) /\ VenueRefusal(call[c].order) = "none"
    /\ Log("submitting", call[c].order)
    /\ FreshMemory
    /\ UNCHANGED <<now, capsules, received, haltRequested>>

\* The process dies after logging an answer and before journaling it.
KilledBeforeJournal(c, outcome) ==
    /\ life < MaxLives
    /\ call[c].pc = "sent"
    /\ outcome \in Outcomes(call[c].order)
    /\ Log(outcome, call[c].order)
    /\ FreshMemory
    /\ UNCHANGED <<now, capsules, received, haltRequested>>

Continue(c) == RefusedAtRisk(c) \/ RefusedAtVenue(c) \/ HandOff(c)
Answer(c) == \E outcome \in {"status_filled", "dry_run", "rejected_adapter"} : Answered(c, outcome)

Next ==
    \/ \E c \in Calls, o \in Orders : Duplicate(c, o) \/ RefusedAtEntry(c, o) \/ Admit(c, o)
    \/ \E c \in Calls : Continue(c) \/ Answer(c)
    \/ HaltAll \/ PauseNewOnly \/ HaltDone \/ Resume
    \/ \E k \in DOMAIN capsules :
          (\E status \in OperatorSets : SetStatus(k, status)) \/ DeleteCapsule(k)
    \/ Tick
    \/ Restart
    \/ \E c \in Calls : KilledBeforeHandOff(c)
    \/ \E c \in Calls, outcome \in {"status_filled", "dry_run", "rejected_adapter"} :
          KilledBeforeJournal(c, outcome)

Spec == Init /\ [][Next]_vars

\* The event loop runs every ready continuation, and an adapter's promise
\* settles: its HTTP requests and its child process end or fail.
FairSpec ==
    Spec /\ \A c \in Calls : WF_vars(Continue(c)) /\ WF_vars(Answer(c))

-----------------------------------------------------------------------------
GateRefusals == {"rejected_halt", "rejected_capsule", "rejected_risk",
                 "rejected_no_adapter", "rejected_unsupported", "rejected_maker_only"}
OutcomeEvents == {"status_filled", "dry_run", "rejected_adapter"}

EventRow == [event : GateRefusals \cup OutcomeEvents \cup {"submitting"}, id : Ids,
             capsule : CapsuleIds \cup {NoCapsule}, day : Nat, life : Nat]
HandOffs == [id : Ids, key : Keys, at : Nat, life : Nat, seen : Nat]
Engines == [halted : BOOLEAN, orderTimes : Seq(Nat), dayStartDate : Nat \cup {NoDay},
            dayStartEquity : {0}]
KillSwitches == [halted : BOOLEAN, brokersHalted : SUBSET DOMAIN Venues, halting : Nat]

(* Types.  The router only ever shows the engine an empty portfolio. *)
TypeOK ==
    /\ now \in Nat /\ life \in Nat /\ haltRequested \in BOOLEAN
    /\ call \in [Calls -> {Idle} \cup [pc : {"checked", "sent"}, order : Orders, seen : Nat]]
    /\ orders \in SUBSET Ids
    /\ lastSubmitAt \in [Keys -> Nat \cup {NeverTraded}]
    /\ engine \in Engines
    /\ killSwitch \in KillSwitches
    /\ DOMAIN capsules \subseteq CapsuleIds
    /\ \A k \in DOMAIN capsules : capsules[k] \in CapsuleRow
    /\ events \in Seq(EventRow)
    /\ received \in Seq(HandOffs)

\* Gate 1: in one life of the process an id reaches a venue at most once, however
\* its submissions interleave with each other, with refusals and with halts.
AtMostOncePerLife ==
    \A m, n \in DOMAIN received :
        received[m].id = received[n].id /\ received[m].life = received[n].life => m = n

\* Gate 2: nothing is handed to a venue while trading is halted, including the
\* calls that had passed the halt gate before the halt.
HaltStopsHandOffs == [][received' # received => ~engine.halted]_vars

\* The halt the engine enforces is the one the operator asked for, through
\* overlapping halts and resumes (docs/skills/safety-gates.md:24, :70: halted
\* until DELETE /api/risk/halt).
HaltedUntilResume == engine.halted = haltRequested /\ killSwitch.halted = haltRequested

\* Gate 4: no window of a minute holds more hand-offs than max_orders_per_minute,
\* boundaries included.
RateWindow ==
    \A n \in DOMAIN received :
        Cardinality({m \in 1..n : /\ received[m].life = received[n].life
                                  /\ received[m].at >= received[n].at - Minute})
            <= RiskLimits.max_orders_per_minute

\* What the journal counted on a capsule's book day is what the audit log says
\* was filled: calls answered in any order, status changes and day rolls included.
FilledOn(k, day) ==
    {n \in DOMAIN events : events[n].event = "status_filled"
                           /\ events[n].capsule = k /\ events[n].day = day}

BooksMatchAudit ==
    \A k \in DOMAIN capsules :
        capsules[k].trades_today =
            Cardinality(FilledOn(k, capsules[k].daily_pnl_reset_date))

\* The trades-per-day gate reads a count that only grows when an answer comes
\* back: calls in progress together pass it together, and the overshoot is
\* bounded by how many there are.
OvershootBounded ==
    \A k \in CapsuleIds, day \in 0..Today :
        CapsuleLimits[k].max_trades_per_day > 0 =>
            Cardinality(FilledOn(k, day))
                <= CapsuleLimits[k].max_trades_per_day + Cardinality(Calls) - 1

\* The cooldown separates two hand-offs of a capsule on the same symbol and side
\* unless the later one had passed the gate before the earlier one was made.
CooldownUnlessOverlapping ==
    \A m, n \in DOMAIN received :
        /\ m < n /\ received[m].key = received[n].key /\ received[m].life = received[n].life
        /\ received[n].key[1] # NoCapsule
        /\ received[n].seen >= m
        => received[n].at - received[m].at
               >= CapsuleLimits[received[n].key[1]].min_between_trades

\* A halt drains the router: calls in progress end, and no new one begins.
HaltDrains == engine.halted ~> (~engine.halted \/ \A c \in Calls : ~InProgress(c))

-----------------------------------------------------------------------------
(* The router implements the lifecycle it promises, read off the audit log. *)

InThisLife(i, kinds) ==
    \E n \in DOMAIN events : events[n].life = life /\ events[n].id = i /\ events[n].event \in kinds

StatusOf(i) ==
    IF InThisLife(i, OutcomeEvents) THEN "settled"
    ELSE IF InThisLife(i, {"submitting"}) THEN "working"
    ELSE IF InThisLife(i, GateRefusals) THEN "refused"
    ELSE "new"

Lifecycle == INSTANCE OrderLifecycle
    WITH OrderIds <- Ids, status <- [i \in Ids |-> StatusOf(i)], halted <- engine.halted

\* docs/skills/SKILL.md:28-29: an id is refused for good, or sent once and given one
\* outcome, and nothing is sent while trading is halted; a restart forgets it all.
ImplementsLifecycle == Lifecycle!Spec

-----------------------------------------------------------------------------
(* Who owns an id: the inductive invariant behind the idempotency gate.     *)

IdOf(c) == call[c].order.clientOrderId

\* What left a trace in this life is in the orders map, and so are the calls in
\* progress; no trace is of a life to come.
TracesAreRegistered ==
    /\ \A n \in DOMAIN received : /\ received[n].life <= life
                                  /\ received[n].life = life => received[n].id \in orders
    /\ \A n \in DOMAIN events : /\ events[n].life <= life
                                /\ events[n].life = life => events[n].id \in orders
    /\ \A c \in Calls : InProgress(c) => IdOf(c) \in orders

OneOwner ==
    \A c, d \in Calls : InProgress(c) /\ InProgress(d) /\ IdOf(c) = IdOf(d) => c = d

CheckedLeftNoTrace ==
    \A c \in Calls : call[c].pc = "checked" =>
        /\ \A n \in DOMAIN received : received[n].life = life => received[n].id # IdOf(c)
        /\ \A n \in DOMAIN events : events[n].life = life => events[n].id # IdOf(c)

SentIsWorking == \A c \in Calls : call[c].pc = "sent" => StatusOf(IdOf(c)) = "working"

\* A call that passed the orders map stays the only one that acts for its id: at
\* each await, through refusals, answers, restarts and retries of the same id, what
\* it has sent or logged is what its own progress says.
CallsOwnTheirIds ==
    TracesAreRegistered /\ OneOwner /\ CheckedLeftNoTrace /\ SentIsWorking

-----------------------------------------------------------------------------
\* docs/skills/safety-gates.md:44: an order is refused once the day's loss has
\* reached RISK_MAX_DAILY_LOSS_USD.
RealizedToday ==
    MapThenSumSet(LAMBDA k : IF capsules[k].daily_pnl_reset_date = Today
                             THEN capsules[k].daily_pnl ELSE 0, DOMAIN capsules)

DailyLossStopsOrders ==
    RealizedToday <= -RiskLimits.max_daily_loss => \A o \in Orders : ~EngineApproves(o)
=============================================================================
