--------------------------- MODULE CapsulePromotion ---------------------------
(***************************************************************************)
(* Who trades real money: the end of runEvolveOnce                         *)
(* (src/lib/arena/evolve.ts), which runs, in this order,                   *)
(*   the circuit breaker    packages/risk/src/capsules/circuit-breaker.ts  *)
(*   the cluster switches   src/lib/portfolio/cluster-killswitch*.ts       *)
(*   auto-promotion         src/lib/arena/auto-promote.ts                  *)
(* over the rows of table capsules, and the operator, who edits the same   *)
(* rows through the web API at any moment.  scripts/force-auto-promote.ts  *)
(* runs auto-promotion alone.                                              *)
(*                                                                         *)
(* Money is in cents.  An agent has at most one auto-live capsule that is  *)
(* not stopped or closed, so that capsule is named by its agent.  Others   *)
(* are the operator's, even those bound to an agent (championship.ts:66).  *)
(***************************************************************************)
EXTENDS Integers, FiniteSets, FiniteSetsExt, Functions

CONSTANTS
    Agents,         \* paper agents: their ids
    Manual,         \* capsules the operator created
    ManualCapital,  \* capital_allocated_usd of each of those
    BoundTo,        \* paper_agent_id of each of those, or NoAgent
    FamilyOf,       \* strategy family of each agent's genome and manual capsule
    AssetOf,        \* asset class of each
    Fits,           \* fitness scores agents reach
    PnlsOf,         \* values each capsule's daily_pnl_usd takes, losses negative
    Budget,         \* total_live_capital_usd, in cents
    MinShare,       \* ARENA_AUTO_PROMOTE_MIN_SHARE, in percent
    TopN,           \* n_agents of the risk budget
    FamilyPct, AssetPct, KillPct,  \* cluster thresholds, percent of active capital
    GateMayBlock,   \* ARENA_REQUIRE_HARDENED_FOR_PROMOTION=1
    MaxEvents,      \* bound: changes from outside
    MaxCrashes      \* bound: deaths of the process

NoAgent == -1

ASSUME PromotionAssumption ==
    /\ Agents \subseteq Nat /\ Manual \cap Agents = {}
    /\ IsFiniteSet(Agents \cup Manual) /\ IsFiniteSet(Fits) /\ Fits # {}
    /\ ManualCapital \in Nat /\ Budget \in Nat \ {0}
    /\ Fits \subseteq Int
    /\ BoundTo \in [Manual -> Agents \cup {NoAgent}]
    /\ \A c \in Agents \cup Manual : PnlsOf[c] \subseteq Int
    /\ MinShare \in 1..99 /\ TopN \in Nat \ {0}
    /\ {FamilyPct, AssetPct, KillPct} \subseteq Nat
    /\ GateMayBlock \in BOOLEAN

VARIABLES
    agent,    \* [agent -> level, fit]
    cap,      \* [capsule -> its row]
    pass,     \* the evolving process: where it is, and its plan
    events,   \* bound: changes from outside so far
    crashes,  \* bound: deaths so far
    settled,  \* history: the last pass was completed, and nobody interfered since
    chosen,   \* whom the pass chose, with the fitness it saw; history once settled
    guarded   \* history: what the guards of the seal under way have paused

vars == <<agent, cap, pass, events, crashes, settled, chosen, guarded>>

Capsules == Agents \cup Manual

\* What auto-promotion sees of an agent: retired; short of trades, profit, win
\* rate or a live-eligible kind; all of those but the lifetime PnL; everything.
Levels == {"retired", "weak", "promising", "proven"}
Retired == [level |-> "retired", fit |-> Min(Fits)]

\* "none" stands for no capsule, and for a stopped or closed one.
Statuses == {"none", "paper", "live", "paused"}
Active(c) == cap[c].status \in {"paper", "live"}

\* The agent a capsule trades for, and whether its name says "auto-live-".
Owner(c) == IF c \in Agents THEN c ELSE BoundTo[c]
\* Mutated form of AutoLive.
AnyName(c) == c \in Capsules
AutoLive(c) == c \in Agents

NoCapsule == [status |-> "none", alloc |-> 0, pnl |-> 0, failing |-> FALSE, tagged |-> FALSE]
IdlePass == [pc |-> "idle"]

Init ==
    /\ agent \in [Agents -> [level : {"proven"}, fit : Fits]]
    /\ \E pnl \in [Manual -> UNION {PnlsOf[m] : m \in Manual}] :
          /\ \A m \in Manual : pnl[m] \in PnlsOf[m]
          /\ cap = [c \in Capsules |->
                      IF c \in Manual
                      THEN [NoCapsule EXCEPT !.status = "live", !.alloc = ManualCapital,
                                             !.pnl = pnl[c], !.tagged = TRUE]
                      ELSE NoCapsule]
    /\ pass = IdlePass
    /\ events = 0 /\ crashes = 0
    /\ settled = FALSE /\ chosen = <<>> /\ guarded = {}

-----------------------------------------------------------------------------
(* The guards: runCircuitBreaker, and checkClusters with its wrapper. *)

Pause(C) == [c \in Capsules |-> IF c \in C THEN [cap[c] EXCEPT !.status = "paused"] ELSE cap[c]]

\* Capsules with errors at the threshold and no fill in the window.
Tripped == {c \in Capsules : Active(c) /\ cap[c].failing}

CapitalOf(C) == SumFunctionOnSet([c \in Capsules |-> cap[c].alloc], C)
PnlOf(C) == SumFunctionOnSet([c \in Capsules |-> cap[c].pnl], C)

\* A capsule without an inferred profile belongs to no cluster.
Cluster(c, Of) == {d \in Capsules : Active(d) /\ cap[d].tagged /\ Of[d] = Of[c]}
Exceeds(C, pct) ==
    LET total == CapitalOf({c \in Capsules : Active(c)})
    IN total > 0 /\ -100 * PnlOf(C) >= pct * total

\* Mutated form of ClusterPaused.
ClusterPausedAlone ==
    {c \in Capsules : Active(c) /\ (\/ Exceeds({d \in Capsules : Active(d)}, KillPct)
                                    \/ Exceeds({c}, FamilyPct))}

ClusterPaused ==
    {c \in Capsules :
        /\ Active(c)
        /\ \/ Exceeds({d \in Capsules : Active(d)}, KillPct)
           \/ cap[c].tagged /\ Exceeds(Cluster(c, AssetOf), AssetPct)
           \/ cap[c].tagged /\ Exceeds(Cluster(c, FamilyOf), FamilyPct)}

-----------------------------------------------------------------------------
(* Selection: runAutoPromote up to the allocation. *)

Alive == {a \in Agents : agent[a].level # "retired"}

\* rankAgents
Outranks(a, b) ==
    LET fa == agent[a].fit
        fb == agent[b].fit
    IN fa > fb \/ (fa = fb /\ a < b)
Top(k, S) == {a \in S : Cardinality({b \in S : Outranks(b, a)}) < k}

\* The cut to the top N comes before the lifetime PnL gate.
Qualifying ==
    {a \in Top(TopN, {b \in Alive : agent[b].level \in {"promising", "proven"}}) :
        agent[a].level = "proven"}

\* Not live yet, and of the same family and asset class as a live capsule of
\* somebody else, whether or not that one is about to be paused.
Collides(a) ==
    /\ cap[a].status # "live"
    /\ \E b \in Agents \ {a} :
          /\ cap[b].status = "live" /\ cap[b].tagged
          /\ FamilyOf[b] = FamilyOf[a] /\ AssetOf[b] = AssetOf[a]

Chosen == {a \in Qualifying : ~Collides(a)}

-----------------------------------------------------------------------------
(* allocateByFitness, in whole cents. *)

Rounded(n, d) == (2 * n + d) \div (2 * d)

\* The fallback share 1/n leaves no room either, so the call throws.
NoRoom(n) == n > 1 /\ MinShare * n >= 100

\* Mutated form of Shifted.
ShiftedFromBest(C, a) == Max({agent[b].fit : b \in C}) - agent[a].fit + 1

\* The worst of the chosen counts 1.
Shifted(C, a) == agent[a].fit - Min({agent[b].fit : b \in C}) + 1

\* Mutated form of Allocation.
AllocationOfWholeBudget(C) ==
    LET sum == SumFunction([a \in C |-> Shifted(C, a)])
    IN [a \in C |-> Rounded(Budget * (MinShare * sum + Shifted(C, a) * 100), 100 * sum)]

Allocation(C) ==
    LET n == Cardinality(C)
        sum == SumFunction([a \in C |-> Shifted(C, a)])
    IN [a \in C |->
          IF n = 1 THEN Budget
          ELSE Rounded(Budget * (MinShare * sum + Shifted(C, a) * (100 - n * MinShare)),
                       100 * sum)]

-----------------------------------------------------------------------------
(* The pass. *)

\* A seal has culled: some agents are retired.
SealBegin ==
    /\ pass.pc = "idle"
    /\ \E R \in SUBSET Alive :
          agent' = [a \in Agents |-> IF a \in R THEN Retired ELSE agent[a]]
    /\ pass' = [pc |-> "breaker"]
    /\ settled' = FALSE /\ chosen' = <<>> /\ guarded' = {}
    /\ UNCHANGED <<cap, events, crashes>>

\* force-auto-promote
ForceBegin ==
    /\ pass.pc = "idle"
    /\ pass' = [pc |-> "select"]
    /\ settled' = FALSE /\ chosen' = <<>> /\ guarded' = {}
    /\ UNCHANGED <<agent, cap, events, crashes>>

Breaker ==
    /\ pass.pc = "breaker"
    /\ cap' = Pause(Tripped)
    /\ guarded' = Tripped
    /\ pass' = [pc |-> "clusters"]
    /\ UNCHANGED <<agent, events, crashes, settled, chosen>>

Clusters ==
    /\ pass.pc = "clusters"
    /\ cap' = Pause(ClusterPaused)
    /\ guarded' = guarded \cup ClusterPaused
    /\ pass' = [pc |-> "select"]
    /\ UNCHANGED <<agent, events, crashes, settled, chosen>>

\* The overfit battery fails the cohort: nobody is promoted, nor paused.
Blocked ==
    /\ GateMayBlock
    /\ pass.pc = "select"
    /\ pass' = IdlePass /\ guarded' = {}
    /\ UNCHANGED <<agent, cap, events, crashes, settled, chosen>>

\* Mutated form of Fallen.
FallenAndLive == {a \in Agents : cap[a].status = "live" /\ a \notin Chosen}

\* Mutated form of Fallen.
FallenUnlessNoneChosen == IF Chosen = {} THEN {} ELSE {a \in Agents : Active(a) /\ a \notin Chosen}

\* Auto-live capsules whose agent was not chosen.
Fallen == {c \in Capsules : /\ Active(c) /\ AutoLive(c)
                            /\ Owner(c) # NoAgent /\ Owner(c) \notin Chosen}

\* The choice, its allocation, and the pause of everybody else.
Select ==
    /\ pass.pc = "select"
    /\ IF NoRoom(Cardinality(Chosen))
       THEN pass' = IdlePass /\ UNCHANGED <<cap, settled, chosen>>
       ELSE /\ chosen' = [a \in Chosen |-> agent[a].fit]
            /\ cap' = Pause(Fallen)
            /\ pass' = IF Chosen = {} THEN IdlePass
                       ELSE [pc |-> "promote", todo |-> Chosen,
                             plan |-> Allocation(Chosen), clean |-> TRUE]
            /\ settled' = (Chosen = {})
    /\ guarded' = IF pass'.pc = "idle" THEN {} ELSE guarded
    /\ UNCHANGED <<agent, events, crashes>>

\* Mutated form of Promoted.
PromotedInPlace(row, cents) ==
    IF row.status = "none" THEN [NoCapsule EXCEPT !.status = "live", !.alloc = cents]
    ELSE IF row.status # "live" THEN [row EXCEPT !.status = "live"]
    ELSE [row EXCEPT !.alloc = cents]

\* Created live, without a profile; or rebalanced when the capital differs by
\* more than a cent or the capsule is not live, and then reactivated.
Promoted(row, cents) ==
    IF row.status = "none" THEN [NoCapsule EXCEPT !.status = "live", !.alloc = cents]
    ELSE IF row.status # "live" \/ row.alloc > cents + 1 \/ cents > row.alloc + 1
    THEN [row EXCEPT !.status = "live", !.alloc = cents]
    ELSE row

\* The capsule of an agent a rebalance finds, or else creates.
Existing(a) == {c \in Capsules : AutoLive(c) /\ Owner(c) = a /\ cap[c].status # "none"}
Rebalanced(a) == IF Existing(a) = {} THEN {a} ELSE Existing(a)

\* One agent of the rebalance, in rank order; at the end the pass is complete.
Promote ==
    /\ pass.pc = "promote"
    /\ \E a \in pass.todo :
          /\ \A b \in pass.todo \ {a} :
                chosen[a] > chosen[b] \/ (chosen[a] = chosen[b] /\ a < b)
          /\ \E c \in Rebalanced(a) : cap' = [cap EXCEPT ![c] = Promoted(@, pass.plan[a])]
          /\ IF pass.todo = {a}
             THEN /\ pass' = IdlePass /\ settled' = pass.clean /\ guarded' = {}
                  /\ chosen' = IF pass.clean THEN chosen ELSE <<>>
             ELSE /\ pass' = [pass EXCEPT !.todo = @ \ {a}]
                  /\ UNCHANGED <<settled, chosen, guarded>>
    /\ UNCHANGED <<agent, events, crashes>>

Crash ==
    /\ crashes < MaxCrashes
    /\ pass.pc # "idle"
    /\ crashes' = crashes + 1
    /\ pass' = IdlePass
    /\ chosen' = <<>> /\ guarded' = {}
    /\ UNCHANGED <<agent, cap, events, settled>>

-----------------------------------------------------------------------------
(* The world outside the pass. *)

Outside == events < MaxEvents /\ events' = events + 1 /\ crashes' = crashes

\* Between seals an agent trades, and its record changes.
Perform ==
    /\ Outside /\ pass.pc = "idle"
    /\ \E a \in Alive, l \in Levels \ {"retired"}, f \in Fits :
          agent' = [agent EXCEPT ![a] = [level |-> l, fit |-> f]]
    /\ UNCHANGED <<cap, pass, settled, chosen, guarded>>

\* Live orders win, lose or are rejected; error windows open and pass.
Trade ==
    /\ Outside
    /\ \E c \in Capsules, b \in BOOLEAN : \E p \in PnlsOf[c] :
          /\ Active(c) \/ (cap[c].failing /\ ~b /\ p = cap[c].pnl)
          /\ cap' = [cap EXCEPT ![c].pnl = p, ![c].failing = b]
    /\ UNCHANGED <<agent, pass, settled, chosen, guarded>>

\* infer-capsule-diversity gives every active capsule its profile.
TagProfiles ==
    /\ Outside
    /\ cap' = [c \in Capsules |-> [cap[c] EXCEPT !.tagged = @ \/ Active(c)]]
    /\ UNCHANGED <<agent, pass, settled, chosen, guarded>>

\* PATCH /api/capsules/[id]; stopped capsules of agents are as good as none.
Operator ==
    /\ Outside
    /\ \E c \in Capsules, s \in Statuses :
          /\ cap[c].status \notin {"none", s}
          /\ cap' = [cap EXCEPT ![c] =
                IF s = "none" THEN NoCapsule ELSE [@ EXCEPT !.status = s]]
          /\ settled' = (settled /\ c \in Manual)
          /\ chosen' = IF settled /\ c \in Agents THEN <<>> ELSE chosen
          /\ pass' = IF pass.pc = "promote" /\ c \in Agents
                     THEN [pass EXCEPT !.clean = FALSE] ELSE pass
          /\ guarded' = guarded \ {c}
    /\ UNCHANGED agent

Advance == SealBegin \/ Breaker \/ Clusters \/ Blocked \/ Select \/ Promote

Next == Advance \/ ForceBegin \/ Crash \/ Perform \/ Trade \/ TagProfiles \/ Operator

\* Generations keep being sealed, and a seal that is not killed goes on.
Spec == Init /\ [][Next]_vars /\ WF_vars(SealBegin) /\ WF_vars(Advance)

-----------------------------------------------------------------------------
(* Properties. *)

TypeOK ==
    /\ agent \in [Agents -> [level : Levels, fit : Fits]]
    /\ cap \in [Capsules -> [status : Statuses, alloc : 0..Max({Budget, ManualCapital}),
                             pnl : Int, failing : BOOLEAN, tagged : BOOLEAN]]
    /\ pass.pc \in {"idle", "breaker", "clusters", "select", "promote"}
    /\ pass.pc = "promote" => /\ pass.todo \subseteq DOMAIN pass.plan
                              /\ DOMAIN pass.plan = DOMAIN chosen
    /\ DOMAIN chosen \subseteq Agents
    /\ settled \in BOOLEAN

\* After a completed pass, and until somebody interferes, the auto-live capsules
\* that can trade are exactly those of the agents it chose, and they are live:
\* a pass creates, reactivates and pauses whatever its predecessors left behind.
LiveAreTheChosen ==
    settled => /\ {a \in Agents : Active(a)} = DOMAIN chosen
               /\ \A a \in DOMAIN chosen : cap[a].status = "live"

\* Their capital adds up to the budget: rounding may move half a cent, and a
\* difference of a cent is left alone, per capsule.
CapitalAddsUp ==
    settled /\ chosen # <<>> =>
        LET n == Cardinality(DOMAIN chosen)
            total == CapitalOf(DOMAIN chosen)
        IN 2 * (total - Budget) <= 3 * n /\ 2 * (Budget - total) <= 3 * n

\* Each has its floor, and the fitter agent has no less capital, within the
\* cents the rebalance leaves alone.
CapitalFollowsFitness ==
    settled => \A a, b \in DOMAIN chosen :
        /\ 100 * (cap[a].alloc + 2) >= Budget * MinShare
        /\ chosen[a] > chosen[b] => cap[a].alloc + 2 >= cap[b].alloc

\* "Manually-created capsules (named differently) are untouched"
\* (auto-promote.ts:477), those bound to an agent that is promoted included: of
\* the process's steps only the guards change a capsule of the operator, and they
\* only pause one that is at work.
ManualUntouched ==
    [][events' = events =>
          \A m \in Manual :
             \/ cap'[m] = cap[m]
             \/ /\ pass.pc \in {"breaker", "clusters"} /\ Active(m)
                /\ cap'[m] = [cap[m] EXCEPT !.status = "paused"]]_vars

\* The cluster switches aggregate: what they leave at work of a family, of an
\* asset class or of everybody has lost less than its share of the capital that
\* was at work before, though no capsule alone reached its cap.  Only profits of
\* members paused with another cluster, which had offset the losses of those left,
\* may stand between (a member at a loss that is paused only helps).
ClusterLossContained ==
    [][pass.pc = "clusters" /\ pass'.pc = "select" =>
          LET total == CapitalOf({c \in Capsules : Active(c)})
              left == {c \in Capsules : cap'[c].status \in {"paper", "live"}}
              Won(C) == PnlOf({c \in C : cap[c].pnl > 0})
              Lost(C, pct) == total > 0 /\ -100 * (PnlOf(C \cap left) + Won(C \ left)) >= pct * total
          IN \A c \in left :
                /\ ~Lost({d \in Capsules : Active(d)}, KillPct)
                /\ cap[c].tagged => /\ ~Lost(Cluster(c, FamilyOf), FamilyPct)
                                    /\ ~Lost(Cluster(c, AssetOf), AssetPct)]_vars

\* A retired agent does not keep real money at work: as long as seals get past
\* the overfit gate again and again, and promote somebody, its capsule is paused
\* by one of them, whatever crashed, was reactivated or was vetoed.
RetiredLoseCapital ==
    []<>(pass.pc = "promote") =>
        \A a \in Agents : agent[a].level = "retired" ~> ~Active(a)

\* evolve.ts:523: the guards run first "so a freshly-tripped capsule isn't
\* immediately re-promoted in the same seal".
FreshTripStaysPaused ==
    [][\A c \in guarded :
          events' = events /\ cap[c].status = "paused" => cap'[c].status = "paused"]_vars
=============================================================================
