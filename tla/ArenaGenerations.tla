--------------------------- MODULE ArenaGenerations ---------------------------
(***************************************************************************)
(* The paper arena's generations: scripts/arena-tick.ts, runEvolveOnce in  *)
(* src/lib/arena/evolve.ts, and the rows of paper_generations and          *)
(* paper_agents they share through src/lib/arena/db.ts.                    *)
(*                                                                         *)
(* Each tick is an operating-system process.  The worker loop starts one   *)
(* after the other, but its timeout kills only the shell around a slow     *)
(* tick, and the supervisor starts a tick of its own when the heartbeat is *)
(* old: ticks may overlap.  A process may die anywhere; no database        *)
(* transaction spans two statements.                                       *)
(*                                                                         *)
(* A process runs  TickStart, Trade*, TickEnd  and, when the generation is *)
(* due,  Decide, Cull, Seal, Start, Breed*.                                *)
(***************************************************************************)
EXTENDS Integers, Sequences, FiniteSets, FiniteSetsExt

CONSTANTS
    Procs,          \* tick processes that can run together
    Founders,       \* agents arena:init seeds
    Presets,        \* aggressive presets added to every bred generation
    Offspring,      \* rows per survivor: child and carryover (3 in compare mode)
    EliteCount,     \* ARENA_ELITE_COUNT
    EvolveEvery,    \* ARENA_EVOLVE_EVERY
    Survivors(_),   \* partitionSurvivors: how many of n active agents breed
    Perfs,          \* track records: [entered, traded, drawn, fit]
    NewPerf,        \* that of an agent just inserted
    Pinned,         \* agents ticked whatever their generation: capsule or cohort
    MaxGen,         \* bound: the last generation, in which no tick starts
    MaxTrades,      \* bound: agents that trade in one tick
    MaxCrashes      \* bound: processes that die

\* fit orders agents as rankAgents does before it falls back on the id; drawn
\* says that max_dd_pct exceeds ARENA_ELITE_MAX_DD_PCT.
ASSUME ArenaAssumption ==
    /\ Founders \in Nat \ {0} /\ Presets \in Nat \ {0} /\ Offspring \in Nat
    /\ EliteCount \in Nat /\ EvolveEvery \in Nat \ {0}
    /\ MaxGen \in Nat \ {0} /\ MaxTrades \in Nat /\ MaxCrashes \in Nat
    /\ NewPerf \in Perfs
    /\ \A f \in Perfs : /\ {f.entered, f.traded, f.drawn} \subseteq BOOLEAN
                        /\ f.fit \in Int

VARIABLES
    gens,         \* paper_generations, by gen_number: [sealed, auto, ticks]
    agents,       \* paper_agents with alive = 1: [id -> gen, elite, perf]
    lastId,       \* the last id given
    proc,         \* [process -> where it is, and what it holds in memory]
    crashes,      \* bound: deaths so far
    demoted,      \* history: agents that lost their elite status
    overlapped,   \* history: a tick started while another was running
    interrupted   \* history: a process died between its cull and its last child

vars == <<gens, agents, lastId, proc, crashes, demoted, overlapped, interrupted>>

Idle == [pc |-> "idle"]
Newborn(g) == [gen |-> g, elite |-> FALSE, perf |-> NewPerf]
OpenGen(auto) == [sealed |-> FALSE, auto |-> auto, ticks |-> 0]

\* Generation 0 of the program is number 1 here.
Init ==
    /\ gens = <<OpenGen(FALSE)>>
    /\ agents = [a \in 1..Founders |-> Newborn(1)]
    /\ lastId = Founders
    /\ proc = [p \in Procs |-> Idle]
    /\ crashes = 0
    /\ demoted = {}
    /\ overlapped = FALSE /\ interrupted = FALSE

-----------------------------------------------------------------------------
(* Queries. *)

OpenGens == {g \in DOMAIN gens : ~gens[g].sealed}

\* getCurrentGeneration: the highest unsealed number; 0 when there is none.
Current == IF OpenGens = {} THEN 0 ELSE Max(OpenGens)

AliveIn(g) == {a \in DOMAIN agents : agents[a].gen = g}
Elites == {a \in DOMAIN agents : agents[a].elite}

\* rankAgents: by fitness, the older agent first on a tie.
Outranks(a, b) ==
    LET fa == agents[a].perf.fit
        fb == agents[b].perf.fit
    IN fa > fb \/ (fa = fb /\ a < b)

Top(k, S) == {a \in S : Cardinality({b \in S : Outranks(b, a)}) < k}

\* The rows a tick of generation g loads.
Ticked(g) == AliveIn(g) \cup Elites \cup (Pinned \cap DOMAIN agents)

\* Agents whose closed trades prove that they work.
Contenders == {a \in DOMAIN agents : agents[a].perf.traded}

\* Elites whose drawdown exceeds the cap lose their place at once, and for
\* this seal.
DrawnElites == {a \in Elites : agents[a].perf.drawn}
NewElites == Top(EliteCount, Contenders) \ DrawnElites

-----------------------------------------------------------------------------
(* A tick. *)

\* The first half, up to the first await: without an open generation the tick
\* opens one, marked "auto-opened: throughput vessel".
TickStart(p) ==
    /\ proc[p].pc = "idle"
    /\ IF Current = 0 THEN Len(gens) < MaxGen ELSE Current < MaxGen
    /\ LET g == IF Current = 0 THEN Len(gens) + 1 ELSE Current IN
       /\ gens' = IF Current = 0 THEN Append(gens, OpenGen(TRUE)) ELSE gens
       /\ proc' = [proc EXCEPT ![p] = [pc |-> "ticking", gen |-> g, rows |-> Ticked(g), trades |-> 0]]
    /\ overlapped' = (overlapped \/ \E q \in Procs : proc[q].pc # "idle")
    /\ UNCHANGED <<agents, lastId, crashes, demoted, interrupted>>

\* One agent decides and its row is written back: any track record it can have
\* reached.  Rows of agents retired in the meantime are written too, unseen.
Trade(p) ==
    /\ proc[p].pc = "ticking"
    /\ proc[p].trades < MaxTrades
    /\ \E a \in proc[p].rows \cap DOMAIN agents, f \in Perfs :
          /\ agents[a].perf.entered => f.entered
          /\ agents[a].perf.traded => f.traded
          /\ agents' = [agents EXCEPT ![a].perf = f]
    /\ proc' = [proc EXCEPT ![p].trades = @ + 1]
    /\ UNCHANGED <<gens, lastId, crashes, demoted, overlapped, interrupted>>

\* Mutated form of TickEnd.
TickEndOneEarly(p) ==
    /\ proc[p].pc = "ticking"
    /\ LET g == proc[p].gen
           n == Min({EvolveEvery, gens[g].ticks + 1})
           due == ~gens[g].auto /\ n >= EvolveEvery - 1 /\ g < MaxGen
       IN
       /\ gens' = [gens EXCEPT ![g].ticks = n]
       /\ proc' = [proc EXCEPT ![p] = IF due THEN [pc |-> "due"] ELSE Idle]
    /\ UNCHANGED <<agents, lastId, crashes, demoted, overlapped, interrupted>>

\* Mutated form of TickEnd.
TickEndDueOnce(p) ==
    /\ proc[p].pc = "ticking"
    /\ LET g == proc[p].gen
           n == Min({EvolveEvery, gens[g].ticks + 1})
           due == ~gens[g].auto /\ gens[g].ticks + 1 = EvolveEvery /\ g < MaxGen
       IN
       /\ gens' = [gens EXCEPT ![g].ticks = n]
       /\ proc' = [proc EXCEPT ![p] = IF due THEN [pc |-> "due"] ELSE Idle]
    /\ UNCHANGED <<agents, lastId, crashes, demoted, overlapped, interrupted>>

\* The tick count goes up; the tick that makes a bred generation due goes on to
\* runEvolveOnce.  (The count is capped where it stops mattering.)
TickEnd(p) ==
    /\ proc[p].pc = "ticking"
    /\ LET g == proc[p].gen
           n == Min({EvolveEvery, gens[g].ticks + 1})
           due == ~gens[g].auto /\ n = EvolveEvery /\ g < MaxGen
       IN
       /\ gens' = [gens EXCEPT ![g].ticks = n]
       /\ proc' = [proc EXCEPT ![p] = IF due THEN [pc |-> "due"] ELSE Idle]
    /\ UNCHANGED <<agents, lastId, crashes, demoted, overlapped, interrupted>>

-----------------------------------------------------------------------------
(* runEvolveOnce. *)

\* Nothing to seal, or nobody alive: sealed, and no successor.
NothingToBreed(p) ==
    /\ proc[p].pc = "due"
    /\ Current = 0 \/ AliveIn(Current) = {}
    /\ gens' = IF Current = 0 THEN gens ELSE [gens EXCEPT ![Current].sealed = TRUE]
    /\ proc' = [proc EXCEPT ![p] = Idle]
    /\ UNCHANGED <<agents, lastId, crashes, demoted, overlapped, interrupted>>

\* Mutated form of Retired.
RetiredUnlessSurvivor(g) ==
    LET pool == {a \in AliveIn(g) \ NewElites : agents[a].perf.entered}
    IN (AliveIn(g) \ NewElites) \ Top(Survivors(Cardinality(pool)), pool)

\* Culled, inactive and carried over: every agent of the generation but the
\* elites.  A survivor goes on as the rows bred from it.
Retired(g) == AliveIn(g) \ NewElites

Demotions == DrawnElites \cup (Elites \ NewElites)

\* The generation is read again: it need not be the one the process ticked.
Decide(p) ==
    /\ proc[p].pc = "due"
    /\ Current # 0 /\ Current < MaxGen /\ AliveIn(Current) # {}
    /\ LET g == Current
           pool == {a \in AliveIn(g) \ NewElites : agents[a].perf.entered}
       IN proc' = [proc EXCEPT ![p] =
             [pc |-> "deciding", gen |-> g, retire |-> Retired(g),
              promote |-> NewElites, demote |-> Demotions,
              survivors |-> Survivors(Cardinality(pool))]]
    /\ UNCHANGED <<gens, agents, lastId, crashes, demoted, overlapped, interrupted>>

\* markElite, demoteElite, retireAgent.
Cull(p) ==
    /\ proc[p].pc = "deciding"
    /\ LET d == proc[p] IN
       /\ agents' = [a \in DOMAIN agents \ d.retire |->
             [agents[a] EXCEPT !.elite = (@ /\ a \notin d.demote) \/ a \in d.promote]]
       /\ demoted' = (demoted \cup d.demote) \cap DOMAIN agents'
       /\ proc' = [proc EXCEPT ![p] =
             [pc |-> "culled", gen |-> d.gen, survivors |-> d.survivors]]
    /\ UNCHANGED <<gens, lastId, crashes, overlapped, interrupted>>

\* sealGeneration
Seal(p) ==
    /\ proc[p].pc = "culled"
    /\ gens' = [gens EXCEPT ![proc[p].gen].sealed = TRUE]
    /\ proc' = [proc EXCEPT ![p].pc = "sealed"]
    /\ UNCHANGED <<agents, lastId, crashes, demoted, overlapped, interrupted>>

Broods(p) == Offspring * proc[p].survivors + Presets

\* Mutated form of Start.
StartReplacing(p) ==
    /\ proc[p].pc = "sealed"
    /\ LET g == proc[p].gen + 1 IN
       /\ gens' = [i \in 1..Max({g, Len(gens)}) |-> IF i = g THEN OpenGen(FALSE) ELSE gens[i]]
       /\ proc' = [proc EXCEPT ![p] = [pc |-> "breeding", gen |-> g, todo |-> Broods(p)]]
    /\ UNCHANGED <<agents, lastId, crashes, demoted, overlapped, interrupted>>

\* Mutated form of Start.
StartIfSurvivors(p) ==
    /\ proc[p].pc = "sealed"
    /\ LET g == proc[p].gen + 1
           free == g \notin DOMAIN gens /\ proc[p].survivors > 0
       IN
       /\ gens' = IF free THEN Append(gens, OpenGen(FALSE)) ELSE gens
       /\ proc' = [proc EXCEPT ![p] =
             IF free THEN [pc |-> "breeding", gen |-> g, todo |-> Broods(p)] ELSE Idle]
    /\ UNCHANGED <<agents, lastId, crashes, demoted, overlapped, interrupted>>

\* startGeneration; gen_number is UNIQUE, so the process dies of the exception
\* when somebody else has opened the next generation.
Start(p) ==
    /\ proc[p].pc = "sealed"
    /\ LET g == proc[p].gen + 1
           free == g \notin DOMAIN gens
       IN
       /\ gens' = IF free THEN Append(gens, OpenGen(FALSE)) ELSE gens
       /\ proc' = [proc EXCEPT ![p] =
             IF free THEN [pc |-> "breeding", gen |-> g, todo |-> Broods(p)] ELSE Idle]
    /\ UNCHANGED <<agents, lastId, crashes, demoted, overlapped, interrupted>>

\* Mutated form of Breed.
BreedOneAhead(p) ==
    /\ proc[p].pc = "breeding"
    /\ lastId' = lastId + 1
    /\ agents' = [a \in DOMAIN agents \cup {lastId'} |->
                     IF a = lastId' THEN Newborn(proc[p].gen + 1) ELSE agents[a]]
    /\ LET d == proc[p] IN
       proc' = [proc EXCEPT ![p] = IF d.todo = 1 THEN Idle ELSE [d EXCEPT !.todo = @ - 1]]
    /\ UNCHANGED <<gens, crashes, demoted, overlapped, interrupted>>

\* Each row is inserted after an await (mutation by an LLM, replays): children,
\* then carryovers, then presets.
Breed(p) ==
    /\ proc[p].pc = "breeding"
    /\ lastId' = lastId + 1
    /\ agents' = [a \in DOMAIN agents \cup {lastId'} |->
                     IF a = lastId' THEN Newborn(proc[p].gen) ELSE agents[a]]
    /\ LET d == proc[p] IN
       proc' = [proc EXCEPT ![p] = IF d.todo = 1 THEN Idle ELSE [d EXCEPT !.todo = @ - 1]]
    /\ UNCHANGED <<gens, crashes, demoted, overlapped, interrupted>>

\* Killed, or an exception nobody catches.
Crash(p) ==
    /\ crashes < MaxCrashes
    /\ proc[p].pc # "idle"
    /\ crashes' = crashes + 1
    /\ proc' = [proc EXCEPT ![p] = Idle]
    /\ interrupted' = (interrupted \/ proc[p].pc \in {"culled", "sealed", "breeding"})
    /\ UNCHANGED <<gens, agents, lastId, demoted, overlapped>>

Evolve(p) ==
    NothingToBreed(p) \/ Decide(p) \/ Cull(p) \/ Seal(p) \/ Start(p) \/ Breed(p)

Next == \E p \in Procs :
    TickStart(p) \/ Trade(p) \/ TickEnd(p) \/ Evolve(p) \/ Crash(p)

\* The loop keeps starting ticks, and a process that is not killed goes on.
Advance(p) == TickStart(p) \/ TickEnd(p) \/ Evolve(p)

Spec == Init /\ [][Next]_vars /\ \A p \in Procs : WF_vars(Advance(p))

-----------------------------------------------------------------------------
(* Properties. *)

Due(g) == gens[g].ticks = EvolveEvery

TypeOK ==
    /\ gens \in Seq([sealed : BOOLEAN, auto : BOOLEAN, ticks : 0..EvolveEvery])
    /\ Len(gens) \in 1..MaxGen
    /\ lastId \in Nat
    /\ DOMAIN agents \subseteq 1..lastId
    /\ \A a \in DOMAIN agents :
          agents[a] \in [gen : DOMAIN gens, elite : BOOLEAN, perf : Perfs]
    /\ demoted \subseteq DOMAIN agents
    /\ crashes \in 0..MaxCrashes
    /\ overlapped \in BOOLEAN /\ interrupted \in BOOLEAN

\* However ticks overlap or die, at most one generation is open, and it is the
\* last: getCurrentGeneration never hides one behind another.
OneOpenGeneration == OpenGens \subseteq {Len(gens)}

\* Nobody is alive and out of reach: an agent is of the open generation (or of
\* the one just sealed, while its successor is being bred), or an elite, or has
\* been demoted from elite, unless ticks overlapped or one died while breeding.
NoForgottenAgents ==
    \/ overlapped \/ interrupted
    \/ \A a \in DOMAIN agents :
          \/ agents[a].gen = Len(gens) \/ agents[a].elite \/ a \in demoted

\* Unless ticks overlap, a generation is sealed only after its full term, and a
\* throughput vessel never: a second evolve would seal the newborn generation.
FullTerm ==
    overlapped \/ \A g \in DOMAIN gens : gens[g].sealed => Due(g) /\ ~gens[g].auto

\* A throughput vessel, which stops evolution, is only ever opened after two
\* ticks overlapped or one died between its cull and its last child.
StallsOnlyAfterAccident ==
    overlapped \/ interrupted \/ \A g \in DOMAIN gens : ~gens[g].auto

\* Every bred generation but the last of the bound is sealed in the end, even
\* when ticks overlap and die; and, but for those accidents, one is bred from it.
Succession ==
    \A g \in 1..(MaxGen - 1) :
        (g \in OpenGens /\ ~gens[g].auto)
            ~> /\ g \in DOMAIN gens /\ gens[g].sealed
               /\ \/ overlapped \/ interrupted
                  \/ g + 1 \in DOMAIN gens /\ AliveIn(g + 1) # {}
=============================================================================
