------------------------ MODULE ArenaGenerationsProofs ------------------------
(***************************************************************************)
(* Theorems about ArenaGenerations, for any number of tick processes,      *)
(* agents, generations and deaths, and any way of choosing survivors.      *)
(***************************************************************************)
EXTENDS ArenaGenerations, SequenceTheorems, TLAPS

-----------------------------------------------------------------------------
(* The invariant, whatever accidents happen.                               *)

\* What a process holds depends on where it is.
Shaped(s) ==
    \/ s = Idle
    \/ s = [pc |-> "due"]
    \/ s = [pc |-> "ticking", gen |-> s.gen, rows |-> s.rows, trades |-> s.trades]
    \/ s = [pc |-> "deciding", gen |-> s.gen, retire |-> s.retire,
            promote |-> s.promote, demote |-> s.demote, survivors |-> s.survivors]
    \/ s = [pc |-> "culled", gen |-> s.gen, survivors |-> s.survivors]
    \/ s = [pc |-> "sealed", gen |-> s.gen, survivors |-> s.survivors]
    \/ s = [pc |-> "breeding", gen |-> s.gen, todo |-> s.todo]

Evolving == {"deciding", "culled", "sealed"}
Holding == Evolving \cup {"ticking", "breeding"}

\* A process about to open a generation has sealed the one before.
Held(s) ==
    /\ Shaped(s)
    /\ s.pc \in Holding => s.gen \in DOMAIN gens
    /\ s.pc \in Evolving => s.gen < MaxGen
    /\ s.pc = "sealed" => gens[s.gen].sealed

ProcsHeld == proc = [p \in Procs |-> proc[p]] /\ \A p \in Procs : Held(proc[p])

Inv == TypeOK /\ ProcsHeld /\ OneOpenGeneration

-----------------------------------------------------------------------------
(* The table of generations.                                               *)

Generation == [sealed : BOOLEAN, auto : BOOLEAN, ticks : 0..EvolveEvery]

\* No generation disappears or is opened again.
Grown ==
    /\ DOMAIN gens \subseteq DOMAIN gens'
    /\ \A g \in DOMAIN gens : gens[g].sealed => gens'[g].sealed

(* The smaller of two numbers, as TickEnd caps its count. *)
LEMMA MinOfTwo ==
    ASSUME NEW m \in Nat, NEW n \in Nat
    PROVE  /\ Min({m, n}) = IF m <= n THEN m ELSE n
           /\ Min({m, n}) \in 0..m
<1>1. CASE m <= n
  BY <1>1 DEF Min
<1>2. CASE ~(m <= n)
  BY <1>2 DEF Min
<1> QED
  BY <1>1, <1>2

(* What the type invariant says of the table. *)
LEMMA Table ==
    ASSUME TypeOK
    PROVE  /\ Len(gens) \in Nat \ {0} /\ MaxGen \in Nat /\ Len(gens) <= MaxGen
           /\ EvolveEvery \in Nat \ {0}
           /\ DOMAIN gens = 1..Len(gens)
           /\ gens \in Seq(Generation)
           /\ \A g \in DOMAIN gens : gens[g] \in Generation
<1>1. MaxGen \in Nat /\ EvolveEvery \in Nat \ {0}
  BY ArenaAssumption DEF ArenaAssumption
<1>2. gens \in Seq(Generation) /\ Len(gens) \in 1..MaxGen
  BY DEF TypeOK, Generation
<1>3. \A g \in 1..Len(gens) : gens[g] \in Generation
  BY <1>2, ElementOfSeq
<1> QED
  BY <1>1, <1>2, <1>3

(* A new generation is a row of the table. *)
LEMMA NewGenIsTyped == ASSUME NEW b \in BOOLEAN PROVE OpenGen(b) \in Generation
BY ArenaAssumption DEF ArenaAssumption, OpenGen, Generation

(* A generation is opened after the last one. *)
LEMMA GenAppended ==
    ASSUME TypeOK, NEW b \in BOOLEAN, gens' = Append(gens, OpenGen(b))
    PROVE  /\ gens' \in Seq(Generation)
           /\ Len(gens') = Len(gens) + 1
           /\ DOMAIN gens' = DOMAIN gens \cup {Len(gens) + 1}
           /\ \A g \in DOMAIN gens : gens'[g] = gens[g]
           /\ gens'[Len(gens) + 1] = OpenGen(b)
           /\ Grown
<1>1. gens \in Seq(Generation) /\ OpenGen(b) \in Generation /\ Len(gens) \in Nat \ {0}
      /\ DOMAIN gens = 1..Len(gens)
  BY Table, NewGenIsTyped
<1>2. gens' \in Seq(Generation) /\ Len(gens') = Len(gens) + 1
      /\ (\A g \in 1..Len(gens) : gens'[g] = gens[g]) /\ gens'[Len(gens) + 1] = OpenGen(b)
  BY <1>1, AppendProperties
<1>3. DOMAIN gens' = 1..(Len(gens) + 1)
  BY <1>1, <1>2
<1> QED
  BY <1>1, <1>2, <1>3 DEF Grown

(* The row of one generation changes, and is not reopened. *)
LEMMA GenChanged ==
    ASSUME TypeOK, NEW g \in DOMAIN gens, NEW v \in Generation, gens[g].sealed => v.sealed,
           gens' = [gens EXCEPT ![g] = v]
    PROVE  /\ gens' \in Seq(Generation)
           /\ Len(gens') = Len(gens) /\ DOMAIN gens' = DOMAIN gens
           /\ gens'[g] = v
           /\ \A h \in DOMAIN gens : h # g => gens'[h] = gens[h]
           /\ Grown
<1>1. gens \in Seq(Generation) /\ g \in 1..Len(gens)
  BY Table
<1>2. gens' \in Seq(Generation) /\ Len(gens') = Len(gens)
      /\ \A h \in 1..Len(gens) : gens'[h] = IF h = g THEN v ELSE gens[h]
  BY <1>1, ExceptSeq
<1> QED
  BY <1>1, <1>2 DEF Grown

(* With at most one generation open, the current one is the last or none. *)
LEMMA CurrentIsLast ==
    ASSUME TypeOK, OneOpenGeneration
    PROVE  \/ Current = 0 /\ OpenGens = {}
           \/ Current = Len(gens) /\ OpenGens = {Len(gens)}
<1>1. CASE OpenGens = {}
  BY <1>1 DEF Current
<1>2. CASE OpenGens # {}
  <2>1. OpenGens = {Len(gens)}
    BY <1>2 DEF OneOpenGeneration
  <2>2. Len(gens) \in Int
    BY Table
  <2>3. Max({Len(gens)}) = Len(gens)
    BY <2>2 DEF Max
  <2> QED
    BY <2>1, <2>3 DEF Current
<1> QED
  BY <1>1, <1>2

(* getCurrentGeneration returns a row. *)
LEMMA CurrentInTable ==
    ASSUME TypeOK, OneOpenGeneration, Current # 0
    PROVE  Current \in DOMAIN gens /\ Current = Len(gens) /\ ~gens[Current].sealed
<1>1. Current = Len(gens) /\ OpenGens = {Len(gens)}
  BY CurrentIsLast
<1> QED
  BY <1>1, Table DEF OpenGens

(* No generation is opened but the one after the last, when all are sealed. *)
LEMMA NoneReopened ==
    ASSUME TypeOK, OneOpenGeneration, DOMAIN gens' = DOMAIN gens, Len(gens') = Len(gens), Grown
    PROVE  OneOpenGeneration'
BY DEF OneOpenGeneration, OpenGens, Grown

(* A generation appended is the only open one, if none was. *)
LEMMA OneMore ==
    ASSUME TypeOK, gens' = Append(gens, OpenGen(FALSE)) \/ gens' = Append(gens, OpenGen(TRUE)),
           OpenGens = {}
    PROVE  OneOpenGeneration'
<1>1. Len(gens') = Len(gens) + 1 /\ DOMAIN gens' = DOMAIN gens \cup {Len(gens) + 1}
      /\ \A g \in DOMAIN gens : gens'[g] = gens[g]
  BY GenAppended
<1> QED
  BY <1>1 DEF OneOpenGeneration, OpenGens

-----------------------------------------------------------------------------
(* The processes.                                                          *)

(* Setting one process leaves the others. *)
LEMMA ProcSet ==
    ASSUME ProcsHeld, NEW p \in Procs, NEW s, proc' = [proc EXCEPT ![p] = s]
    PROVE  /\ proc' = [q \in Procs |-> proc'[q]]
           /\ proc'[p] = s
           /\ \A q \in Procs : q # p => proc'[q] = proc[q]
BY DEF ProcsHeld

(* What a process holds stays valid as the table grows. *)
LEMMA StillHeld ==
    ASSUME TypeOK, Grown, NEW s, Held(s)
    PROVE  Held(s)'
<1>1. s.pc = "sealed" => s.gen \in DOMAIN gens
  BY DEF Held, Holding, Evolving
<1> QED
  BY <1>1 DEF Held, Grown

(* One process goes on to s, and the table has only grown. *)
LEMMA ProcStep ==
    ASSUME TypeOK, ProcsHeld, NEW p \in Procs, NEW s, proc' = [proc EXCEPT ![p] = s],
           Held(s)', Grown
    PROVE  ProcsHeld'
<1>1. \A q \in Procs : Held(proc[q])
  BY DEF ProcsHeld
<1>2. \A q \in Procs : \A t : t = proc[q] => Held(t)'
  BY <1>1, StillHeld
<1>3. \A q \in Procs : \A t : t = proc'[q] => Held(t)'
  BY <1>2, ProcSet
<1> QED
  BY <1>3, ProcSet DEF ProcsHeld, Held

-----------------------------------------------------------------------------
(* Each action keeps the invariant.                                        *)

(* What remains to be shown of an action that leaves the agents alone. *)
LEMMA TypesKept ==
    ASSUME TypeOK, UNCHANGED <<agents, lastId, demoted>>,
           gens' \in Seq(Generation), Len(gens') \in 1..MaxGen, DOMAIN gens \subseteq DOMAIN gens',
           crashes' \in 0..MaxCrashes, overlapped' \in BOOLEAN, interrupted' \in BOOLEAN
    PROVE  TypeOK'
<1>1. \A a \in DOMAIN agents : agents[a] \in [gen : DOMAIN gens', elite : BOOLEAN, perf : Perfs]
  BY DEF TypeOK
<1> QED
  BY <1>1 DEF TypeOK, Generation

(* An unchanged table has grown, trivially. *)
LEMMA Same == ASSUME gens' = gens PROVE Grown
BY DEF Grown

(* The places a process can come to. *)
LEMMA Arrivals ==
    ASSUME NEW s, Shaped(s),
           s.pc \in Holding => s.gen \in DOMAIN gens',
           s.pc \in Evolving => s.gen < MaxGen,
           s.pc = "sealed" => gens'[s.gen].sealed
    PROVE  Held(s)'
BY DEF Held

(* A process that holds nothing holds nothing wrong. *)
LEMMA AtEase == \A s \in {Idle, [pc |-> "due"]} : Held(s)'
BY Arrivals DEF Shaped, Idle, Holding, Evolving

(* TickStart keeps the invariant. *)
LEMMA TickStartKeeps ==
    ASSUME Inv, NEW p \in Procs, TickStart(p)
    PROVE  Inv'
<1> PICK g : g = IF Current = 0 THEN Len(gens) + 1 ELSE Current
  OBVIOUS
<1> PICK s : s = [pc |-> "ticking", gen |-> g, rows |-> Ticked(g), trades |-> 0]
  OBVIOUS
<1>0. TypeOK /\ ProcsHeld /\ OneOpenGeneration
  BY DEF Inv
<1>1. /\ IF Current = 0 THEN Len(gens) < MaxGen ELSE Current < MaxGen
      /\ gens' = IF Current = 0 THEN Append(gens, OpenGen(TRUE)) ELSE gens
      /\ proc' = [proc EXCEPT ![p] = s]
      /\ overlapped' = (overlapped \/ \E q \in Procs : proc[q].pc # "idle")
      /\ UNCHANGED <<agents, lastId, crashes, demoted, interrupted>>
  BY DEF TickStart
<1>2. /\ gens' \in Seq(Generation) /\ Len(gens') \in 1..MaxGen /\ Grown
      /\ g \in DOMAIN gens' /\ OneOpenGeneration'
  <2>1. CASE Current = 0
    <3>1. gens' = Append(gens, OpenGen(TRUE)) /\ OpenGens = {} /\ Len(gens) < MaxGen
      BY <1>0, <1>1, <2>1, CurrentIsLast, Table
    <3>2. /\ gens' \in Seq(Generation) /\ Len(gens') = Len(gens) + 1 /\ Grown
          /\ DOMAIN gens' = DOMAIN gens \cup {Len(gens) + 1}
      BY <1>0, <3>1, GenAppended
    <3>3. Len(gens') \in 1..MaxGen
      BY <1>0, <3>1, <3>2, Table
    <3> QED
      BY <1>0, <2>1, <3>1, <3>2, <3>3, OneMore
  <2>2. CASE Current # 0
    <3>1. gens' = gens
      BY <1>1, <2>2
    <3>2. Len(gens) \in 1..MaxGen /\ gens \in Seq(Generation) /\ Current \in DOMAIN gens
      BY <1>0, <2>2, Table, CurrentInTable
    <3>3. OneOpenGeneration'
      BY <1>0, <3>1 DEF OneOpenGeneration, OpenGens
    <3> QED
      BY <2>2, <3>1, <3>2, <3>3, Same
  <2> QED
    BY <2>1, <2>2
<1>3. TypeOK'
  <2>1. overlapped' \in BOOLEAN /\ interrupted' \in BOOLEAN /\ crashes' \in 0..MaxCrashes
    BY <1>0, <1>1 DEF TypeOK
  <2> QED
    BY <1>0, <1>1, <1>2, <2>1, TypesKept DEF Grown
<1>4. Held(s)'
  BY <1>2, Arrivals DEF Shaped, Holding, Evolving
<1> QED
  BY <1>0, <1>1, <1>2, <1>3, <1>4, ProcStep DEF Inv

(* Trade keeps the invariant. *)
LEMMA TradeKeeps ==
    ASSUME Inv, NEW p \in Procs, Trade(p)
    PROVE  Inv'
<1>0. TypeOK /\ ProcsHeld /\ OneOpenGeneration
  BY DEF Inv
<1> PICK r : r = proc[p]
  OBVIOUS
<1> PICK s : s = [r EXCEPT !.trades = @ + 1]
  OBVIOUS
<1>1. PICK a \in DOMAIN agents, f \in Perfs : agents' = [agents EXCEPT ![a].perf = f]
  BY DEF Trade
<1>2. /\ r.pc = "ticking" /\ proc' = [proc EXCEPT ![p] = s]
      /\ UNCHANGED <<gens, lastId, crashes, demoted, overlapped, interrupted>>
  BY DEF Trade
<1>3. TypeOK'
  <2>1. \A b \in DOMAIN agents : agents'[b] \in [gen : DOMAIN gens', elite : BOOLEAN, perf : Perfs]
    BY <1>0, <1>1, <1>2 DEF TypeOK
  <2>2. DOMAIN agents' = DOMAIN agents
    BY <1>1
  <2> QED
    BY <1>0, <1>2, <2>1, <2>2 DEF TypeOK
<1>4. Held(s)'
  <2>1. r = [pc |-> "ticking", gen |-> r.gen, rows |-> r.rows, trades |-> r.trades]
        /\ r.gen \in DOMAIN gens
    BY <1>0, <1>2 DEF ProcsHeld, Held, Shaped, Holding, Idle
  <2>2. s = [pc |-> "ticking", gen |-> r.gen, rows |-> r.rows, trades |-> r.trades + 1]
    BY <2>1
  <2> QED
    BY <1>2, <2>1, <2>2, Arrivals DEF Shaped, Holding, Evolving
<1>5. OneOpenGeneration'
  BY <1>0, <1>2 DEF OneOpenGeneration, OpenGens
<1> QED
  BY <1>0, <1>2, <1>3, <1>4, <1>5, ProcStep, Same DEF Inv

(* What a step that touches only the row of one generation, without reopening *)
(* it, and the process has left to show.                                      *)
LEMMA RowStep ==
    ASSUME Inv, NEW p \in Procs, NEW s, NEW g \in DOMAIN gens, NEW v \in Generation,
           gens[g].sealed => v.sealed,
           gens' = [gens EXCEPT ![g] = v], proc' = [proc EXCEPT ![p] = s], Held(s)',
           UNCHANGED <<agents, lastId, crashes, demoted, overlapped, interrupted>>
    PROVE  Inv'
<1>0. TypeOK /\ ProcsHeld /\ OneOpenGeneration
  BY DEF Inv
<1>1. /\ gens' \in Seq(Generation) /\ Len(gens') = Len(gens) /\ DOMAIN gens' = DOMAIN gens /\ Grown
  BY <1>0, GenChanged
<1>2. Len(gens') \in 1..MaxGen
  BY <1>0, <1>1, Table
<1>3. overlapped' \in BOOLEAN /\ interrupted' \in BOOLEAN /\ crashes' \in 0..MaxCrashes
  BY <1>0 DEF TypeOK
<1>4. TypeOK'
  BY <1>0, <1>1, <1>2, <1>3, TypesKept
<1> QED
  BY <1>0, <1>1, <1>4, ProcStep, NoneReopened DEF Inv

(* TickEnd keeps the invariant. *)
LEMMA TickEndKeeps ==
    ASSUME Inv, NEW p \in Procs, TickEnd(p)
    PROVE  Inv'
<1>0. TypeOK /\ ProcsHeld /\ OneOpenGeneration
  BY DEF Inv
<1> PICK g : g = proc[p].gen
  OBVIOUS
<1> PICK n : n = Min({EvolveEvery, gens[g].ticks + 1})
  OBVIOUS
<1> PICK v : v = [gens[g] EXCEPT !.ticks = n]
  OBVIOUS
<1> PICK s : s = IF ~gens[g].auto /\ n = EvolveEvery /\ g < MaxGen THEN [pc |-> "due"] ELSE Idle
  OBVIOUS
<1>1. /\ proc[p].pc = "ticking" /\ gens' = [gens EXCEPT ![g] = v]
      /\ proc' = [proc EXCEPT ![p] = s]
      /\ UNCHANGED <<agents, lastId, crashes, demoted, overlapped, interrupted>>
  BY DEF TickEnd
<1>2. g \in DOMAIN gens
  BY <1>0, <1>1 DEF ProcsHeld, Held, Holding
<1>3. gens[g] \in Generation /\ EvolveEvery \in Nat
  BY <1>0, <1>2, Table
<1>4. n \in 0..EvolveEvery
  <2>1. gens[g].ticks + 1 \in Nat
    BY <1>3 DEF Generation
  <2> QED
    BY <1>3, <2>1, MinOfTwo
<1>5. v \in Generation /\ v.sealed = gens[g].sealed
  BY <1>3, <1>4 DEF Generation
<1>6. Held(s)'
  BY AtEase
<1> QED
  BY <1>1, <1>2, <1>5, <1>6, RowStep

(* A step that touches the process alone. *)
LEMMA ProcOnly ==
    ASSUME Inv, NEW p \in Procs, NEW s, proc' = [proc EXCEPT ![p] = s], Held(s)',
           crashes' \in 0..MaxCrashes, interrupted' \in BOOLEAN,
           UNCHANGED <<gens, agents, lastId, demoted, overlapped>>
    PROVE  Inv'
<1>0. TypeOK /\ ProcsHeld /\ OneOpenGeneration
  BY DEF Inv
<1>1. TypeOK'
  BY <1>0 DEF TypeOK
<1>2. OneOpenGeneration'
  BY <1>0 DEF OneOpenGeneration, OpenGens
<1> QED
  BY <1>0, <1>1, <1>2, ProcStep, Same DEF Inv

(* NothingToBreed keeps the invariant. *)
LEMMA NothingToBreedKeeps ==
    ASSUME Inv, NEW p \in Procs, NothingToBreed(p)
    PROVE  Inv'
<1>0. TypeOK /\ OneOpenGeneration /\ crashes \in 0..MaxCrashes /\ interrupted \in BOOLEAN
  BY DEF Inv, TypeOK
<1>1. /\ proc' = [proc EXCEPT ![p] = Idle]
      /\ gens' = IF Current = 0 THEN gens ELSE [gens EXCEPT ![Current].sealed = TRUE]
      /\ UNCHANGED <<agents, lastId, crashes, demoted, overlapped, interrupted>>
  BY DEF NothingToBreed
<1>2. Held(Idle)'
  BY AtEase
<1>3. CASE Current = 0
  BY <1>0, <1>1, <1>2, <1>3, ProcOnly
<1>4. CASE Current # 0
  <2> PICK g : g = Current
    OBVIOUS
  <2> PICK v : v = [gens[g] EXCEPT !.sealed = TRUE]
    OBVIOUS
  <2>1. g \in DOMAIN gens /\ gens[g] \in Generation
    BY <1>0, <1>4, CurrentInTable, Table
  <2>2. v \in Generation /\ v.sealed
    BY <2>1 DEF Generation
  <2>3. gens' = [gens EXCEPT ![g] = v]
    BY <1>1, <1>4
  <2> QED
    BY <1>1, <1>2, <2>1, <2>2, <2>3, RowStep
<1> QED
  BY <1>3, <1>4

(* Decide keeps the invariant. *)
LEMMA DecideKeeps ==
    ASSUME Inv, NEW p \in Procs, Decide(p)
    PROVE  Inv'
<1>0. TypeOK /\ OneOpenGeneration /\ crashes \in 0..MaxCrashes /\ interrupted \in BOOLEAN
  BY DEF Inv, TypeOK
<1> PICK g : g = Current
  OBVIOUS
<1> PICK s : s = [pc |-> "deciding", gen |-> g, retire |-> Retired(g),
                  promote |-> NewElites, demote |-> Demotions,
                  survivors |-> Survivors(Cardinality({a \in AliveIn(g) \ NewElites : agents[a].perf.entered}))]
  OBVIOUS
<1>1. /\ Current # 0 /\ Current < MaxGen
      /\ proc' = [proc EXCEPT ![p] = s]
      /\ UNCHANGED <<gens, agents, lastId, crashes, demoted, overlapped, interrupted>>
  BY DEF Decide
<1>2. g \in DOMAIN gens' /\ g < MaxGen
  BY <1>0, <1>1, CurrentInTable
<1>3. Held(s)'
  BY <1>2, Arrivals DEF Shaped, Holding, Evolving
<1> QED
  BY <1>0, <1>1, <1>3, ProcOnly

(* Cull keeps the invariant. *)
LEMMA CullKeeps ==
    ASSUME Inv, NEW p \in Procs, Cull(p)
    PROVE  Inv'
<1>0. TypeOK /\ ProcsHeld /\ OneOpenGeneration
  BY DEF Inv
<1> PICK d : d = proc[p]
  OBVIOUS
<1> PICK s : s = [pc |-> "culled", gen |-> d.gen, survivors |-> d.survivors]
  OBVIOUS
<1>1. /\ d.pc = "deciding" /\ proc' = [proc EXCEPT ![p] = s]
      /\ agents' = [a \in DOMAIN agents \ d.retire |->
                      [agents[a] EXCEPT !.elite = (@ /\ a \notin d.demote) \/ a \in d.promote]]
      /\ demoted' = (demoted \cup d.demote) \cap DOMAIN agents'
      /\ UNCHANGED <<gens, lastId, crashes, overlapped, interrupted>>
  BY DEF Cull
<1>2. d.gen \in DOMAIN gens /\ d.gen < MaxGen
  BY <1>0, <1>1 DEF ProcsHeld, Held, Holding, Evolving
<1>3. Held(s)'
  BY <1>1, <1>2, Arrivals DEF Shaped, Holding, Evolving
<1>4. TypeOK'
  <2>1. ASSUME NEW a \in DOMAIN agents'
        PROVE  agents'[a] \in [gen : DOMAIN gens', elite : BOOLEAN, perf : Perfs]
    <3>1. a \in DOMAIN agents /\ agents[a] \in [gen : DOMAIN gens, elite : BOOLEAN, perf : Perfs]
      BY <1>0, <1>1 DEF TypeOK
    <3>2. PICK b \in BOOLEAN : agents'[a] = [agents[a] EXCEPT !.elite = b]
      BY <1>1
    <3> QED
      BY <1>1, <3>1, <3>2
  <2>2. DOMAIN agents' \subseteq DOMAIN agents
    BY <1>1
  <2> QED
    BY <1>0, <1>1, <2>1, <2>2 DEF TypeOK
<1>5. OneOpenGeneration'
  BY <1>0, <1>1 DEF OneOpenGeneration, OpenGens
<1> QED
  BY <1>0, <1>1, <1>3, <1>4, <1>5, ProcStep, Same DEF Inv

(* Seal keeps the invariant. *)
LEMMA SealKeeps ==
    ASSUME Inv, NEW p \in Procs, Seal(p)
    PROVE  Inv'
<1>0. TypeOK /\ ProcsHeld /\ OneOpenGeneration
  BY DEF Inv
<1> PICK d : d = proc[p]
  OBVIOUS
<1> PICK v : v = [gens[d.gen] EXCEPT !.sealed = TRUE]
  OBVIOUS
<1> PICK s : s = [d EXCEPT !.pc = "sealed"]
  OBVIOUS
<1>1. /\ d.pc = "culled" /\ proc' = [proc EXCEPT ![p] = s]
      /\ gens' = [gens EXCEPT ![d.gen] = v]
      /\ UNCHANGED <<agents, lastId, crashes, demoted, overlapped, interrupted>>
  BY DEF Seal
<1>2. /\ d = [pc |-> "culled", gen |-> d.gen, survivors |-> d.survivors]
      /\ d.gen \in DOMAIN gens /\ d.gen < MaxGen
  BY <1>0, <1>1 DEF ProcsHeld, Held, Shaped, Holding, Evolving, Idle
<1>3. gens[d.gen] \in Generation
  BY <1>0, <1>2, Table
<1>4. v \in Generation /\ v.sealed
  BY <1>3 DEF Generation
<1>5. s = [pc |-> "sealed", gen |-> d.gen, survivors |-> d.survivors]
  BY <1>2
<1>6. gens'[d.gen].sealed /\ DOMAIN gens' = DOMAIN gens
  BY <1>0, <1>1, <1>2, <1>4, GenChanged
<1>7. Held(s)'
  BY <1>2, <1>5, <1>6, Arrivals DEF Shaped, Holding, Evolving
<1> QED
  BY <1>1, <1>2, <1>4, <1>7, RowStep

(* Start keeps the invariant. *)
LEMMA StartKeeps ==
    ASSUME Inv, NEW p \in Procs, Start(p)
    PROVE  Inv'
<1>0. TypeOK /\ ProcsHeld /\ OneOpenGeneration
  BY DEF Inv
<1> PICK g : g = proc[p].gen + 1
  OBVIOUS
<1> PICK s : s = IF g \notin DOMAIN gens THEN [pc |-> "breeding", gen |-> g, todo |-> Broods(p)] ELSE Idle
  OBVIOUS
<1>1. /\ proc[p].pc = "sealed" /\ proc' = [proc EXCEPT ![p] = s]
      /\ gens' = IF g \notin DOMAIN gens THEN Append(gens, OpenGen(FALSE)) ELSE gens
      /\ UNCHANGED <<agents, lastId, crashes, demoted, overlapped, interrupted>>
  BY DEF Start
<1>2. /\ proc[p].gen \in DOMAIN gens /\ proc[p].gen < MaxGen /\ gens[proc[p].gen].sealed
  BY <1>0, <1>1 DEF ProcsHeld, Held, Holding, Evolving
<1>3. crashes' \in 0..MaxCrashes /\ interrupted' \in BOOLEAN /\ overlapped' \in BOOLEAN
  BY <1>0, <1>1 DEF TypeOK
<1>4. CASE g \in DOMAIN gens
  BY <1>1, <1>3, <1>4, AtEase, ProcOnly
<1>5. CASE g \notin DOMAIN gens
  <2>1. proc[p].gen = Len(gens) /\ g = Len(gens) + 1 /\ Len(gens) < MaxGen
    BY <1>0, <1>2, <1>5, Table
  <2>2. OpenGens = {}
    BY <1>0, <1>2, <2>1 DEF OneOpenGeneration, OpenGens
  <2>3. /\ gens' \in Seq(Generation) /\ Len(gens') = Len(gens) + 1 /\ Grown
        /\ DOMAIN gens' = DOMAIN gens \cup {Len(gens) + 1}
    BY <1>0, <1>1, <1>5, GenAppended
  <2>4. Len(gens') \in 1..MaxGen
    BY <1>0, <2>1, <2>3, Table
  <2>5. TypeOK'
    BY <1>0, <1>1, <1>3, <2>3, <2>4, TypesKept
  <2>6. Held(s)'
    BY <1>5, <2>1, <2>3, Arrivals DEF Shaped, Holding, Evolving
  <2>7. OneOpenGeneration'
    BY <1>0, <1>1, <1>5, <2>2, OneMore
  <2> QED
    BY <1>0, <1>1, <2>3, <2>5, <2>6, <2>7, ProcStep DEF Inv
<1> QED
  BY <1>4, <1>5

(* Breed keeps the invariant. *)
LEMMA BreedKeeps ==
    ASSUME Inv, NEW p \in Procs, Breed(p)
    PROVE  Inv'
<1>0. TypeOK /\ ProcsHeld /\ OneOpenGeneration
  BY DEF Inv
<1> PICK d : d = proc[p]
  OBVIOUS
<1> PICK s : s = IF d.todo = 1 THEN Idle ELSE [d EXCEPT !.todo = @ - 1]
  OBVIOUS
<1>1. /\ d.pc = "breeding" /\ proc' = [proc EXCEPT ![p] = s]
      /\ lastId' = lastId + 1
      /\ agents' = [a \in DOMAIN agents \cup {lastId + 1} |->
                      IF a = lastId + 1 THEN Newborn(d.gen) ELSE agents[a]]
      /\ UNCHANGED <<gens, crashes, demoted, overlapped, interrupted>>
  BY DEF Breed
<1>2. d = [pc |-> "breeding", gen |-> d.gen, todo |-> d.todo] /\ d.gen \in DOMAIN gens
  <2>1. Held(d)
    BY <1>0 DEF ProcsHeld
  <2>2. d.gen \in DOMAIN gens
    BY <1>1, <2>1 DEF Held, Holding
  <2>3. Shaped(d)
    BY <2>1 DEF Held
  <2> QED
    BY <1>1, <2>2, <2>3 DEF Shaped, Idle
<1>3. Held(s)'
  <2>1. CASE d.todo = 1
    BY <2>1, AtEase
  <2>2. CASE d.todo # 1
    <3>1. s = [pc |-> "breeding", gen |-> d.gen, todo |-> d.todo - 1]
      BY <1>2, <2>2
    <3> QED
      BY <1>1, <1>2, <3>1, Arrivals DEF Shaped, Holding, Evolving
  <2> QED
    BY <2>1, <2>2
<1>4. TypeOK'
  <2>1. Newborn(d.gen) \in [gen : DOMAIN gens, elite : BOOLEAN, perf : Perfs]
    BY <1>2, ArenaAssumption DEF Newborn, ArenaAssumption
  <2>2. DOMAIN agents' \subseteq 1..(lastId + 1) /\ demoted' \subseteq DOMAIN agents'
    BY <1>0, <1>1 DEF TypeOK
  <2>3. \A a \in DOMAIN agents' : agents'[a] \in [gen : DOMAIN gens', elite : BOOLEAN, perf : Perfs]
    BY <1>0, <1>1, <2>1 DEF TypeOK
  <2>4. lastId' \in Nat /\ gens' = gens
    BY <1>0, <1>1 DEF TypeOK
  <2>5. DOMAIN agents' \subseteq 1..lastId'
    BY <1>1, <2>2
  <2> QED
    BY <1>0, <1>1, <2>2, <2>3, <2>4, <2>5 DEF TypeOK
<1>5. OneOpenGeneration'
  BY <1>0, <1>1 DEF OneOpenGeneration, OpenGens
<1> QED
  BY <1>0, <1>1, <1>3, <1>4, <1>5, ProcStep, Same DEF Inv

(* Crash keeps the invariant. *)
LEMMA CrashKeeps ==
    ASSUME Inv, NEW p \in Procs, Crash(p)
    PROVE  Inv'
<1>1. /\ crashes < MaxCrashes /\ crashes' = crashes + 1 /\ proc' = [proc EXCEPT ![p] = Idle]
      /\ interrupted' \in BOOLEAN
      /\ UNCHANGED <<gens, agents, lastId, demoted, overlapped>>
  BY DEF Crash
<1>2. crashes \in 0..MaxCrashes /\ MaxCrashes \in Nat
  BY ArenaAssumption DEF Inv, TypeOK, ArenaAssumption
<1>3. crashes' \in 0..MaxCrashes
  BY <1>1, <1>2
<1> QED
  BY <1>1, <1>3, AtEase, ProcOnly

(* Every step keeps the invariant. *)
LEMMA Step == Inv /\ [Next]_vars => Inv'
<1>1. ASSUME Inv, UNCHANGED vars
      PROVE  Inv'
  <2>1. TypeOK'
    BY <1>1 DEF Inv, TypeOK, vars
  <2>2. OneOpenGeneration'
    BY <1>1 DEF Inv, OneOpenGeneration, OpenGens, vars
  <2>3. ProcsHeld'
    BY <1>1 DEF Inv, ProcsHeld, Held, vars
  <2> QED
    BY <2>1, <2>2, <2>3 DEF Inv
<1>2. ASSUME Inv, NEW p \in Procs,
             TickStart(p) \/ Trade(p) \/ TickEnd(p) \/ Evolve(p) \/ Crash(p)
      PROVE  Inv'
  BY <1>2, TickStartKeeps, TradeKeeps, TickEndKeeps, NothingToBreedKeeps, DecideKeeps,
     CullKeeps, SealKeeps, StartKeeps, BreedKeeps, CrashKeeps DEF Evolve
<1> QED
  BY <1>1, <1>2 DEF Next

(* The initial states satisfy the invariant. *)
LEMMA Beginning == Init => Inv
<1> SUFFICES ASSUME Init PROVE Inv
  OBVIOUS
<1>1. OpenGen(FALSE) \in Generation
  BY NewGenIsTyped
<1>2. gens = <<OpenGen(FALSE)>> /\ Len(gens) = 1 /\ DOMAIN gens = {1}
  BY DEF Init
<1>2a. gens \in Seq(Generation)
  <2>1. gens = Append(<<>>, OpenGen(FALSE))
    BY <1>2
  <2> QED
    BY <1>1, <2>1, EmptySeq, AppendProperties
<1>3. TypeOK
  <2>1. Newborn(1) \in [gen : DOMAIN gens, elite : BOOLEAN, perf : Perfs]
    BY <1>2, ArenaAssumption DEF Newborn, ArenaAssumption
  <2>2. Founders \in Nat /\ MaxGen \in Nat \ {0} /\ MaxCrashes \in Nat
    BY ArenaAssumption DEF ArenaAssumption
  <2>3. lastId \in Nat /\ DOMAIN agents \subseteq 1..lastId /\ demoted \subseteq DOMAIN agents
    BY <2>2 DEF Init
  <2>4. \A a \in DOMAIN agents : agents[a] \in [gen : DOMAIN gens, elite : BOOLEAN, perf : Perfs]
    BY <2>1 DEF Init
  <2>5. gens \in Seq([sealed : BOOLEAN, auto : BOOLEAN, ticks : 0..EvolveEvery])
    BY <1>2a DEF Generation
  <2>6. Len(gens) \in 1..MaxGen /\ crashes \in 0..MaxCrashes
    BY <1>2, <2>2 DEF Init
  <2>7. overlapped \in BOOLEAN /\ interrupted \in BOOLEAN
    BY DEF Init
  <2> QED
    BY <2>3, <2>4, <2>5, <2>6, <2>7 DEF TypeOK
<1>4. OneOpenGeneration
  BY <1>2 DEF OneOpenGeneration, OpenGens
<1>5. ProcsHeld
  BY DEF Init, ProcsHeld, Held, Shaped, Idle, Holding, Evolving
<1> QED
  BY <1>3, <1>4, <1>5 DEF Inv

(* The inductive invariant: whatever overlaps and dies, the table and what each  *)
(* process holds of it agree.                                                     *)
THEOREM Invariance == Spec => []Inv
BY Beginning, Step, PTL DEF Spec

(* The tables are well typed, and every agent is of a generation that exists. *)
THEOREM TypeCorrect == Spec => []TypeOK
<1>1. Inv => TypeOK
  BY DEF Inv
<1> QED
  BY <1>1, Invariance, PTL

(* However ticks overlap and die, at most one generation is open: the last. *)
THEOREM OneOpen == Spec => []OneOpenGeneration
<1>1. Inv => OneOpenGeneration
  BY DEF Inv
<1> QED
  BY <1>1, Invariance, PTL

-----------------------------------------------------------------------------
(* As long as ticks do not overlap, a generation keeps to its schedule.    *)

Alone ==
    \A p, q \in Procs : proc[p].pc # "idle" /\ proc[q].pc # "idle" => p = q

Before == {"due", "deciding", "culled"}
Open == Before \cup {"ticking", "breeding"}

\* The process is busy with the last generation: open until it seals it, and due
\* for that once it has decided to.
OnTime(s) ==
    /\ s.pc \in Holding => s.gen = Len(gens)
    /\ s.pc \in Open => ~gens[Len(gens)].sealed
    /\ s.pc \in Before => Due(Len(gens)) /\ ~gens[Len(gens)].auto

Regular ==
    /\ overlapped \/ (Alone /\ \A p \in Procs : OnTime(proc[p]))
    /\ FullTerm

(* When the only busy process steps, the others stay idle. *)
LEMMA AloneStep ==
    ASSUME ProcsHeld, Alone, NEW p \in Procs, proc[p].pc # "idle", NEW s,
           proc' = [proc EXCEPT ![p] = s]
    PROVE  Alone' /\ proc'[p] = s /\ \A q \in Procs : q # p => proc'[q].pc = "idle"
<1>1. proc'[p] = s /\ \A q \in Procs : q # p => proc'[q] = proc[q]
  BY ProcSet
<1>2. \A q \in Procs : q # p => proc'[q].pc = "idle"
  BY <1>1 DEF Alone
<1> QED
  BY <1>1, <1>2 DEF Alone

(* An idle process owes the table nothing. *)
LEMMA IdleOnTime == \A s : s.pc = "idle" => OnTime(s)'
BY DEF OnTime, Holding, Evolving, Open, Before

(* What a step of a process that runs alone has left to show. *)
LEMMA RegularStep ==
    ASSUME ProcsHeld, Regular, NEW p \in Procs, proc[p].pc # "idle", NEW s,
           proc' = [proc EXCEPT ![p] = s], overlapped' = overlapped,
           ~overlapped => OnTime(s)' /\ FullTerm'
    PROVE  Regular'
<1>1. CASE overlapped
  BY <1>1 DEF Regular, FullTerm
<1>2. CASE ~overlapped
  <2>1. Alone' /\ proc'[p] = s /\ \A q \in Procs : q # p => proc'[q].pc = "idle"
    BY <1>2, AloneStep DEF Regular
  <2>2. \A q \in Procs : \A t : t = proc'[q] => OnTime(t)'
    BY <1>2, <2>1, IdleOnTime
  <2> QED
    BY <1>2, <2>1, <2>2 DEF Regular, OnTime
<1> QED
  BY <1>1, <1>2

(* Steps that leave the history and the processes keep Regular. *)
LEMMA RegularSame ==
    ASSUME ProcsHeld, Regular, NEW p \in Procs, proc[p].pc # "idle", NEW s,
           proc' = [proc EXCEPT ![p] = s], overlapped' = overlapped, gens' = gens,
           ~overlapped => OnTime(s)
    PROVE  Regular'
<1>1. ~overlapped => OnTime(s)' /\ FullTerm'
  BY DEF OnTime, FullTerm, Due, Regular
<1> QED
  BY <1>1, RegularStep

(* TickStart keeps Regular. *)
LEMMA TickStartRegular ==
    ASSUME Inv, Regular, NEW p \in Procs, TickStart(p)
    PROVE  Regular'
<1> PICK g : g = IF Current = 0 THEN Len(gens) + 1 ELSE Current
  OBVIOUS
<1> PICK s : s = [pc |-> "ticking", gen |-> g, rows |-> Ticked(g), trades |-> 0]
  OBVIOUS
<1>0. TypeOK /\ ProcsHeld /\ OneOpenGeneration
  BY DEF Inv
<1>1. /\ gens' = IF Current = 0 THEN Append(gens, OpenGen(TRUE)) ELSE gens
      /\ proc' = [proc EXCEPT ![p] = s]
      /\ overlapped' = (overlapped \/ \E q \in Procs : proc[q].pc # "idle")
  BY DEF TickStart
<1>2. CASE overlapped'
  BY <1>2 DEF Regular, FullTerm
<1>3. CASE ~overlapped'
  <2>1. ~overlapped /\ \A q \in Procs : proc[q].pc = "idle"
    BY <1>1, <1>3
  <2>2. proc'[p] = s /\ \A q \in Procs : q # p => proc'[q].pc = "idle"
    BY <1>0, <1>1, <2>1, ProcSet
  <2>3. Alone'
    BY <2>2 DEF Alone
  <2>4. g = Len(gens') /\ ~gens'[Len(gens')].sealed /\ FullTerm'
    <3>1. CASE Current = 0
      <4>1. /\ Len(gens') = Len(gens) + 1 /\ DOMAIN gens' = DOMAIN gens \cup {Len(gens) + 1}
            /\ \A h \in DOMAIN gens : gens'[h] = gens[h]
            /\ gens'[Len(gens) + 1] = OpenGen(TRUE)
        BY <1>0, <1>1, <3>1, GenAppended
      <4> QED
        BY <2>1, <3>1, <4>1 DEF OpenGen, Regular, FullTerm, Due
    <3>2. CASE Current # 0
      BY <1>0, <1>1, <2>1, <3>2, CurrentInTable DEF Regular, FullTerm, Due
    <3> QED
      BY <3>1, <3>2
  <2>5. OnTime(s)'
    BY <2>4 DEF OnTime, Before
  <2>6. \A q \in Procs : \A t : t = proc'[q] => OnTime(t)'
    BY <2>2, <2>5, IdleOnTime
  <2> QED
    BY <2>3, <2>4, <2>6 DEF Regular, OnTime
<1> QED
  BY <1>2, <1>3

(* Trade keeps Regular. *)
LEMMA TradeRegular ==
    ASSUME Inv, Regular, NEW p \in Procs, Trade(p)
    PROVE  Regular'
<1>0. ProcsHeld
  BY DEF Inv
<1> PICK r : r = proc[p]
  OBVIOUS
<1> PICK s : s = [r EXCEPT !.trades = @ + 1]
  OBVIOUS
<1>1. /\ r.pc = "ticking" /\ proc' = [proc EXCEPT ![p] = s]
      /\ gens' = gens /\ overlapped' = overlapped
  BY DEF Trade
<1>2. Shaped(r)
  BY <1>0 DEF ProcsHeld, Held
<1>3. r = [pc |-> "ticking", gen |-> r.gen, rows |-> r.rows, trades |-> r.trades]
  BY <1>1, <1>2 DEF Shaped, Idle
<1>4. s.pc = r.pc /\ s.gen = r.gen
  BY <1>3
<1>5. ~overlapped => OnTime(s)
  BY <1>4 DEF Regular, OnTime
<1> QED
  BY <1>0, <1>1, <1>5, RegularSame

(* TickEnd keeps Regular. *)
LEMMA TickEndRegular ==
    ASSUME Inv, Regular, NEW p \in Procs, TickEnd(p)
    PROVE  Regular'
<1>0. TypeOK /\ ProcsHeld
  BY DEF Inv
<1> PICK g : g = proc[p].gen
  OBVIOUS
<1> PICK n : n = Min({EvolveEvery, gens[g].ticks + 1})
  OBVIOUS
<1> PICK v : v = [gens[g] EXCEPT !.ticks = n]
  OBVIOUS
<1> PICK s : s = IF ~gens[g].auto /\ n = EvolveEvery /\ g < MaxGen THEN [pc |-> "due"] ELSE Idle
  OBVIOUS
<1>1. /\ proc[p].pc = "ticking" /\ gens' = [gens EXCEPT ![g] = v]
      /\ proc' = [proc EXCEPT ![p] = s] /\ overlapped' = overlapped
  BY DEF TickEnd
<1>2. ASSUME ~overlapped
      PROVE  OnTime(s)' /\ FullTerm'
  <2>1. g = Len(gens) /\ ~gens[Len(gens)].sealed
    BY <1>1, <1>2 DEF Regular, OnTime, Holding, Evolving, Open, Before
  <2>2. g \in DOMAIN gens /\ gens[g] \in Generation /\ Len(gens) \in Nat
    BY <1>0, <2>1, Table
  <2>3. v.sealed = gens[g].sealed /\ v.auto = gens[g].auto /\ v.ticks = n
    BY <2>2 DEF Generation
  <2>4. /\ Len(gens') = Len(gens) /\ DOMAIN gens' = DOMAIN gens /\ gens'[g] = v
        /\ \A h \in DOMAIN gens : h # g => gens'[h] = gens[h]
    BY <1>1, <2>2
  <2>5. FullTerm'
    BY <1>2, <2>1, <2>3, <2>4 DEF Regular, FullTerm, Due
  <2>6. s.pc = "due" => n = EvolveEvery /\ ~gens[g].auto
    BY DEF Idle
  <2>7. s.pc \in {"due", "idle"}
    BY DEF Idle
  <2> QED
    BY <2>1, <2>3, <2>4, <2>5, <2>6, <2>7 DEF OnTime, Holding, Evolving, Open, Before, Due
<1> QED
  BY <1>0, <1>1, <1>2, RegularStep

(* NothingToBreed keeps Regular. *)
LEMMA NothingToBreedRegular ==
    ASSUME Inv, Regular, NEW p \in Procs, NothingToBreed(p)
    PROVE  Regular'
<1>0. TypeOK /\ ProcsHeld /\ OneOpenGeneration
  BY DEF Inv
<1>1. /\ proc[p].pc = "due" /\ proc' = [proc EXCEPT ![p] = Idle] /\ overlapped' = overlapped
      /\ gens' = IF Current = 0 THEN gens ELSE [gens EXCEPT ![Current].sealed = TRUE]
  BY DEF NothingToBreed
<1>2. ASSUME ~overlapped
      PROVE  FullTerm'
  <2>1. Due(Len(gens)) /\ ~gens[Len(gens)].auto
    BY <1>1, <1>2 DEF Regular, OnTime, Before
  <2>2. CASE Current = 0
    BY <1>1, <1>2, <2>2 DEF Regular, FullTerm, Due
  <2>3. CASE Current # 0
    <3> PICK g : g = Current
      OBVIOUS
    <3>1. g \in DOMAIN gens /\ g = Len(gens) /\ gens[g] \in Generation
      BY <1>0, <2>3, CurrentInTable, Table
    <3> PICK v : v = [gens[g] EXCEPT !.sealed = TRUE]
      OBVIOUS
    <3>2. v.auto = gens[g].auto /\ v.ticks = gens[g].ticks
      BY <3>1 DEF Generation
    <3>3. gens' = [gens EXCEPT ![g] = v]
      BY <1>1, <2>3
    <3> QED
      BY <1>2, <2>1, <3>1, <3>2, <3>3 DEF Regular, FullTerm, Due
  <2> QED
    BY <2>2, <2>3
<1>3. OnTime(Idle)'
  BY IdleOnTime DEF Idle
<1> QED
  BY <1>0, <1>1, <1>2, <1>3, RegularStep

(* Decide keeps Regular. *)
LEMMA DecideRegular ==
    ASSUME Inv, Regular, NEW p \in Procs, Decide(p)
    PROVE  Regular'
<1>0. TypeOK /\ ProcsHeld /\ OneOpenGeneration
  BY DEF Inv
<1> PICK g : g = Current
  OBVIOUS
<1> PICK s : s = [pc |-> "deciding", gen |-> g, retire |-> Retired(g),
                  promote |-> NewElites, demote |-> Demotions,
                  survivors |-> Survivors(Cardinality({a \in AliveIn(g) \ NewElites : agents[a].perf.entered}))]
  OBVIOUS
<1>1. /\ Current # 0 /\ proc[p].pc = "due" /\ proc' = [proc EXCEPT ![p] = s]
      /\ gens' = gens /\ overlapped' = overlapped
  BY DEF Decide
<1>2. s.pc = "deciding" /\ s.gen = Len(gens)
  BY <1>0, <1>1, CurrentInTable
<1>3. ~overlapped => OnTime(s)
  BY <1>1, <1>2 DEF Regular, OnTime, Open, Before
<1> QED
  BY <1>0, <1>1, <1>3, RegularSame

(* Cull keeps Regular. *)
LEMMA CullRegular ==
    ASSUME Inv, Regular, NEW p \in Procs, Cull(p)
    PROVE  Regular'
<1>0. ProcsHeld
  BY DEF Inv
<1> PICK s : s = [pc |-> "culled", gen |-> proc[p].gen, survivors |-> proc[p].survivors]
  OBVIOUS
<1>1. /\ proc[p].pc = "deciding" /\ proc' = [proc EXCEPT ![p] = s]
      /\ gens' = gens /\ overlapped' = overlapped
  BY DEF Cull
<1>2. ~overlapped => OnTime(s)
  BY <1>1 DEF Regular, OnTime, Holding, Evolving, Open, Before
<1> QED
  BY <1>0, <1>1, <1>2, RegularSame

(* Seal keeps Regular. *)
LEMMA SealRegular ==
    ASSUME Inv, Regular, NEW p \in Procs, Seal(p)
    PROVE  Regular'
<1>0. TypeOK /\ ProcsHeld
  BY DEF Inv
<1> PICK d : d = proc[p]
  OBVIOUS
<1> PICK v : v = [gens[d.gen] EXCEPT !.sealed = TRUE]
  OBVIOUS
<1> PICK s : s = [d EXCEPT !.pc = "sealed"]
  OBVIOUS
<1>1. /\ d.pc = "culled" /\ proc' = [proc EXCEPT ![p] = s]
      /\ gens' = [gens EXCEPT ![d.gen] = v] /\ overlapped' = overlapped
  BY DEF Seal
<1>2. Shaped(d)
  BY <1>0 DEF ProcsHeld, Held
<1>3. d = [pc |-> "culled", gen |-> d.gen, survivors |-> d.survivors]
  BY <1>1, <1>2 DEF Shaped, Idle
<1>4. s.pc = "sealed" /\ s.gen = d.gen
  BY <1>3
<1>5. ASSUME ~overlapped
      PROVE  OnTime(s)' /\ FullTerm'
  <2>1. d.gen = Len(gens) /\ Due(Len(gens)) /\ ~gens[Len(gens)].auto
    BY <1>1, <1>5 DEF Regular, OnTime, Holding, Evolving, Before
  <2>2. d.gen \in DOMAIN gens /\ gens[d.gen] \in Generation
    BY <1>0, <2>1, Table
  <2>3. v.auto = gens[d.gen].auto /\ v.ticks = gens[d.gen].ticks
    BY <2>2 DEF Generation
  <2>4. FullTerm'
    BY <1>1, <1>5, <2>1, <2>2, <2>3 DEF Regular, FullTerm, Due
  <2>5. Len(gens') = Len(gens)
    BY <1>1
  <2> QED
    BY <1>4, <2>1, <2>4, <2>5 DEF OnTime, Open, Before
<1> QED
  BY <1>0, <1>1, <1>5, RegularStep

(* Start keeps Regular. *)
LEMMA StartRegular ==
    ASSUME Inv, Regular, NEW p \in Procs, Start(p)
    PROVE  Regular'
<1>0. TypeOK /\ ProcsHeld
  BY DEF Inv
<1> PICK g : g = proc[p].gen + 1
  OBVIOUS
<1> PICK s : s = IF g \notin DOMAIN gens THEN [pc |-> "breeding", gen |-> g, todo |-> Broods(p)] ELSE Idle
  OBVIOUS
<1>1. /\ proc[p].pc = "sealed" /\ proc' = [proc EXCEPT ![p] = s]
      /\ gens' = IF g \notin DOMAIN gens THEN Append(gens, OpenGen(FALSE)) ELSE gens
      /\ overlapped' = overlapped
  BY DEF Start
<1>2. ASSUME ~overlapped
      PROVE  OnTime(s)' /\ FullTerm'
  <2>1. proc[p].gen = Len(gens)
    BY <1>1, <1>2 DEF Regular, OnTime, Holding, Evolving
  <2>2. g = Len(gens) + 1 /\ g \notin DOMAIN gens
    BY <1>0, <2>1, Table
  <2>3. /\ Len(gens') = Len(gens) + 1 /\ DOMAIN gens' = DOMAIN gens \cup {Len(gens) + 1}
        /\ \A h \in DOMAIN gens : gens'[h] = gens[h]
        /\ gens'[Len(gens) + 1] = OpenGen(FALSE)
    BY <1>0, <1>1, <2>2, GenAppended
  <2>4. s.pc = "breeding" /\ s.gen = Len(gens') /\ ~gens'[Len(gens')].sealed
    BY <2>2, <2>3 DEF OpenGen
  <2>5. FullTerm'
    BY <1>2, <2>3 DEF Regular, FullTerm, Due, OpenGen
  <2> QED
    BY <2>4, <2>5 DEF OnTime, Before
<1> QED
  BY <1>0, <1>1, <1>2, RegularStep

(* Breed keeps Regular. *)
LEMMA BreedRegular ==
    ASSUME Inv, Regular, NEW p \in Procs, Breed(p)
    PROVE  Regular'
<1>0. ProcsHeld
  BY DEF Inv
<1> PICK d : d = proc[p]
  OBVIOUS
<1> PICK s : s = IF d.todo = 1 THEN Idle ELSE [d EXCEPT !.todo = @ - 1]
  OBVIOUS
<1>1. /\ d.pc = "breeding" /\ proc' = [proc EXCEPT ![p] = s]
      /\ gens' = gens /\ overlapped' = overlapped
  BY DEF Breed
<1>2. Shaped(d)
  BY <1>0 DEF ProcsHeld, Held
<1>3. d = [pc |-> "breeding", gen |-> d.gen, todo |-> d.todo]
  BY <1>1, <1>2 DEF Shaped, Idle
<1>4. s.pc = "idle" \/ (s.pc = d.pc /\ s.gen = d.gen)
  BY <1>3 DEF Idle
<1>5. ~overlapped => OnTime(s)
  BY <1>4 DEF Regular, OnTime, Holding, Evolving, Open, Before
<1> QED
  BY <1>0, <1>1, <1>5, RegularSame

(* Crash keeps Regular. *)
LEMMA CrashRegular ==
    ASSUME Inv, Regular, NEW p \in Procs, Crash(p)
    PROVE  Regular'
<1>1. /\ ProcsHeld /\ proc[p].pc # "idle" /\ proc' = [proc EXCEPT ![p] = Idle]
      /\ gens' = gens /\ overlapped' = overlapped
  BY DEF Crash, Inv
<1>2. OnTime(Idle)
  BY DEF OnTime, Idle, Holding, Evolving, Open, Before
<1> QED
  BY <1>1, <1>2, RegularSame

(* Every step keeps Regular. *)
LEMMA RegularNext == Inv /\ Regular /\ [Next]_vars => Regular'
<1>1. ASSUME Regular, UNCHANGED vars
      PROVE  Regular'
  BY <1>1 DEF Regular, Alone, OnTime, FullTerm, Due, vars
<1>2. ASSUME Inv, Regular, NEW p \in Procs,
             TickStart(p) \/ Trade(p) \/ TickEnd(p) \/ Evolve(p) \/ Crash(p)
      PROVE  Regular'
  BY <1>2, TickStartRegular, TradeRegular, TickEndRegular, NothingToBreedRegular,
     DecideRegular, CullRegular, SealRegular, StartRegular, BreedRegular, CrashRegular
     DEF Evolve
<1> QED
  BY <1>1, <1>2 DEF Next

(* Its strengthening while ticks do not overlap: one process at most is awake,    *)
(* and what it is about to seal has run its term.                                 *)
THEOREM Regularity == Spec => []Regular
<1>1. Init => Regular
  BY DEF Init, Regular, Alone, OnTime, FullTerm, OpenGen, Idle, Holding, Evolving, Open, Before
<1> QED
  BY <1>1, Invariance, RegularNext, PTL DEF Spec

(* As long as ticks do not overlap, a generation is sealed after its full term,   *)
(* and a throughput vessel never; any process may die at any statement.           *)
THEOREM RunsItsTerm == Spec => []FullTerm
<1>1. Regular => FullTerm
  BY DEF Regular
<1> QED
  BY <1>1, Regularity, PTL

-----------------------------------------------------------------------------
(* As long as no process dies while breeding either, there is always a     *)
(* populated generation to go on with, and every agent is accounted for.   *)

Between == {"culled", "sealed", "breeding"}
Undisturbed == ~overlapped /\ ~interrupted

Reachable(a) == agents[a].gen = Len(gens) \/ agents[a].elite \/ a \in demoted

\* Outside the stretch from cull to breeding the last generation is open and has
\* agents; the cull will keep only elites, and has kept only those.
Populated(s) ==
    /\ s.pc \notin Between => ~gens[Len(gens)].sealed /\ AliveIn(Len(gens)) # {}
    /\ s.pc = "deciding" => AliveIn(Len(gens)) \subseteq s.retire \cup s.promote
    /\ s.pc \in {"culled", "sealed"} =>
          \A a \in DOMAIN agents : agents[a].elite \/ a \in demoted

\* Of processes of which at most one is not idle, the busy one tells.
Busy(p) == \A q \in Procs : q # p => proc[q].pc = "idle"

Smooth ==
    Undisturbed =>
        /\ \A g \in DOMAIN gens : ~gens[g].auto
        /\ \A a \in DOMAIN agents : Reachable(a)
        /\ \A p \in Procs : Busy(p) => Populated(proc[p])

(* What a step of the only busy process has left to show. *)
LEMMA SmoothStep ==
    ASSUME ProcsHeld, Regular, NEW p \in Procs, proc[p].pc # "idle", NEW s,
           proc' = [proc EXCEPT ![p] = s], overlapped' = overlapped,
           interrupted => interrupted',
           Undisturbed /\ Undisturbed' =>
               /\ \A g \in DOMAIN gens' : ~gens'[g].auto
               /\ \A a \in DOMAIN agents' : Reachable(a)'
               /\ Populated(s)'
    PROVE  Smooth'
<1> SUFFICES ASSUME Undisturbed'
             PROVE  /\ \A g \in DOMAIN gens' : ~gens'[g].auto
                    /\ \A a \in DOMAIN agents' : Reachable(a)'
                    /\ \A q \in Procs : Busy(q)' => Populated(proc[q])'
  BY DEF Smooth
<1>1. Undisturbed /\ Alone
  BY DEF Undisturbed, Regular
<1>2. proc'[p] = s /\ \A q \in Procs : q # p => proc'[q].pc = "idle"
  BY <1>1, AloneStep
<1>3. \A q \in Procs : Busy(q)' => \A t : t = proc'[q] => Populated(t)'
  <2> SUFFICES ASSUME NEW q \in Procs, Busy(q)'
               PROVE  \A t : t = proc'[q] => Populated(t)'
    OBVIOUS
  <2>1. CASE q = p
    BY <1>1, <1>2, <2>1
  <2>2. CASE q # p
    <3>1. s.pc = "idle" /\ proc'[q].pc = "idle"
      BY <1>2, <2>2 DEF Busy
    <3>2. ~gens'[Len(gens')].sealed /\ AliveIn(Len(gens))' # {}
      BY <1>1, <3>1 DEF Populated, Between
    <3> QED
      BY <3>1, <3>2 DEF Populated
  <2> QED
    BY <2>1, <2>2
<1>4. \A q \in Procs : Busy(q)' => Populated(proc[q])'
  BY <1>3 DEF Populated
<1> QED
  BY <1>1, <1>4

(* Before the step that process is the busy one. *)
LEMMA SmoothAt ==
    ASSUME Regular, Smooth, Undisturbed, NEW p \in Procs, proc[p].pc # "idle"
    PROVE  /\ \A g \in DOMAIN gens : ~gens[g].auto
           /\ \A a \in DOMAIN agents : Reachable(a)
           /\ Populated(proc[p])
           /\ OnTime(proc[p])
<1>1. Alone
  BY DEF Undisturbed, Regular
<1>2. Busy(p)
  BY <1>1 DEF Busy, Alone
<1> QED
  BY <1>2 DEF Smooth, Regular, Undisturbed

(* TickStart keeps Smooth. *)
LEMMA TickStartSmooth ==
    ASSUME Inv, Regular, Smooth, NEW p \in Procs, TickStart(p)
    PROVE  Smooth'
<1> PICK g : g = IF Current = 0 THEN Len(gens) + 1 ELSE Current
  OBVIOUS
<1> PICK s : s = [pc |-> "ticking", gen |-> g, rows |-> Ticked(g), trades |-> 0]
  OBVIOUS
<1>0. TypeOK /\ ProcsHeld /\ OneOpenGeneration
  BY DEF Inv
<1>1. /\ gens' = IF Current = 0 THEN Append(gens, OpenGen(TRUE)) ELSE gens
      /\ proc' = [proc EXCEPT ![p] = s]
      /\ overlapped' = (overlapped \/ \E q \in Procs : proc[q].pc # "idle")
      /\ UNCHANGED <<agents, demoted, interrupted>>
  BY DEF TickStart
<1> SUFFICES ASSUME Undisturbed'
             PROVE  Smooth'
  BY DEF Smooth
<1>2. Undisturbed /\ \A q \in Procs : proc[q].pc = "idle"
  BY <1>1 DEF Undisturbed
<1>3. Populated(proc[p])
  BY <1>2 DEF Smooth, Busy
<1>4. ~gens[Len(gens)].sealed /\ AliveIn(Len(gens)) # {}
  BY <1>2, <1>3 DEF Populated, Between
<1>5. gens' = gens
  <2>1. Len(gens) \in OpenGens /\ Len(gens) # 0
    BY <1>0, <1>4, Table DEF OpenGens
  <2>2. Current # 0
    BY <1>0, <2>1, CurrentIsLast
  <2> QED
    BY <1>1, <2>2
<1>6. \A q \in Procs : proc'[q].pc \in {"idle", "ticking"}
  BY <1>0, <1>1, <1>2, ProcSet
<1>7. \A q \in Procs : Populated(proc[q])'
  BY <1>1, <1>4, <1>5, <1>6 DEF Populated, Between, AliveIn
<1> QED
  BY <1>1, <1>2, <1>5, <1>7 DEF Smooth, Reachable

(* Trade keeps Smooth. *)
LEMMA TradeSmooth ==
    ASSUME Inv, Regular, Smooth, NEW p \in Procs, Trade(p)
    PROVE  Smooth'
<1>0. TypeOK /\ ProcsHeld
  BY DEF Inv
<1> PICK r : r = proc[p]
  OBVIOUS
<1> PICK s : s = [r EXCEPT !.trades = @ + 1]
  OBVIOUS
<1>1. PICK a \in DOMAIN agents, f \in Perfs : agents' = [agents EXCEPT ![a].perf = f]
  BY DEF Trade
<1>2. /\ r.pc = "ticking" /\ proc' = [proc EXCEPT ![p] = s]
      /\ UNCHANGED <<gens, demoted, overlapped, interrupted>>
  BY DEF Trade
<1>3. Shaped(r)
  BY <1>0 DEF ProcsHeld, Held
<1>4. r = [pc |-> "ticking", gen |-> r.gen, rows |-> r.rows, trades |-> r.trades]
  BY <1>2, <1>3 DEF Shaped, Idle
<1>5. s.pc = "ticking"
  BY <1>4
<1>6. /\ DOMAIN agents' = DOMAIN agents
      /\ \A b \in DOMAIN agents : agents'[b].gen = agents[b].gen /\ agents'[b].elite = agents[b].elite
  BY <1>0, <1>1 DEF TypeOK
<1>7. AliveIn(Len(gens))' = AliveIn(Len(gens))
  BY <1>2, <1>6 DEF AliveIn
<1>8. ASSUME Undisturbed
      PROVE  /\ \A g \in DOMAIN gens' : ~gens'[g].auto
             /\ \A b \in DOMAIN agents' : Reachable(b)'
             /\ Populated(s)'
  <2>1. /\ \A g \in DOMAIN gens : ~gens[g].auto
        /\ \A b \in DOMAIN agents : Reachable(b)
        /\ Populated(r)
    BY <1>2, <1>8, SmoothAt
  <2>2. ~gens[Len(gens)].sealed /\ AliveIn(Len(gens)) # {}
    BY <1>2, <2>1 DEF Populated, Between
  <2> QED
    BY <1>2, <1>5, <1>6, <1>7, <2>1, <2>2 DEF Populated, Reachable
<1> QED
  BY <1>0, <1>2, <1>8, SmoothStep

(* TickEnd keeps Smooth. *)
LEMMA TickEndSmooth ==
    ASSUME Inv, Regular, Smooth, NEW p \in Procs, TickEnd(p)
    PROVE  Smooth'
<1>0. TypeOK /\ ProcsHeld
  BY DEF Inv
<1> PICK g : g = proc[p].gen
  OBVIOUS
<1> PICK v : v = [gens[g] EXCEPT !.ticks = Min({EvolveEvery, gens[g].ticks + 1})]
  OBVIOUS
<1> PICK s : s = IF ~gens[g].auto /\ Min({EvolveEvery, gens[g].ticks + 1}) = EvolveEvery /\ g < MaxGen
                 THEN [pc |-> "due"] ELSE Idle
  OBVIOUS
<1>1. /\ proc[p].pc = "ticking" /\ gens' = [gens EXCEPT ![g] = v]
      /\ proc' = [proc EXCEPT ![p] = s]
      /\ UNCHANGED <<agents, demoted, overlapped, interrupted>>
  BY DEF TickEnd
<1>2. s.pc \in {"due", "idle"}
  BY DEF Idle
<1>3. ASSUME Undisturbed
      PROVE  /\ \A h \in DOMAIN gens' : ~gens'[h].auto
             /\ \A b \in DOMAIN agents' : Reachable(b)'
             /\ Populated(s)'
  <2>1. /\ \A h \in DOMAIN gens : ~gens[h].auto
        /\ \A b \in DOMAIN agents : Reachable(b)
        /\ Populated(proc[p]) /\ OnTime(proc[p])
    BY <1>1, <1>3, SmoothAt
  <2>2. ~gens[Len(gens)].sealed /\ AliveIn(Len(gens)) # {} /\ g = Len(gens)
    BY <1>1, <2>1 DEF Populated, Between, OnTime, Holding
  <2>3. g \in DOMAIN gens /\ gens[g] \in Generation
    BY <1>0, <2>2, Table
  <2>4. v.sealed = gens[g].sealed /\ v.auto = gens[g].auto
    BY <2>3 DEF Generation
  <2>5. /\ Len(gens') = Len(gens) /\ DOMAIN gens' = DOMAIN gens /\ gens'[g] = v
        /\ \A h \in DOMAIN gens : h # g => gens'[h] = gens[h]
    BY <1>1, <2>3
  <2>6. AliveIn(Len(gens))' # {}
    BY <1>1, <2>2, <2>5 DEF AliveIn
  <2> QED
    BY <1>1, <1>2, <2>1, <2>2, <2>4, <2>5, <2>6 DEF Populated, Reachable
<1> QED
  BY <1>0, <1>1, <1>3, SmoothStep

(* NothingToBreed keeps Smooth. *)
LEMMA NothingToBreedSmooth ==
    ASSUME Inv, Regular, Smooth, NEW p \in Procs, NothingToBreed(p)
    PROVE  Smooth'
<1>0. TypeOK /\ ProcsHeld /\ OneOpenGeneration
  BY DEF Inv
<1>1. /\ proc[p].pc = "due" /\ (Current = 0 \/ AliveIn(Current) = {})
      /\ proc' = [proc EXCEPT ![p] = Idle]
      /\ UNCHANGED <<overlapped, interrupted>>
  BY DEF NothingToBreed
<1>2. ASSUME Undisturbed
      PROVE  FALSE
  <2>1. ~gens[Len(gens)].sealed /\ AliveIn(Len(gens)) # {}
    BY <1>1, <1>2, SmoothAt DEF Populated, Between
  <2>2. Current = Len(gens) /\ Len(gens) # 0
    BY <1>0, <2>1, CurrentIsLast, Table DEF OpenGens
  <2> QED
    BY <1>1, <2>1, <2>2
<1> QED
  BY <1>0, <1>1, <1>2, SmoothStep

(* Decide keeps Smooth. *)
LEMMA DecideSmooth ==
    ASSUME Inv, Regular, Smooth, NEW p \in Procs, Decide(p)
    PROVE  Smooth'
<1>0. TypeOK /\ ProcsHeld /\ OneOpenGeneration
  BY DEF Inv
<1> PICK g : g = Current
  OBVIOUS
<1> PICK s : s = [pc |-> "deciding", gen |-> g, retire |-> Retired(g),
                  promote |-> NewElites, demote |-> Demotions,
                  survivors |-> Survivors(Cardinality({a \in AliveIn(g) \ NewElites : agents[a].perf.entered}))]
  OBVIOUS
<1>1. /\ Current # 0 /\ proc[p].pc = "due" /\ proc' = [proc EXCEPT ![p] = s]
      /\ UNCHANGED <<gens, agents, demoted, overlapped, interrupted>>
  BY DEF Decide
<1>2. g = Len(gens)
  BY <1>0, <1>1, CurrentInTable
<1>3. AliveIn(g) \subseteq Retired(g) \cup NewElites
  BY DEF Retired
<1>4. AliveIn(Len(gens))' = AliveIn(Len(gens))
  BY <1>1 DEF AliveIn
<1>5. ASSUME Undisturbed
      PROVE  /\ \A h \in DOMAIN gens' : ~gens'[h].auto
             /\ \A b \in DOMAIN agents' : Reachable(b)'
             /\ Populated(s)'
  <2>1. /\ \A h \in DOMAIN gens : ~gens[h].auto
        /\ \A b \in DOMAIN agents : Reachable(b)
        /\ Populated(proc[p])
    BY <1>1, <1>5, SmoothAt
  <2>2. ~gens[Len(gens)].sealed /\ AliveIn(Len(gens)) # {}
    BY <1>1, <2>1 DEF Populated, Between
  <2>3. s.pc = "deciding" /\ AliveIn(Len(gens)) \subseteq s.retire \cup s.promote
    BY <1>2, <1>3
  <2> QED
    BY <1>1, <1>4, <2>1, <2>2, <2>3 DEF Populated, Reachable
<1> QED
  BY <1>0, <1>1, <1>5, SmoothStep

(* Cull keeps Smooth. *)
LEMMA CullSmooth ==
    ASSUME Inv, Regular, Smooth, NEW p \in Procs, Cull(p)
    PROVE  Smooth'
<1>0. TypeOK /\ ProcsHeld
  BY DEF Inv
<1> PICK d : d = proc[p]
  OBVIOUS
<1> PICK s : s = [pc |-> "culled", gen |-> d.gen, survivors |-> d.survivors]
  OBVIOUS
<1>1. /\ d.pc = "deciding" /\ proc' = [proc EXCEPT ![p] = s]
      /\ agents' = [a \in DOMAIN agents \ d.retire |->
                      [agents[a] EXCEPT !.elite = (@ /\ a \notin d.demote) \/ a \in d.promote]]
      /\ demoted' = (demoted \cup d.demote) \cap DOMAIN agents'
      /\ UNCHANGED <<gens, overlapped, interrupted>>
  BY DEF Cull
<1>2. ASSUME Undisturbed
      PROVE  /\ \A h \in DOMAIN gens' : ~gens'[h].auto
             /\ \A b \in DOMAIN agents' : Reachable(b)'
             /\ Populated(s)'
  <2>1. /\ \A h \in DOMAIN gens : ~gens[h].auto
        /\ \A b \in DOMAIN agents : Reachable(b)
        /\ Populated(d)
    BY <1>1, <1>2, SmoothAt
  <2>2. ASSUME NEW a \in DOMAIN agents'
        PROVE  agents'[a].elite \/ a \in demoted'
    <3>1. a \in DOMAIN agents /\ a \notin d.retire
      BY <1>1
    <3>2. agents[a] = [gen |-> agents[a].gen, elite |-> agents[a].elite, perf |-> agents[a].perf]
      BY <1>0, <3>1 DEF TypeOK
    <3>3. agents'[a].elite <=> (agents[a].elite /\ a \notin d.demote) \/ a \in d.promote
      BY <1>1, <3>1, <3>2
    <3>4. a \in demoted' <=> a \in demoted \/ a \in d.demote
      BY <1>1
    <3>5. agents[a].gen = Len(gens) => a \in d.promote
      BY <1>1, <2>1, <3>1 DEF Populated, AliveIn
    <3> QED
      BY <2>1, <3>1, <3>3, <3>4, <3>5 DEF Reachable
  <2> QED
    BY <1>1, <2>1, <2>2 DEF Populated, Reachable, Between
<1> QED
  BY <1>0, <1>1, <1>2, SmoothStep

(* Seal keeps Smooth. *)
LEMMA SealSmooth ==
    ASSUME Inv, Regular, Smooth, NEW p \in Procs, Seal(p)
    PROVE  Smooth'
<1>0. TypeOK /\ ProcsHeld
  BY DEF Inv
<1> PICK d : d = proc[p]
  OBVIOUS
<1> PICK v : v = [gens[d.gen] EXCEPT !.sealed = TRUE]
  OBVIOUS
<1> PICK s : s = [d EXCEPT !.pc = "sealed"]
  OBVIOUS
<1>1. /\ d.pc = "culled" /\ proc' = [proc EXCEPT ![p] = s]
      /\ gens' = [gens EXCEPT ![d.gen] = v]
      /\ UNCHANGED <<agents, demoted, overlapped, interrupted>>
  BY DEF Seal
<1>2. Shaped(d)
  BY <1>0 DEF ProcsHeld, Held
<1>3. d = [pc |-> "culled", gen |-> d.gen, survivors |-> d.survivors]
  BY <1>1, <1>2 DEF Shaped, Idle
<1>4. s.pc = "sealed"
  BY <1>3
<1>5. ASSUME Undisturbed
      PROVE  /\ \A h \in DOMAIN gens' : ~gens'[h].auto
             /\ \A b \in DOMAIN agents' : Reachable(b)'
             /\ Populated(s)'
  <2>1. /\ \A h \in DOMAIN gens : ~gens[h].auto
        /\ \A b \in DOMAIN agents : Reachable(b)
        /\ Populated(d) /\ OnTime(d)
    BY <1>1, <1>5, SmoothAt
  <2>2. d.gen = Len(gens)
    BY <1>1, <2>1 DEF OnTime, Holding, Evolving
  <2>3. d.gen \in DOMAIN gens /\ gens[d.gen] \in Generation
    BY <1>0, <2>2, Table
  <2>4. v.auto = gens[d.gen].auto
    BY <2>3 DEF Generation
  <2>5. /\ Len(gens') = Len(gens) /\ DOMAIN gens' = DOMAIN gens /\ gens'[d.gen] = v
        /\ \A h \in DOMAIN gens : h # d.gen => gens'[h] = gens[h]
    BY <1>1, <2>3
  <2>6. \A a \in DOMAIN agents : agents[a].elite \/ a \in demoted
    BY <1>1, <2>1 DEF Populated
  <2> QED
    BY <1>1, <1>4, <2>1, <2>4, <2>5, <2>6 DEF Populated, Reachable, Between
<1> QED
  BY <1>0, <1>1, <1>5, SmoothStep

(* Start keeps Smooth. *)
LEMMA StartSmooth ==
    ASSUME Inv, Regular, Smooth, NEW p \in Procs, Start(p)
    PROVE  Smooth'
<1>0. TypeOK /\ ProcsHeld
  BY DEF Inv
<1> PICK g : g = proc[p].gen + 1
  OBVIOUS
<1> PICK s : s = IF g \notin DOMAIN gens THEN [pc |-> "breeding", gen |-> g, todo |-> Broods(p)] ELSE Idle
  OBVIOUS
<1>1. /\ proc[p].pc = "sealed" /\ proc' = [proc EXCEPT ![p] = s]
      /\ gens' = IF g \notin DOMAIN gens THEN Append(gens, OpenGen(FALSE)) ELSE gens
      /\ UNCHANGED <<agents, demoted, overlapped, interrupted>>
  BY DEF Start
<1>2. ASSUME Undisturbed
      PROVE  /\ \A h \in DOMAIN gens' : ~gens'[h].auto
             /\ \A b \in DOMAIN agents' : Reachable(b)'
             /\ Populated(s)'
  <2>1. /\ \A h \in DOMAIN gens : ~gens[h].auto
        /\ Populated(proc[p]) /\ OnTime(proc[p])
    BY <1>1, <1>2, SmoothAt
  <2>2. proc[p].gen = Len(gens)
    BY <1>1, <2>1 DEF OnTime, Holding, Evolving
  <2>3. g = Len(gens) + 1 /\ g \notin DOMAIN gens
    BY <1>0, <2>2, Table
  <2>4. /\ DOMAIN gens' = DOMAIN gens \cup {Len(gens) + 1}
        /\ \A h \in DOMAIN gens : gens'[h] = gens[h]
        /\ gens'[Len(gens) + 1] = OpenGen(FALSE)
    BY <1>0, <1>1, <2>3, GenAppended
  <2>5. \A h \in DOMAIN gens' : ~gens'[h].auto
    BY <2>1, <2>4 DEF OpenGen
  <2>6. \A a \in DOMAIN agents : agents[a].elite \/ a \in demoted
    BY <1>1, <2>1 DEF Populated
  <2>7. s.pc = "breeding"
    BY <2>3
  <2> QED
    BY <1>1, <2>5, <2>6, <2>7 DEF Populated, Reachable, Between
<1> QED
  BY <1>0, <1>1, <1>2, SmoothStep

(* Breed keeps Smooth. *)
LEMMA BreedSmooth ==
    ASSUME Inv, Regular, Smooth, NEW p \in Procs, Breed(p)
    PROVE  Smooth'
<1>0. TypeOK /\ ProcsHeld
  BY DEF Inv
<1> PICK d : d = proc[p]
  OBVIOUS
<1> PICK s : s = IF d.todo = 1 THEN Idle ELSE [d EXCEPT !.todo = @ - 1]
  OBVIOUS
<1>1. /\ d.pc = "breeding" /\ proc' = [proc EXCEPT ![p] = s]
      /\ agents' = [a \in DOMAIN agents \cup {lastId + 1} |->
                      IF a = lastId + 1 THEN Newborn(d.gen) ELSE agents[a]]
      /\ UNCHANGED <<gens, demoted, overlapped, interrupted>>
  BY DEF Breed
<1>2. Shaped(d)
  BY <1>0 DEF ProcsHeld, Held
<1>3. d = [pc |-> "breeding", gen |-> d.gen, todo |-> d.todo]
  BY <1>1, <1>2 DEF Shaped, Idle
<1>4. s.pc \in {"idle", "breeding"}
  BY <1>3 DEF Idle
<1>5. ASSUME Undisturbed
      PROVE  /\ \A h \in DOMAIN gens' : ~gens'[h].auto
             /\ \A b \in DOMAIN agents' : Reachable(b)'
             /\ Populated(s)'
  <2>1. /\ \A h \in DOMAIN gens : ~gens[h].auto
        /\ \A b \in DOMAIN agents : Reachable(b)
        /\ OnTime(d)
    BY <1>1, <1>5, SmoothAt
  <2>2. d.gen = Len(gens) /\ ~gens[Len(gens)].sealed
    BY <1>1, <2>1 DEF OnTime, Holding, Evolving, Open
  <2>3. agents'[lastId + 1].gen = Len(gens)
    BY <1>1, <2>2 DEF Newborn
  <2>4. \A b \in DOMAIN agents' : b # lastId + 1 => b \in DOMAIN agents /\ agents'[b] = agents[b]
    BY <1>1
  <2>5. AliveIn(Len(gens))' # {}
    BY <1>1, <2>3 DEF AliveIn
  <2>6. \A b \in DOMAIN agents' : Reachable(b)'
    BY <1>1, <2>1, <2>3, <2>4 DEF Reachable
  <2> QED
    BY <1>1, <1>4, <2>1, <2>2, <2>5, <2>6 DEF Populated
<1> QED
  BY <1>0, <1>1, <1>5, SmoothStep

(* Crash keeps Smooth. *)
LEMMA CrashSmooth ==
    ASSUME Inv, Regular, Smooth, NEW p \in Procs, Crash(p)
    PROVE  Smooth'
<1>1. /\ ProcsHeld /\ proc[p].pc # "idle" /\ proc' = [proc EXCEPT ![p] = Idle]
      /\ interrupted' = (interrupted \/ proc[p].pc \in Between)
      /\ UNCHANGED <<gens, agents, demoted, overlapped>>
  BY DEF Crash, Inv, Between
<1>2. ASSUME Undisturbed, Undisturbed'
      PROVE  /\ \A h \in DOMAIN gens' : ~gens'[h].auto
             /\ \A b \in DOMAIN agents' : Reachable(b)'
             /\ Populated(Idle)'
  <2>1. /\ \A h \in DOMAIN gens : ~gens[h].auto
        /\ \A b \in DOMAIN agents : Reachable(b)
        /\ Populated(proc[p])
    BY <1>1, <1>2, SmoothAt
  <2>2. proc[p].pc \notin Between
    BY <1>1, <1>2 DEF Undisturbed
  <2>3. ~gens[Len(gens)].sealed /\ AliveIn(Len(gens)) # {}
    BY <2>1, <2>2 DEF Populated
  <2> QED
    BY <1>1, <2>1, <2>3 DEF Populated, Reachable, AliveIn, Idle
<1> QED
  BY <1>1, <1>2, SmoothStep

(* Every step keeps Smooth. *)
LEMMA SmoothNext == Inv /\ Regular /\ Smooth /\ [Next]_vars => Smooth'
<1>1. ASSUME Smooth, UNCHANGED vars
      PROVE  Smooth'
  BY <1>1 DEF Smooth, Undisturbed, Reachable, Busy, Populated, AliveIn, vars
<1>2. ASSUME Inv, Regular, Smooth, NEW p \in Procs,
             TickStart(p) \/ Trade(p) \/ TickEnd(p) \/ Evolve(p) \/ Crash(p)
      PROVE  Smooth'
  BY <1>2, TickStartSmooth, TradeSmooth, TickEndSmooth, NothingToBreedSmooth,
     DecideSmooth, CullSmooth, SealSmooth, StartSmooth, BreedSmooth, CrashSmooth
     DEF Evolve
<1> QED
  BY <1>1, <1>2 DEF Next

(* The initial states satisfy Smooth. *)
LEMMA SmoothStart == Init => Smooth
<1> SUFFICES ASSUME Init PROVE Smooth
  OBVIOUS
<1>1. /\ Len(gens) = 1 /\ DOMAIN gens = {1} /\ gens[1] = OpenGen(FALSE)
      /\ agents = [a \in 1..Founders |-> Newborn(1)] /\ \A p \in Procs : proc[p] = Idle
  BY DEF Init
<1>2. 1 \in DOMAIN agents /\ \A a \in DOMAIN agents : agents[a].gen = 1
  BY <1>1, ArenaAssumption DEF ArenaAssumption, Newborn
<1>3. AliveIn(Len(gens)) # {} /\ ~gens[1].sealed /\ ~gens[1].auto
  BY <1>1, <1>2 DEF AliveIn, OpenGen
<1>4. \A g \in DOMAIN gens : ~gens[g].auto
  BY <1>1, <1>3
<1>5. \A a \in DOMAIN agents : Reachable(a)
  BY <1>1, <1>2 DEF Reachable
<1>6. ~gens[Len(gens)].sealed
  BY <1>1, <1>3
<1>7. Populated(Idle)
  BY <1>3, <1>6 DEF Populated, Idle, Between
<1>8. \A p \in Procs : Populated(proc[p])
  BY <1>1, <1>7
<1> QED
  BY <1>4, <1>5, <1>8 DEF Smooth

(* Its strengthening while, besides, no process dies between cull and breeding.  *)
THEOREM Smoothness == Spec => []Smooth
BY SmoothStart, Invariance, Regularity, SmoothNext, PTL DEF Spec

(* Without an overlap and without a death between cull and breeding, evolution    *)
(* never stalls behind an auto-opened generation, whatever is traded or chosen.   *)
THEOREM NeverStalls == Spec => []StallsOnlyAfterAccident
<1>1. Smooth => StallsOnlyAfterAccident
  BY DEF Smooth, StallsOnlyAfterAccident, Undisturbed
<1> QED
  BY <1>1, Smoothness, PTL

(* Nor is an agent left alive out of every tick's and every cull's reach, but for *)
(* elites that lost their place.                                                  *)
THEOREM NobodyForgotten == Spec => []NoForgottenAgents
<1>1. Smooth => NoForgottenAgents
  BY DEF Smooth, NoForgottenAgents, Undisturbed, Reachable
<1> QED
  BY <1>1, Smoothness, PTL
=============================================================================
