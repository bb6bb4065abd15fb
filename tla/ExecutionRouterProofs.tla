------------------------- MODULE ExecutionRouterProofs -------------------------
(***************************************************************************)
(* Theorems about ExecutionRouter, for any number of calls, orders and     *)
(* capsules: types, ownership of ids, the halt, the refinement; and what   *)
(* relates many steps: the halt within one life of the process, the        *)
(* cooldown, the rate window, and the trade counter of a capsule with its  *)
(* trades-per-day cap.                                                     *)
(***************************************************************************)
EXTENDS ExecutionRouter, CapsuleEnvelopeProofs, FiniteSetTheorems, SequenceTheorems, TLAPS

(* The rate queue keeps its type when stale times are shifted off it. *)
LEMMA PrunedType ==
    ASSUME NEW times \in Seq(Nat), NEW t \in Nat
    PROVE  Pruned(times, t) \in Seq(Nat)
<1> DEFINE k == Cardinality(Stale(times, t))
<1>1. IsFiniteSet(1..Len(times)) /\ Stale(times, t) \subseteq 1..Len(times)
  BY FS_Interval DEF Stale
<1>2. k \in Nat
  BY <1>1, FS_Subset, FS_CardinalityType
<1>3. \A i \in k + 1 .. Len(times) : times[i] \in Nat
  BY <1>2
<1> QED
  BY <1>2, <1>3, SubSeqProperties DEF Pruned

(* check() leaves an engine behind whose baseline is still zero. *)
LEMMA AfterCheckType ==
    ASSUME NEW e \in Engines, NEW o, NEW t \in Nat
    PROVE  AfterCheck(RiskLimits, e, o, EmptyPortfolio, t) \in Engines
<1> DEFINE pruned == [e EXCEPT !.orderTimes = Pruned(@, t)]
           rolled == MaybeRollDay(pruned, EmptyPortfolio.equity, t)
<1>1. pruned \in Engines
  BY PrunedType DEF Engines
<1>2. DayOf(t) \in Nat
  BY ClockAssumption DEF DayOf
<1>3. rolled \in Engines
  BY <1>1, <1>2 DEF MaybeRollDay, EmptyPortfolio, Engines
<1>4. [rolled EXCEPT !.orderTimes = Append(@, t)] \in Engines
  BY <1>3, AppendProperties DEF Engines
<1> QED
  BY <1>1, <1>3, <1>4 DEF AfterCheck

(* What a filled order was worth is a natural number. *)
LEMMA FillType ==
    ASSUME NEW o \in Orders
    PROVE  FillOf(o).qty \in Nat /\ FillOf(o).usd \in Nat
BY InputsAssumption, FillOfType

(* Every instant lies in a day. *)
LEMMA TodayType == TypeOK => Today \in Nat
<1> SUFFICES ASSUME now \in Nat
             PROVE  Today \in Nat
  BY DEF TypeOK
<1> QED
  BY ClockAssumption DEF Today, DayOf

(* journalToCapsule leaves a table of capsule rows with the same capsules. *)
LEMMA JournaledType ==
    ASSUME TypeOK, NEW o \in Orders, NEW outcome
    PROVE  /\ DOMAIN Journaled(o, outcome) = DOMAIN capsules
           /\ \A k \in DOMAIN capsules : Journaled(o, outcome)[k] \in CapsuleRow
<1>1. Today \in Nat
  BY TodayType
<1>2. \A k \in DOMAIN capsules : capsules[k] \in CapsuleRow
  BY DEF TypeOK
<1>3. \A k \in DOMAIN capsules : ApplyFill(capsules[k], FillOf(o), Today) \in CapsuleRow
  BY <1>1, <1>2, ApplyFillType, FillType
<1> QED
  BY <1>2, <1>3 DEF Journaled

-----------------------------------------------------------------------------
(* Type correctness. *)

LEMMA NewCapsuleType == NewCapsule("live", Allocated) \in CapsuleRow
BY InputsAssumption DEF NewCapsule, CapsuleRow, CapsuleStatuses, NoDate

LEMMA VenueRefusalType == \A o : VenueRefusal(o) \in GateRefusals \cup {"none"}
BY DEF VenueRefusal, GateRefusals

(* An audit row has the type of an audit row. *)
LEMMA LogType ==
    ASSUME TypeOK, NEW o \in Orders,
           NEW e \in GateRefusals \cup OutcomeEvents \cup {"submitting"}, Log(e, o)
    PROVE  events' \in Seq(EventRow)
<1> DEFINE row == [event |-> e, id |-> o.clientOrderId, capsule |-> o.capsule,
                   day |-> Today, life |-> life]
<1>1. Today \in Nat
  BY TodayType
<1>2. o.clientOrderId \in Ids /\ o.capsule \in CapsuleIds \cup {NoCapsule}
  BY InputsAssumption DEF Ids
<1>3. row \in EventRow
  BY <1>1, <1>2 DEF EventRow, TypeOK
<1> QED
  BY <1>3, AppendProperties DEF Log, TypeOK

(* The engine's half of a call that goes on after the snapshot. *)
LEMMA EngineAfterType ==
    ASSUME TypeOK, NEW o
    PROVE  EngineAfter(o) \in Engines
BY AfterCheckType DEF EngineAfter, TypeOK

(* The initial state is typed. *)
LEMMA TypeInit == Init => TypeOK
<1> SUFFICES ASSUME Init
             PROVE  TypeOK
  OBVIOUS
<1>1. engine \in Engines
  BY DEF Init, NewEngine, Engines, NoDay
<1>2. lastSubmitAt \in [Keys -> Nat \cup {NeverTraded}]
  BY DEF Init
<1>3. DOMAIN capsules = CapsuleIds /\ \A k \in DOMAIN capsules : capsules[k] \in CapsuleRow
  BY NewCapsuleType DEF Init
<1>4. events \in Seq(EventRow) /\ received \in Seq(HandOffs)
  BY DEF Init
<1>5. call \in [Calls -> {Idle} \cup [pc : {"checked", "sent"}, order : Orders, seen : Nat]]
  BY DEF Init
<1>6. killSwitch \in KillSwitches
  BY DEF Init, KillSwitches
<1> QED
  BY <1>1, <1>2, <1>3, <1>4, <1>5, <1>6 DEF Init, TypeOK

(* Every step keeps the types, one case per action. *)
LEMMA TypeStep == TypeOK /\ [Next]_vars => TypeOK'
<1> SUFFICES ASSUME TypeOK, [Next]_vars
             PROVE  TypeOK'
  OBVIOUS
<1>1. ASSUME NEW c \in Calls, NEW o \in Orders, Duplicate(c, o)
      PROVE  TypeOK'
  BY <1>1 DEF Duplicate, TypeOK, vars, memory
<1>2. ASSUME NEW c \in Calls, NEW o \in Orders, RefusedAtEntry(c, o)
      PROVE  TypeOK'
  <2>1. events' \in Seq(EventRow)
    BY <1>2, LogType DEF RefusedAtEntry, EntryRefusal, GateRefusals
  <2> QED
    BY <1>2, <2>1 DEF RefusedAtEntry, TypeOK, Ids
<1>3. ASSUME NEW c \in Calls, NEW o \in Orders, Admit(c, o)
      PROVE  TypeOK'
  BY <1>3 DEF Admit, TypeOK, Ids
<1>4. ASSUME NEW c \in Calls, call[c].pc = "checked"
      PROVE  call[c].order \in Orders /\ call[c].seen \in Nat
  BY <1>4 DEF TypeOK, Idle
<1>5. ASSUME NEW c \in Calls, RefusedAtRisk(c)
      PROVE  TypeOK'
  <2>1. events' \in Seq(EventRow)
    BY <1>4, <1>5, LogType DEF RefusedAtRisk, GateRefusals
  <2> QED
    BY <1>5, <2>1, EngineAfterType DEF RefusedAtRisk, TypeOK
<1>6. ASSUME NEW c \in Calls, RefusedAtVenue(c)
      PROVE  TypeOK'
  <2>1. events' \in Seq(EventRow)
    BY <1>4, <1>6, LogType, VenueRefusalType DEF RefusedAtVenue
  <2> QED
    BY <1>6, <2>1, EngineAfterType DEF RefusedAtVenue, TypeOK
<1>7. ASSUME NEW c \in Calls, HandOff(c)
      PROVE  TypeOK'
  <2> DEFINE o == call[c].order
  <2>1. o \in Orders /\ call[c].seen \in Nat /\ call[c].pc = "checked"
    BY <1>4, <1>7 DEF HandOff
  <2>2. events' \in Seq(EventRow)
    BY <1>7, <2>1, LogType DEF HandOff
  <2>3. [id |-> o.clientOrderId, key |-> Key(o), at |-> now, life |-> life,
         seen |-> call[c].seen] \in HandOffs
    BY <2>1 DEF HandOffs, Ids, Keys, TypeOK
  <2>4. received' \in Seq(HandOffs)
    BY <1>7, <2>3, AppendProperties DEF HandOff, TypeOK
  <2>5. lastSubmitAt' \in [Keys -> Nat \cup {NeverTraded}]
    BY <1>7, <2>1 DEF HandOff, TypeOK, Keys
  <2>6. call' \in [Calls -> {Idle} \cup [pc : {"checked", "sent"}, order : Orders, seen : Nat]]
    <3>1. call[c] \in [pc : {"checked", "sent"}, order : Orders, seen : Nat]
      BY <2>1 DEF TypeOK, Idle
    <3>2. [call[c] EXCEPT !.pc = "sent"] \in [pc : {"checked", "sent"}, order : Orders, seen : Nat]
      BY <3>1
    <3> QED
      BY <1>7, <3>2 DEF HandOff, TypeOK
  <2> QED
    BY <1>7, <2>2, <2>4, <2>5, <2>6, EngineAfterType DEF HandOff, TypeOK
<1>8. ASSUME NEW c \in Calls, NEW outcome \in OutcomeEvents, call[c].pc = "sent", Log(outcome, call[c].order)
      PROVE  call[c].order \in Orders /\ events' \in Seq(EventRow)
  <2>1. call[c].order \in Orders
    BY <1>8 DEF TypeOK, Idle
  <2> QED
    BY <1>8, <2>1, LogType
<1>9. ASSUME NEW c \in Calls, NEW outcome \in OutcomeEvents, Answered(c, outcome)
      PROVE  TypeOK'
  <2>1. call[c].order \in Orders /\ events' \in Seq(EventRow)
    BY <1>8, <1>9 DEF Answered
  <2> QED
    BY <1>9, <2>1, JournaledType DEF Answered, TypeOK, memory
<1>10. CASE HaltAll \/ PauseNewOnly \/ HaltDone \/ Resume
  <2>1. /\ SetHalted(engine, TRUE) \in Engines
        /\ ForceRollDay(SetHalted(engine, FALSE)) \in Engines
    BY DEF SetHalted, ForceRollDay, Engines, TypeOK
  <2>2. ASSUME NEW n \in Nat, NEW S \in SUBSET DOMAIN Venues
        PROVE  /\ [killSwitch EXCEPT !.halted = TRUE, !.halting = n] \in KillSwitches
               /\ [killSwitch EXCEPT !.halted = TRUE, !.brokersHalted = S] \in KillSwitches
               /\ [killSwitch EXCEPT !.halted = FALSE, !.brokersHalted = S] \in KillSwitches
               /\ [killSwitch EXCEPT !.halting = n, !.brokersHalted = S] \in KillSwitches
    BY DEF KillSwitches, TypeOK
  <2>3. /\ killSwitch.halting + 1 \in Nat
        /\ killSwitch.halting > 0 => killSwitch.halting - 1 \in Nat
        /\ DOMAIN Venues \in SUBSET DOMAIN Venues
    BY DEF KillSwitches, TypeOK
  <2>4. CASE HaltAll
    <3>1. killSwitch' \in KillSwitches
      BY <2>2, <2>3, <2>4, Zenon DEF HaltAll
    <3> QED
      BY <2>1, <2>4, <3>1 DEF HaltAll, TypeOK
  <2>5. CASE PauseNewOnly
    <3>1. killSwitch' \in KillSwitches
      BY <2>2, <2>5 DEF PauseNewOnly
    <3> QED
      BY <2>1, <2>5, <3>1 DEF PauseNewOnly, TypeOK
  <2>6. CASE HaltDone
    <3>1. killSwitch' \in KillSwitches
      BY <2>2, <2>3, <2>6, Zenon DEF HaltDone
    <3> QED
      BY <2>6, <3>1 DEF HaltDone, TypeOK
  <2>7. CASE Resume
    <3>1. killSwitch' \in KillSwitches
      BY <2>2, <2>7 DEF Resume
    <3> QED
      BY <2>1, <2>7, <3>1 DEF Resume, TypeOK
  <2> QED
    BY <1>10, <2>4, <2>5, <2>6, <2>7
<1>11. ASSUME NEW k \in DOMAIN capsules, NEW status \in OperatorSets, SetStatus(k, status)
       PROVE  TypeOK'
  <2>1. [capsules[k] EXCEPT !.status = status] \in CapsuleRow
    BY InputsAssumption DEF TypeOK, CapsuleRow
  <2> QED
    BY <1>11, <2>1 DEF SetStatus, TypeOK, memory
<1>12. ASSUME NEW k \in DOMAIN capsules, DeleteCapsule(k)
       PROVE  TypeOK'
  BY <1>12 DEF DeleteCapsule, TypeOK, memory
<1>13. CASE Tick
  BY <1>13 DEF Tick, TypeOK, memory
<1>14. ASSUME FreshMemory
       PROVE  /\ life' \in Nat /\ orders' \in SUBSET Ids /\ engine' \in Engines
              /\ call' \in [Calls -> {Idle}]
              /\ lastSubmitAt' \in [Keys -> Nat \cup {NeverTraded}]
              /\ killSwitch' \in KillSwitches
  BY <1>14 DEF FreshMemory, KillSwitches, TypeOK, NewEngine, Engines, NoDay, NeverTraded
<1>15. CASE Restart
  BY <1>14, <1>15 DEF Restart, TypeOK
<1>16. ASSUME NEW c \in Calls, NEW outcome \in OutcomeEvents, KilledBeforeJournal(c, outcome)
       PROVE  TypeOK'
  BY <1>8, <1>14, <1>16 DEF KilledBeforeJournal, TypeOK
<1>17. ASSUME NEW c \in Calls, KilledBeforeHandOff(c)
       PROVE  TypeOK'
  <2>1. events' \in Seq(EventRow)
    BY <1>4, <1>17, LogType DEF KilledBeforeHandOff
  <2> QED
    BY <1>14, <1>17, <2>1 DEF KilledBeforeHandOff, TypeOK
<1>18. CASE UNCHANGED vars
  BY <1>18 DEF vars, memory, TypeOK
<1> QED
  BY <1>1, <1>2, <1>3, <1>5, <1>6, <1>7, <1>9, <1>10, <1>11, <1>12, <1>13, <1>15, <1>16, <1>17, <1>18
     DEF Next, Continue, Answer, OutcomeEvents

(* Every value the router, the engine, the kill switch and the tables hold is of its type. *)
THEOREM TypeCorrect == Spec => []TypeOK
BY TypeInit, TypeStep, PTL DEF Spec

-----------------------------------------------------------------------------
(* One owner for every id. *)

(* Logging adds one row and leaves the others alone. *)
LEMMA LogEffect ==
    ASSUME TypeOK, NEW o, NEW e, Log(e, o)
    PROVE  /\ DOMAIN events' = DOMAIN events \cup {Len(events) + 1}
           /\ Len(events) + 1 \notin DOMAIN events
           /\ \A n \in DOMAIN events : events'[n] = events[n]
           /\ events'[Len(events) + 1] =
                 [event |-> e, id |-> o.clientOrderId, capsule |-> o.capsule,
                  day |-> Today, life |-> life]
BY DEF Log, TypeOK

(* So does a hand-off among the hand-offs. *)
LEMMA HandOffEffect ==
    ASSUME TypeOK, NEW c \in Calls, HandOff(c)
    PROVE  /\ DOMAIN received' = DOMAIN received \cup {Len(received) + 1}
           /\ Len(received) + 1 \notin DOMAIN received
           /\ \A n \in DOMAIN received : received'[n] = received[n]
           /\ received'[Len(received) + 1] =
                 [id |-> IdOf(c), key |-> Key(call[c].order), at |-> now, life |-> life,
                  seen |-> call[c].seen]
BY DEF HandOff, TypeOK, IdOf

(* What logging makes of the status of every id, in a step of the same life. *)
LEMMA LogTraces ==
    ASSUME TypeOK, NEW o, NEW e, Log(e, o), life' = life, NEW i, NEW kinds
    PROVE  InThisLife(i, kinds)' <=> InThisLife(i, kinds) \/ (i = o.clientOrderId /\ e \in kinds)
<1> DEFINE row == [event |-> e, id |-> o.clientOrderId, capsule |-> o.capsule,
                   day |-> Today, life |-> life]
<1>0. /\ DOMAIN events' = DOMAIN events \cup {Len(events) + 1}
      /\ \A n \in DOMAIN events : events'[n] = events[n]
      /\ events'[Len(events) + 1] = row
      /\ row.life = life /\ row.id = o.clientOrderId /\ row.event = e
  BY LogEffect, Zenon
<1> HIDE DEF row
<1>1. ASSUME InThisLife(i, kinds)
      PROVE  InThisLife(i, kinds)'
  <2>1. PICK n \in DOMAIN events :
           events[n].life = life /\ events[n].id = i /\ events[n].event \in kinds
    BY <1>1 DEF InThisLife
  <2>2. n \in DOMAIN events' /\ events'[n] = events[n]
    BY <1>0
  <2> QED
    BY <2>1, <2>2 DEF InThisLife
<1>2. ASSUME i = o.clientOrderId, e \in kinds
      PROVE  InThisLife(i, kinds)'
  <2>1. /\ Len(events) + 1 \in DOMAIN events'
        /\ events'[Len(events) + 1].life = life /\ events'[Len(events) + 1].id = i
        /\ events'[Len(events) + 1].event \in kinds
    BY <1>2, <1>0
  <2> QED
    BY <2>1 DEF InThisLife
<1>3. ASSUME InThisLife(i, kinds)'
      PROVE  InThisLife(i, kinds) \/ (i = o.clientOrderId /\ e \in kinds)
  <2>1. PICK n \in DOMAIN events' :
           events'[n].life = life' /\ events'[n].id = i /\ events'[n].event \in kinds
    BY <1>3 DEF InThisLife
  <2>2. CASE n \in DOMAIN events
    BY <2>1, <2>2, <1>0 DEF InThisLife
  <2>3. CASE n = Len(events) + 1
    BY <2>1, <2>3, <1>0
  <2> QED
    BY <2>2, <2>3, <1>0
<1> QED
  BY <1>1, <1>2, <1>3

(* An id other than the logged one keeps its status. *)
LEMMA LogStatus ==
    ASSUME TypeOK, NEW o, NEW e, Log(e, o), life' = life, NEW i, i # o.clientOrderId
    PROVE  StatusOf(i)' = StatusOf(i)
<1>1. \A kinds : InThisLife(i, kinds)' <=> InThisLife(i, kinds)
  BY LogTraces
<1> QED
  BY <1>1 DEF StatusOf

(* A call that ends with a log entry leaves every other call the owner of its id. *)
LEMMA EndOfCall ==
    ASSUME TypeOK, CallsOwnTheirIds, NEW c \in Calls, NEW o, NEW e, Log(e, o),
           call' = [call EXCEPT ![c] = Idle], life' = life, received' = received,
           orders \subseteq orders', o.clientOrderId \in orders',
           \A d \in Calls : d # c /\ InProgress(d) => IdOf(d) # o.clientOrderId
    PROVE  CallsOwnTheirIds'
<1>1. \A d \in Calls : InProgress(d)' => /\ d # c /\ InProgress(d) /\ call'[d] = call[d]
                                         /\ IdOf(d)' = IdOf(d)
  BY DEF TypeOK, Idle, InProgress, IdOf
<1> DEFINE row == [event |-> e, id |-> o.clientOrderId, capsule |-> o.capsule,
                   day |-> Today, life |-> life]
<1>2. /\ DOMAIN events' = DOMAIN events \cup {Len(events) + 1}
      /\ \A n \in DOMAIN events : events'[n] = events[n]
      /\ events'[Len(events) + 1] = row
      /\ row.life = life /\ row.id = o.clientOrderId
  BY LogEffect, Zenon
<1> HIDE DEF row
<1>3. TracesAreRegistered'
  <2>1. \A n \in DOMAIN events' :
           events'[n].life <= life' /\ (events'[n].life = life' => events'[n].id \in orders')
    BY <1>2 DEF CallsOwnTheirIds, TracesAreRegistered, TypeOK
  <2>2. \A d \in Calls : InProgress(d)' => IdOf(d)' \in orders'
    BY <1>1 DEF CallsOwnTheirIds, TracesAreRegistered
  <2> QED
    BY <2>1, <2>2 DEF CallsOwnTheirIds, TracesAreRegistered
<1>4. OneOwner'
  BY <1>1 DEF CallsOwnTheirIds, OneOwner
<1>5. CheckedLeftNoTrace'
  <2>1. SUFFICES ASSUME NEW d \in Calls, call'[d].pc = "checked"
                 PROVE  /\ \A n \in DOMAIN received' : received'[n].life = life' => received'[n].id # IdOf(d)'
                        /\ \A n \in DOMAIN events' : events'[n].life = life' => events'[n].id # IdOf(d)'
    BY DEF CheckedLeftNoTrace
  <2>2. /\ d # c /\ InProgress(d) /\ call[d].pc = "checked"
        /\ IdOf(d)' = IdOf(d) /\ IdOf(d) # o.clientOrderId
    BY <1>1, <2>1 DEF InProgress
  <2> QED
    BY <1>2, <2>2 DEF CallsOwnTheirIds, CheckedLeftNoTrace
<1>6. SentIsWorking'
  <2>1. SUFFICES ASSUME NEW d \in Calls, call'[d].pc = "sent"
                 PROVE  StatusOf(IdOf(d))' = "working"
    BY DEF SentIsWorking
  <2>2. /\ InProgress(d) /\ call[d].pc = "sent"
        /\ IdOf(d)' = IdOf(d) /\ IdOf(d) # o.clientOrderId
    BY <1>1, <2>1 DEF InProgress
  <2>3. StatusOf(IdOf(d)) = "working"
    BY <2>2 DEF CallsOwnTheirIds, SentIsWorking
  <2>4. \A i : i # o.clientOrderId => StatusOf(i)' = StatusOf(i)
    BY LogStatus
  <2> QED
    BY <2>2, <2>3, <2>4
<1> QED
  BY <1>3, <1>4, <1>5, <1>6 DEF CallsOwnTheirIds

(* Passing the first gates makes a call the owner of an id that had no trace. *)
LEMMA AdmitOwns ==
    ASSUME TypeOK, CallsOwnTheirIds, NEW c \in Calls, NEW o \in Orders, Admit(c, o)
    PROVE  CallsOwnTheirIds'
<1>1. /\ life' = life /\ received' = received /\ events' = events
      /\ orders' = orders \cup {o.clientOrderId} /\ o.clientOrderId \notin orders
  BY DEF Admit
<1>2. call'[c].pc = "checked" /\ IdOf(c)' = o.clientOrderId
  BY DEF Admit, IdOf, TypeOK
<1>3. \A d \in Calls : d # c => call'[d] = call[d] /\ IdOf(d)' = IdOf(d)
  BY DEF Admit, IdOf, TypeOK
<1>4. \A i : StatusOf(i)' = StatusOf(i)
  BY <1>1 DEF StatusOf, InThisLife
<1>5. TracesAreRegistered'
  BY <1>1, <1>2, <1>3 DEF CallsOwnTheirIds, TracesAreRegistered, InProgress
<1>6. OneOwner'
  BY <1>1, <1>2, <1>3 DEF CallsOwnTheirIds, TracesAreRegistered, OneOwner, InProgress
<1>7. CheckedLeftNoTrace'
  BY <1>1, <1>2, <1>3 DEF CallsOwnTheirIds, TracesAreRegistered, CheckedLeftNoTrace
<1>8. SentIsWorking'
  BY <1>2, <1>3, <1>4 DEF CallsOwnTheirIds, SentIsWorking
<1> QED
  BY <1>5, <1>6, <1>7, <1>8 DEF CallsOwnTheirIds

(* The hand-off turns the owner's id from one without trace into a working one. *)
LEMMA HandOffOwns ==
    ASSUME TypeOK, CallsOwnTheirIds, NEW c \in Calls, HandOff(c)
    PROVE  CallsOwnTheirIds'
<1> DEFINE o == call[c].order
<1>1. /\ Log("submitting", o) /\ life' = life /\ orders' = orders
      /\ call[c].pc = "checked" /\ call' = [call EXCEPT ![c].pc = "sent"]
  BY DEF HandOff
<1>2. call'[c].pc = "sent" /\ IdOf(c)' = IdOf(c) /\ IdOf(c) = o.clientOrderId /\ InProgress(c)
  BY <1>1 DEF IdOf, TypeOK, InProgress, Idle
<1>3. \A d \in Calls : d # c => call'[d] = call[d] /\ IdOf(d)' = IdOf(d)
  BY <1>1 DEF IdOf, TypeOK
<1> DEFINE row == [event |-> "submitting", id |-> o.clientOrderId, capsule |-> o.capsule,
                   day |-> Today, life |-> life]
           shipped == [id |-> IdOf(c), key |-> Key(o), at |-> now, life |-> life,
                       seen |-> call[c].seen]
<1>4. /\ DOMAIN events' = DOMAIN events \cup {Len(events) + 1}
      /\ \A n \in DOMAIN events : events'[n] = events[n]
      /\ events'[Len(events) + 1] = row
      /\ row.life = life /\ row.id = IdOf(c)
  BY <1>1, <1>2, LogEffect, Zenon
<1>5. /\ DOMAIN received' = DOMAIN received \cup {Len(received) + 1}
      /\ \A n \in DOMAIN received : received'[n] = received[n]
      /\ received'[Len(received) + 1] = shipped
      /\ shipped.life = life /\ shipped.id = IdOf(c)
  BY HandOffEffect, Zenon
<1>6. \A i, kinds : InThisLife(i, kinds)' <=>
           InThisLife(i, kinds) \/ (i = o.clientOrderId /\ "submitting" \in kinds)
  BY <1>1, LogTraces
<1> HIDE DEF row, shipped, o
<1>7. TracesAreRegistered'
  <2>1. IdOf(c) \in orders'
    BY <1>1, <1>2 DEF CallsOwnTheirIds, TracesAreRegistered
  <2>2. \A n \in DOMAIN events' :
           events'[n].life <= life' /\ (events'[n].life = life' => events'[n].id \in orders')
    BY <1>1, <1>4, <2>1 DEF CallsOwnTheirIds, TracesAreRegistered, TypeOK
  <2>3. \A n \in DOMAIN received' :
           received'[n].life <= life' /\ (received'[n].life = life' => received'[n].id \in orders')
    BY <1>1, <1>5, <2>1 DEF CallsOwnTheirIds, TracesAreRegistered, TypeOK
  <2>4. \A d \in Calls : InProgress(d)' => IdOf(d)' \in orders'
    BY <1>1, <1>2, <1>3, <2>1 DEF CallsOwnTheirIds, TracesAreRegistered, InProgress
  <2> QED
    BY <2>2, <2>3, <2>4 DEF TracesAreRegistered
<1>8. OneOwner'
  BY <1>2, <1>3 DEF CallsOwnTheirIds, OneOwner, InProgress
<1>9. CheckedLeftNoTrace'
  <2>1. SUFFICES ASSUME NEW d \in Calls, call'[d].pc = "checked"
                 PROVE  /\ \A n \in DOMAIN received' : received'[n].life = life' => received'[n].id # IdOf(d)'
                        /\ \A n \in DOMAIN events' : events'[n].life = life' => events'[n].id # IdOf(d)'
    BY DEF CheckedLeftNoTrace
  <2>2. /\ d # c /\ call[d].pc = "checked" /\ IdOf(d)' = IdOf(d) /\ IdOf(d) # IdOf(c)
    BY <1>2, <1>3, <2>1 DEF CallsOwnTheirIds, OneOwner, InProgress
  <2> QED
    BY <1>1, <1>4, <1>5, <2>2 DEF CallsOwnTheirIds, CheckedLeftNoTrace
<1>10. SentIsWorking'
  <2>1. ASSUME NEW d \in Calls, d # c, call'[d].pc = "sent"
        PROVE  StatusOf(IdOf(d))' = "working"
    <3>1. call[d].pc = "sent" /\ IdOf(d)' = IdOf(d) /\ IdOf(d) # o.clientOrderId
      BY <1>2, <1>3, <2>1 DEF CallsOwnTheirIds, OneOwner, InProgress
    <3> QED
      BY <1>6, <3>1 DEF CallsOwnTheirIds, SentIsWorking, StatusOf
  <2>2. StatusOf(IdOf(c))' = "working"
    <3>1. ~InThisLife(IdOf(c), OutcomeEvents)
      BY <1>1 DEF CallsOwnTheirIds, CheckedLeftNoTrace, InThisLife
    <3>2. "submitting" \notin OutcomeEvents
      BY DEF OutcomeEvents
    <3> QED
      BY <1>2, <1>6, <3>1, <3>2 DEF StatusOf
  <2> QED
    BY <2>1, <2>2 DEF SentIsWorking
<1> QED
  BY <1>7, <1>8, <1>9, <1>10 DEF CallsOwnTheirIds

(* A process that starts again owns nothing, and what is there is of another life. *)
LEMMA FreshOwns ==
    ASSUME TypeOK, CallsOwnTheirIds, TypeOK', FreshMemory, received' = received,
           \A n \in DOMAIN events' : events'[n].life <= life
    PROVE  CallsOwnTheirIds'
<1>1. life' = life + 1 /\ life \in Nat /\ \A c \in Calls : call'[c].pc = "idle"
  BY DEF FreshMemory, TypeOK, Idle
<1>2. TracesAreRegistered'
  <2>1. \A n \in DOMAIN received : received[n].life <= life
    BY DEF CallsOwnTheirIds, TracesAreRegistered
  <2>2. \A n \in DOMAIN received : received[n] \in HandOffs
    BY DEF TypeOK
  <2>3. \A n \in DOMAIN received : received[n].life \in Nat
    BY <2>2 DEF HandOffs
  <2>4. \A n \in DOMAIN events' : events'[n] \in EventRow
    BY DEF TypeOK
  <2>5. \A n \in DOMAIN events' : events'[n].life \in Nat
    BY <2>4 DEF EventRow
  <2> QED
    BY <1>1, <2>1, <2>3, <2>5 DEF TracesAreRegistered, InProgress
<1> QED
  BY <1>1, <1>2 DEF CallsOwnTheirIds, OneOwner, CheckedLeftNoTrace, SentIsWorking, InProgress

(* What a process logs as it is killed belongs to the life that ends. *)
LEMMA KilledLogsThisLife ==
    ASSUME TypeOK, \A n \in DOMAIN events : events[n].life <= life,
           NEW o, NEW e, Log(e, o)
    PROVE  \A n \in DOMAIN events' : events'[n].life <= life
<1> DEFINE row == [event |-> e, id |-> o.clientOrderId, capsule |-> o.capsule,
                   day |-> Today, life |-> life]
<1>1. /\ DOMAIN events' = DOMAIN events \cup {Len(events) + 1}
      /\ \A n \in DOMAIN events : events'[n] = events[n]
      /\ events'[Len(events) + 1] = row
      /\ row.life = life
  BY LogEffect, Zenon
<1> HIDE DEF row
<1> QED
  BY <1>1 DEF TypeOK

(* Every step keeps every call in progress the owner of its id, one case per action. *)
LEMMA OwnStep == TypeOK /\ CallsOwnTheirIds /\ [Next]_vars => CallsOwnTheirIds'
<1> SUFFICES ASSUME TypeOK, CallsOwnTheirIds, [Next]_vars
             PROVE  CallsOwnTheirIds'
  OBVIOUS
<1>1. ASSUME UNCHANGED <<life, call, orders, events, received>>
      PROVE  CallsOwnTheirIds'
  BY <1>1 DEF CallsOwnTheirIds, TracesAreRegistered, OneOwner, CheckedLeftNoTrace,
              SentIsWorking, StatusOf, InThisLife, InProgress, IdOf
<1>2. ASSUME NEW c \in Calls, NEW o \in Orders, RefusedAtEntry(c, o)
      PROVE  CallsOwnTheirIds'
  <2>1. /\ Log(EntryRefusal(o), o) /\ call' = [call EXCEPT ![c] = Idle]
        /\ life' = life /\ received' = received
        /\ orders \subseteq orders' /\ o.clientOrderId \in orders' /\ o.clientOrderId \notin orders
    BY <1>2 DEF RefusedAtEntry
  <2>2. \A d \in Calls : d # c /\ InProgress(d) => IdOf(d) # o.clientOrderId
    BY <2>1 DEF CallsOwnTheirIds, TracesAreRegistered
  <2> QED
    BY <2>1, <2>2, EndOfCall
<1>3. ASSUME NEW c \in Calls, NEW o \in Orders, Admit(c, o)
      PROVE  CallsOwnTheirIds'
  BY <1>3, AdmitOwns
<1>4. ASSUME NEW c \in Calls, NEW e, Log(e, call[c].order), InProgress(c),
             call' = [call EXCEPT ![c] = Idle], UNCHANGED <<life, orders, received>>
      PROVE  CallsOwnTheirIds'
  <2>1. call[c].order.clientOrderId = IdOf(c) /\ IdOf(c) \in orders
    BY <1>4 DEF IdOf, CallsOwnTheirIds, TracesAreRegistered
  <2>2. \A d \in Calls : d # c /\ InProgress(d) => IdOf(d) # IdOf(c)
    BY <1>4 DEF CallsOwnTheirIds, OneOwner
  <2>3. PICK o : o = call[c].order
    OBVIOUS
  <2>4. /\ Log(e, o) /\ call' = [call EXCEPT ![c] = Idle] /\ life' = life
        /\ received' = received /\ orders' = orders
    BY <1>4, <2>3
  <2>5. /\ o.clientOrderId \in orders
        /\ \A d \in Calls : d # c /\ InProgress(d) => IdOf(d) # o.clientOrderId
    BY ONLY <2>1, <2>2, <2>3
  <2> QED
    BY ONLY TypeOK, CallsOwnTheirIds, c \in Calls, <2>4, <2>5, EndOfCall
<1>5. ASSUME NEW c \in Calls, RefusedAtRisk(c)
      PROVE  CallsOwnTheirIds'
  BY <1>4, <1>5 DEF RefusedAtRisk, InProgress
<1>6. ASSUME NEW c \in Calls, RefusedAtVenue(c)
      PROVE  CallsOwnTheirIds'
  BY <1>4, <1>6 DEF RefusedAtVenue, InProgress
<1>7. ASSUME NEW c \in Calls, HandOff(c)
      PROVE  CallsOwnTheirIds'
  BY <1>7, HandOffOwns
<1>8. ASSUME NEW c \in Calls, NEW outcome, Answered(c, outcome)
      PROVE  CallsOwnTheirIds'
  BY <1>4, <1>8 DEF Answered, InProgress, memory
<1>9. \A n \in DOMAIN events : events[n].life <= life
  BY DEF CallsOwnTheirIds, TracesAreRegistered
<1>10. CASE Restart
  <2>1. /\ FreshMemory /\ received' = received /\ TypeOK'
        /\ \A n \in DOMAIN events' : events'[n].life <= life
    BY <1>9, <1>10, TypeStep DEF Restart
  <2> QED
    BY <2>1, FreshOwns
<1>11. ASSUME NEW c \in Calls, NEW outcome \in OutcomeEvents, KilledBeforeJournal(c, outcome)
       PROVE  CallsOwnTheirIds'
  <2>1. /\ FreshMemory /\ received' = received /\ TypeOK'
        /\ \A n \in DOMAIN events' : events'[n].life <= life
    BY <1>9, <1>11, TypeStep, KilledLogsThisLife DEF KilledBeforeJournal
  <2> QED
    BY <2>1, FreshOwns
<1>12. ASSUME NEW c \in Calls, NEW o \in Orders, Duplicate(c, o)
       PROVE  CallsOwnTheirIds'
  BY <1>1, <1>12 DEF Duplicate, vars, memory
<1>13. ASSUME NEW c \in Calls, KilledBeforeHandOff(c)
       PROVE  CallsOwnTheirIds'
  <2>1. /\ FreshMemory /\ received' = received /\ TypeOK'
        /\ \A n \in DOMAIN events' : events'[n].life <= life
    BY <1>9, <1>13, TypeStep, KilledLogsThisLife DEF KilledBeforeHandOff
  <2> QED
    BY <2>1, FreshOwns
<1>14. CASE HaltAll \/ PauseNewOnly \/ HaltDone \/ Resume
  BY <1>1, <1>14 DEF HaltAll, PauseNewOnly, HaltDone, Resume
<1>15. ASSUME NEW k, NEW status, SetStatus(k, status) \/ DeleteCapsule(k)
       PROVE  CallsOwnTheirIds'
  BY <1>1, <1>15 DEF SetStatus, DeleteCapsule, memory
<1>16. CASE Tick \/ UNCHANGED vars
  BY <1>1, <1>16 DEF Tick, vars, memory
<1> QED
  BY <1>2, <1>3, <1>5, <1>6, <1>7, <1>8, <1>10, <1>11, <1>12, <1>13, <1>14, <1>15, <1>16
     DEF Next, Continue, Answer, OutcomeEvents

(* Whatever the calls, orders, limits and interleavings, and through kills and    *)
(* restarts, an order in progress has one call, which nothing else can act for:   *)
(* the router's orders map is enough to keep concurrent submissions apart.        *)
THEOREM CallsOwn == Spec => []CallsOwnTheirIds
<1>1. Init => CallsOwnTheirIds
  BY DEF Init, CallsOwnTheirIds, TracesAreRegistered, OneOwner, CheckedLeftNoTrace,
         SentIsWorking, InProgress, Idle
<1> QED
  BY <1>1, TypeCorrect, OwnStep, PTL DEF Spec

(* A step adds to what the venues received by a hand-off only. *)
LEMMA OnlyHandOffs ==
    ASSUME [Next]_vars, received' # received
    PROVE  \E c \in Calls : HandOff(c)
BY DEF Next, vars, memory, Duplicate, RefusedAtEntry, Admit, Continue, RefusedAtRisk,
       RefusedAtVenue, Answer, Answered, HaltAll, PauseNewOnly, HaltDone, Resume,
       SetStatus, DeleteCapsule, Tick, Restart, KilledBeforeHandOff, KilledBeforeJournal

(* The idempotency gate: for every number of calls and orders, one id reaches a   *)
(* venue at most once in a life of the process.                                   *)
THEOREM AtMostOnce == Spec => []AtMostOncePerLife
<1>1. Init => AtMostOncePerLife
  BY DEF Init, AtMostOncePerLife
<1>2. ASSUME TypeOK, CallsOwnTheirIds, AtMostOncePerLife, [Next]_vars
      PROVE  AtMostOncePerLife'
  <2>1. CASE received' = received
    BY <1>2, <2>1 DEF AtMostOncePerLife
  <2>2. ASSUME NEW c \in Calls, HandOff(c)
        PROVE  AtMostOncePerLife'
    <3> DEFINE shipped == [id |-> IdOf(c), key |-> Key(call[c].order), at |-> now,
                           life |-> life, seen |-> call[c].seen]
    <3>1. /\ DOMAIN received' = DOMAIN received \cup {Len(received) + 1}
          /\ \A n \in DOMAIN received : received'[n] = received[n]
          /\ received'[Len(received) + 1] = shipped
          /\ shipped.life = life /\ shipped.id = IdOf(c)
      BY <1>2, <2>2, HandOffEffect, Zenon
    <3> HIDE DEF shipped
    <3>2. \A n \in DOMAIN received : received[n].life = life => received[n].id # IdOf(c)
      BY <1>2, <2>2 DEF HandOff, CallsOwnTheirIds, CheckedLeftNoTrace
    <3> QED
      BY <1>2, <3>1, <3>2 DEF AtMostOncePerLife
  <2> QED
    BY <1>2, <2>1, <2>2, OnlyHandOffs
<1> QED
  BY <1>1, <1>2, TypeCorrect, CallsOwn, PTL DEF Spec

(* The kill switch: with the engine enabled, no step hands an order to a venue    *)
(* while trading is halted, whatever the calls in progress had already passed.    *)
THEOREM HaltStops == ASSUME RiskLimits.enabled PROVE Spec => HaltStopsHandOffs
<1>1. ASSUME [Next]_vars, received' # received
      PROVE  ~engine.halted
  <2>1. PICK c \in Calls : HandOff(c)
    BY <1>1, OnlyHandOffs
  <2> QED
    BY <2>1 DEF HandOff, EngineApproves, Approves
<1>2. [Next]_vars => [received' # received => ~engine.halted]_vars
  BY <1>1
<1> QED
  BY <1>2, PTL DEF Spec, HaltStopsHandOffs

-----------------------------------------------------------------------------
(* The router implements the lifecycle. *)

(* A check never touches the halt flag. *)
LEMMA CheckKeepsHalt ==
    ASSUME TypeOK, NEW o
    PROVE  EngineAfter(o).halted = engine.halted
BY DEF TypeOK, Engines, EngineAfter, AfterCheck, MaybeRollDay, EmptyPortfolio

(* The logged event decides where its order is: refused, working or settled. *)
LEMMA LogMoves ==
    ASSUME TypeOK, NEW o, NEW e, Log(e, o), life' = life
    PROVE  LET i == o.clientOrderId
           IN  /\ e \in GateRefusals /\ StatusOf(i) = "new" => StatusOf(i)' = "refused"
               /\ e = "submitting" /\ StatusOf(i) = "new" => StatusOf(i)' = "working"
               /\ e \in OutcomeEvents => StatusOf(i)' = "settled"
<1>1. \A i, kinds : InThisLife(i, kinds)' <=> InThisLife(i, kinds) \/ (i = o.clientOrderId /\ e \in kinds)
  BY LogTraces
<1>2. GateRefusals \cap OutcomeEvents = {} /\ "submitting" \notin GateRefusals \cup OutcomeEvents
  BY DEF GateRefusals, OutcomeEvents
<1> QED
  BY <1>1, <1>2 DEF StatusOf

(* A step that logs one event for an order in no other state than "from" is that *)
(* order's move, and no other's.                                                 *)
LEMMA LogIsMove ==
    ASSUME TypeOK, NEW o, NEW e, Log(e, o), life' = life, o.clientOrderId \in Ids,
           engine'.halted = engine.halted, NEW from, NEW to,
           StatusOf(o.clientOrderId) = from, StatusOf(o.clientOrderId)' = to
    PROVE  Lifecycle!Move(o.clientOrderId, from, to)
<1>1. \A i : i # o.clientOrderId => StatusOf(i)' = StatusOf(i)
  BY LogStatus
<1>2. [i \in Ids |-> StatusOf(i)'] =
         [[i \in Ids |-> StatusOf(i)] EXCEPT ![o.clientOrderId] = to]
  BY <1>1
<1> QED
  BY <1>2 DEF Lifecycle!Move

(* An id of no call and no log entry of this life is new. *)
LEMMA NoTraceIsNew ==
    ASSUME NEW i, \A n \in DOMAIN events : events[n].life = life => events[n].id # i
    PROVE  StatusOf(i) = "new"
BY DEF StatusOf, InThisLife

(* A process that starts again has logged nothing in its new life. *)
LEMMA FreshIsRestart ==
    ASSUME TypeOK, FreshMemory, \A n \in DOMAIN events' : events'[n].life <= life
    PROVE  Lifecycle!Restart
<1>1. life' = life + 1 /\ life \in Nat /\ engine'.halted = FALSE
  BY DEF FreshMemory, TypeOK, NewEngine
<1>2. \A n \in DOMAIN events' : events'[n].life # life'
  BY <1>1
<1>3. \A i : StatusOf(i)' = "new"
  BY <1>2 DEF StatusOf, InThisLife
<1> QED
  BY <1>1, <1>3 DEF Lifecycle!Restart

(* Every step of the router is a step of the lifecycle, or changes nothing it shows. *)
LEMMA LifecycleStep ==
    ASSUME RiskLimits.enabled, TypeOK, CallsOwnTheirIds, [Next]_vars
    PROVE  [Lifecycle!Next]_(Lifecycle!vars)
<1> USE DEF Lifecycle!Next
<1>1. ASSUME events' = events, life' = life, engine'.halted \in BOOLEAN
      PROVE  [Lifecycle!Next]_(Lifecycle!vars)
  <2>1. \A i : StatusOf(i)' = StatusOf(i)
    BY <1>1 DEF StatusOf, InThisLife
  <2>2. [i \in Ids |-> StatusOf(i)'] = [i \in Ids |-> StatusOf(i)]
    BY <2>1
  <2>3. Lifecycle!SetHalted(engine'.halted)
    BY <2>2 DEF Lifecycle!SetHalted
  <2> QED
    BY <1>1, <2>3
<1>2. ASSUME NEW c \in Calls, NEW o \in Orders, RefusedAtEntry(c, o)
      PROVE  Lifecycle!Next
  <2>1. /\ Log(EntryRefusal(o), o) /\ life' = life /\ engine' = engine
        /\ o.clientOrderId \notin orders /\ o.clientOrderId \in Ids
    BY <1>2 DEF RefusedAtEntry, Ids
  <2>2. StatusOf(o.clientOrderId) = "new"
    BY <2>1, NoTraceIsNew DEF CallsOwnTheirIds, TracesAreRegistered
  <2>3. EntryRefusal(o) \in GateRefusals
    BY DEF EntryRefusal, GateRefusals
  <2>4. StatusOf(o.clientOrderId)' = "refused"
    BY <2>1, <2>2, <2>3, LogMoves
  <2>5. Lifecycle!Refuse(o.clientOrderId)
    BY <2>1, <2>2, <2>4, LogIsMove DEF Lifecycle!Refuse
  <2> QED
    BY <2>1, <2>5
<1>3. ASSUME NEW c \in Calls, InProgress(c)
      PROVE  call[c].order.clientOrderId = IdOf(c) /\ IdOf(c) \in Ids
  BY <1>3 DEF IdOf, TypeOK, InProgress, Idle, Ids
<1>4. ASSUME NEW c \in Calls, call[c].pc = "checked"
      PROVE  InProgress(c) /\ StatusOf(IdOf(c)) = "new"
  BY <1>4, NoTraceIsNew DEF InProgress, CallsOwnTheirIds, CheckedLeftNoTrace
<1>5. ASSUME NEW c \in Calls, NEW e \in GateRefusals, call[c].pc = "checked",
             Log(e, call[c].order), life' = life, engine' = EngineAfter(call[c].order)
      PROVE  Lifecycle!Next
  <2> PICK o : o = call[c].order
    OBVIOUS
  <2>1. o.clientOrderId \in Ids /\ StatusOf(o.clientOrderId) = "new"
    BY <1>3, <1>4, <1>5
  <2>2. StatusOf(o.clientOrderId)' = "refused"
    BY <1>5, <2>1, LogMoves
  <2>3. engine'.halted = engine.halted
    BY <1>5, CheckKeepsHalt
  <2>4. Lifecycle!Refuse(o.clientOrderId)
    BY <1>5, <2>1, <2>2, <2>3, LogIsMove DEF Lifecycle!Refuse
  <2> QED
    BY <2>1, <2>4
<1>6. ASSUME NEW c \in Calls, RefusedAtRisk(c)
      PROVE  Lifecycle!Next
  BY <1>5, <1>6 DEF RefusedAtRisk, GateRefusals
<1>7. ASSUME NEW c \in Calls, RefusedAtVenue(c)
      PROVE  Lifecycle!Next
  <2>1. VenueRefusal(call[c].order) \in GateRefusals
    BY <1>7 DEF RefusedAtVenue, VenueRefusal, GateRefusals
  <2> QED
    BY <1>5, <1>7, <2>1 DEF RefusedAtVenue
<1>8. ASSUME NEW c \in Calls, HandOff(c)
      PROVE  Lifecycle!Next
  <2> PICK o : o = call[c].order
    OBVIOUS
  <2>1. /\ Log("submitting", o) /\ life' = life /\ engine' = EngineAfter(o)
        /\ call[c].pc = "checked"
    BY <1>8 DEF HandOff
  <2>2. o.clientOrderId \in Ids /\ StatusOf(o.clientOrderId) = "new"
    BY <1>3, <1>4, <2>1
  <2>3. StatusOf(o.clientOrderId)' = "working"
    BY <2>1, <2>2, LogMoves
  <2>4. engine'.halted = engine.halted /\ ~engine.halted
    BY <1>8, <2>1, CheckKeepsHalt DEF HandOff, EngineApproves, Approves
  <2>5. Lifecycle!Send(o.clientOrderId)
    BY <2>1, <2>2, <2>3, <2>4, LogIsMove DEF Lifecycle!Send
  <2> QED
    BY <2>2, <2>5
<1>9. ASSUME NEW c \in Calls, NEW outcome \in OutcomeEvents, Answered(c, outcome)
      PROVE  Lifecycle!Next
  <2> PICK o : o = call[c].order
    OBVIOUS
  <2>1. /\ Log(outcome, o) /\ life' = life /\ engine' = engine /\ call[c].pc = "sent"
    BY <1>9 DEF Answered, memory
  <2>2. o.clientOrderId \in Ids /\ StatusOf(o.clientOrderId) = "working"
    BY <1>3, <2>1 DEF InProgress, CallsOwnTheirIds, SentIsWorking
  <2>3. StatusOf(o.clientOrderId)' = "settled"
    BY <2>1, <2>2, LogMoves
  <2>4. Lifecycle!Settle(o.clientOrderId)
    BY <2>1, <2>2, <2>3, LogIsMove DEF Lifecycle!Settle
  <2> QED
    BY <2>2, <2>4
<1>10. \A n \in DOMAIN events : events[n].life <= life
  BY DEF CallsOwnTheirIds, TracesAreRegistered
<1>11. CASE Restart
  BY <1>10, <1>11, FreshIsRestart DEF Restart
<1>12. ASSUME NEW c \in Calls, NEW outcome \in OutcomeEvents, KilledBeforeJournal(c, outcome)
       PROVE  Lifecycle!Next
  <2>1. \A n \in DOMAIN events' : events'[n].life <= life
    BY <1>10, <1>12, KilledLogsThisLife DEF KilledBeforeJournal
  <2> QED
    BY <1>12, <2>1, FreshIsRestart DEF KilledBeforeJournal
<1>13. engine'.halted \in BOOLEAN
  BY TypeStep DEF TypeOK, Engines
<1>14. ASSUME NEW c \in Calls, NEW o \in Orders, Duplicate(c, o) \/ Admit(c, o)
       PROVE  [Lifecycle!Next]_(Lifecycle!vars)
  BY <1>1, <1>13, <1>14 DEF Duplicate, Admit, vars, memory
<1>15. CASE HaltAll \/ PauseNewOnly \/ HaltDone \/ Resume
  BY <1>1, <1>13, <1>15 DEF HaltAll, PauseNewOnly, HaltDone, Resume
<1>16. ASSUME NEW k, NEW status, SetStatus(k, status) \/ DeleteCapsule(k)
       PROVE  [Lifecycle!Next]_(Lifecycle!vars)
  BY <1>1, <1>13, <1>16 DEF SetStatus, DeleteCapsule, memory
<1>17. CASE Tick \/ UNCHANGED vars
  BY <1>1, <1>13, <1>17 DEF Tick, vars, memory
<1>18. ASSUME NEW c \in Calls, KilledBeforeHandOff(c)
       PROVE  Lifecycle!Next
  <2>1. \A n \in DOMAIN events' : events'[n].life <= life
    BY <1>10, <1>18, KilledLogsThisLife DEF KilledBeforeHandOff
  <2> QED
    BY <1>18, <2>1, FreshIsRestart DEF KilledBeforeHandOff
<1> QED
  BY <1>2, <1>6, <1>7, <1>8, <1>9, <1>11, <1>12, <1>14, <1>15, <1>16, <1>17, <1>18
     DEF Next, Continue, Answer, OutcomeEvents

(* The router implements the lifecycle it promises (docs/skills/SKILL.md:28-29):  *)
(* refused for good or sent once, one outcome, nothing sent while halted.         *)
THEOREM Implements == ASSUME RiskLimits.enabled PROVE Spec => ImplementsLifecycle
<1>1. Init => Lifecycle!Init
  BY NoTraceIsNew DEF Init, Lifecycle!Init, NewEngine
<1>2. TypeOK /\ CallsOwnTheirIds /\ [Next]_vars => [Lifecycle!Next]_(Lifecycle!vars)
  BY LifecycleStep
<1> QED
  BY <1>1, <1>2, TypeCorrect, CallsOwn, PTL DEF Spec, ImplementsLifecycle, Lifecycle!Spec

-----------------------------------------------------------------------------
(* The halt. *)

\* With one life to live, the process is still in it.
FirstLife == life >= 1

(* The flag of the engine, the one of the kill switch and the operator's wish *)
(* move together in every step that is not a restart.                         *)
LEMMA HaltStep ==
    ASSUME MaxLives = 1, TypeOK, FirstLife, HaltedUntilResume, [Next]_vars
    PROVE  FirstLife' /\ HaltedUntilResume'
<1> USE DEF HaltedUntilResume, FirstLife
<1>1. ~(life < MaxLives)
  BY DEF TypeOK
<1>2. ASSUME UNCHANGED <<life, killSwitch, haltRequested>>, engine'.halted = engine.halted
      PROVE  FirstLife' /\ HaltedUntilResume'
  BY <1>2
<1>3. ASSUME NEW c \in Calls, NEW o \in Orders,
             Duplicate(c, o) \/ RefusedAtEntry(c, o) \/ Admit(c, o)
      PROVE  FirstLife' /\ HaltedUntilResume'
  BY <1>2, <1>3 DEF Duplicate, RefusedAtEntry, Admit, vars, memory
<1>4. ASSUME NEW c \in Calls, Continue(c)
      PROVE  FirstLife' /\ HaltedUntilResume'
  BY <1>2, <1>4, CheckKeepsHalt DEF Continue, RefusedAtRisk, RefusedAtVenue, HandOff
<1>5. ASSUME NEW c \in Calls, Answer(c)
      PROVE  FirstLife' /\ HaltedUntilResume'
  BY <1>2, <1>5 DEF Answer, Answered, memory
<1>6. CASE HaltAll \/ PauseNewOnly
  <2>1. engine'.halted = TRUE /\ killSwitch'.halted = TRUE /\ haltRequested' = TRUE
    BY <1>6 DEF HaltAll, PauseNewOnly, SetHalted, TypeOK, Engines, KillSwitches
  <2> QED
    BY <1>6, <2>1 DEF HaltAll, PauseNewOnly
<1>7. CASE HaltDone
  <2>1. engine' = engine /\ killSwitch'.halted = killSwitch.halted
        /\ UNCHANGED <<life, haltRequested>>
    BY <1>7 DEF HaltDone, TypeOK, KillSwitches
  <2> QED
    BY <2>1
<1>8. CASE Resume
  <2>1. engine'.halted = FALSE /\ killSwitch'.halted = FALSE /\ haltRequested' = FALSE
    BY <1>8 DEF Resume, SetHalted, ForceRollDay, TypeOK, Engines, KillSwitches
  <2> QED
    BY <1>8, <2>1 DEF Resume
<1>9. ASSUME NEW k \in DOMAIN capsules,
             (\E status \in OperatorSets : SetStatus(k, status)) \/ DeleteCapsule(k)
      PROVE  FirstLife' /\ HaltedUntilResume'
  BY <1>2, <1>9 DEF SetStatus, DeleteCapsule, memory
<1>10. CASE Tick \/ UNCHANGED vars
  BY <1>2, <1>10 DEF Tick, vars, memory
<1> QED
  BY <1>1, <1>3, <1>4, <1>5, <1>6, <1>7, <1>8, <1>9, <1>10
     DEF Next, Restart, KilledBeforeHandOff, KilledBeforeJournal

(* Within one life, what the engine enforces is what the operator asked for last, *)
(* however many halts and resumes overlap; a restart forgets a halt.              *)
THEOREM HaltedUntil == ASSUME MaxLives = 1 PROVE Spec => []HaltedUntilResume
<1>1. Init => FirstLife /\ HaltedUntilResume
  <2>1. NewEngine.halted = FALSE
    BY DEF NewEngine
  <2>2. [halted |-> FALSE, brokersHalted |-> {}, halting |-> 0].halted = FALSE
    OBVIOUS
  <2>3. Init => /\ life = 1 /\ haltRequested = FALSE /\ engine = NewEngine
                /\ killSwitch = [halted |-> FALSE, brokersHalted |-> {}, halting |-> 0]
    BY DEF Init
  <2>4. Init => engine.halted = FALSE /\ killSwitch.halted = FALSE
    BY <2>1, <2>2, <2>3
  <2>5. Init => life >= 1
    BY <2>3
  <2>6. Init => engine.halted = haltRequested /\ killSwitch.halted = haltRequested
    BY <2>3, <2>4, Zenon
  <2> QED
    BY <2>5, <2>6 DEF FirstLife, HaltedUntilResume
<1>2. TypeOK /\ FirstLife /\ HaltedUntilResume /\ [Next]_vars
         => FirstLife' /\ HaltedUntilResume'
  BY HaltStep
<1> QED
  BY <1>1, <1>2, TypeCorrect, PTL DEF Spec

-----------------------------------------------------------------------------
(* The cooldown. *)

Cooldown(k) == CapsuleLimits[k].min_between_trades
CooldownsTyped == \A k \in CapsuleIds : Cooldown(k) \in Nat

\* Hand-offs lie in the past, and a call has seen only those that were made.
Dated ==
    /\ \A n \in DOMAIN received : received[n].at <= now /\ received[n].life <= life
    /\ \A c \in Calls : call[c].pc = "checked" => call[c].seen <= Len(received)
    /\ \A k \in Keys : lastSubmitAt[k] <= now

\* lastSubmitAt knows of every hand-off of this life.
Remembered ==
    \A n \in DOMAIN received :
        received[n].life = life /\ received[n].key[1] # NoCapsule =>
            /\ lastSubmitAt[received[n].key] # NeverTraded
            /\ received[n].at <= lastSubmitAt[received[n].key]

\* A call that has passed the gate is far enough from what it has seen.
Cooled ==
    \A c \in Calls : call[c].pc = "checked" /\ call[c].order.capsule # NoCapsule =>
        \A m \in DOMAIN received :
            /\ m <= call[c].seen
            /\ received[m].life = life /\ received[m].key = Key(call[c].order)
            => now - received[m].at >= Cooldown(call[c].order.capsule)

CooldownInv == Dated /\ Remembered /\ Cooled /\ CooldownUnlessOverlapping

(* What the types say of the hand-offs and of the calls. *)
LEMMA HandOffTypes ==
    ASSUME TypeOK
    PROVE  /\ now \in Nat /\ life \in Nat /\ Len(received) \in Nat
           /\ DOMAIN received = 1..Len(received)
           /\ \A n \in DOMAIN received : /\ received[n].at \in Nat /\ received[n].life \in Nat
                                         /\ received[n].key \in Keys /\ received[n].seen \in Nat
           /\ \A c \in Calls : call[c].pc = "checked" =>
                 call[c].order \in Orders /\ call[c].seen \in Nat
           /\ \A k \in Keys : lastSubmitAt[k] \in Nat \cup {NeverTraded}
<1>1. received \in Seq(HandOffs)
  BY DEF TypeOK
<1>2. \A n \in 1..Len(received) : received[n] \in HandOffs
  BY <1>1, ElementOfSeq
<1>3. DOMAIN received = 1..Len(received) /\ Len(received) \in Nat
  BY <1>1
<1>4. \A n \in DOMAIN received : /\ received[n].at \in Nat /\ received[n].life \in Nat
                                 /\ received[n].key \in Keys /\ received[n].seen \in Nat
  BY <1>2, <1>3 DEF HandOffs
<1>5. ASSUME NEW c \in Calls, call[c].pc = "checked"
      PROVE  call[c].order \in Orders /\ call[c].seen \in Nat
  BY <1>5 DEF TypeOK, Idle
<1>6. now \in Nat /\ life \in Nat /\ \A k \in Keys : lastSubmitAt[k] \in Nat \cup {NeverTraded}
  BY DEF TypeOK
<1> QED
  BY <1>3, <1>4, <1>5, <1>6

(* The key of an order begins with its capsule. *)
LEMMA KeyOfOrder ==
    ASSUME NEW o \in Orders
    PROVE  Key(o) \in Keys /\ Key(o)[1] = o.capsule /\ o.capsule \in CapsuleIds \cup {NoCapsule}
BY InputsAssumption DEF Key, Keys

(* A step that hands nothing off, in which time may pass and calls may end. *)
LEMMA QuietStep ==
    ASSUME CooldownsTyped, TypeOK, CooldownInv,
           UNCHANGED <<received, life, lastSubmitAt>>, now' \in Nat, now <= now',
           \A c \in Calls : call'[c].pc = "checked" => call'[c] = call[c]
    PROVE  CooldownInv'
<1>1. Dated'
  <2>1. /\ now \in Nat /\ \A n \in DOMAIN received : received[n].at \in Nat
        /\ \A k \in Keys : lastSubmitAt[k] \in Int
    BY HandOffTypes DEF NeverTraded
  <2>2. \A x \in Int : x <= now => x <= now'
    BY <2>1
  <2>3. \A n \in DOMAIN received : received[n].at <= now' /\ received[n].life <= life'
    BY <2>1, <2>2 DEF CooldownInv, Dated
  <2>4. \A c \in Calls : call'[c].pc = "checked" => call'[c].seen <= Len(received')
    BY DEF CooldownInv, Dated
  <2>5. \A k \in Keys : lastSubmitAt[k] <= now'
    BY <2>1, <2>2 DEF CooldownInv, Dated
  <2> QED
    BY <2>3, <2>4, <2>5 DEF Dated
<1>2. Remembered'
  BY DEF CooldownInv, Remembered
<1>3. ASSUME NEW c \in Calls, call'[c].pc = "checked", call'[c].order.capsule # NoCapsule,
             NEW m \in DOMAIN received', m <= call'[c].seen,
             received'[m].life = life', received'[m].key = Key(call'[c].order)
      PROVE  now' - received'[m].at >= Cooldown(call'[c].order.capsule)
  <2>1. call'[c] = call[c] /\ received'[m].at = received[m].at /\ received[m].at \in Nat
    BY <1>3, HandOffTypes
  <2>2. now - received[m].at >= Cooldown(call[c].order.capsule)
    BY <1>3, <2>1 DEF CooldownInv, Cooled
  <2>3. Cooldown(call[c].order.capsule) \in Nat /\ now \in Nat
    BY <1>3, <2>1, HandOffTypes, KeyOfOrder DEF CooldownsTyped
  <2>4. ASSUME NEW s \in Nat, NEW t \in Nat, NEW a \in Nat, NEW d \in Nat, s <= t, s - a >= d
        PROVE  t - a >= d
    BY <2>4
  <2> QED
    BY <2>1, <2>2, <2>3, <2>4
<1>4. Cooled'
  BY <1>3 DEF Cooled
<1>5. CooldownUnlessOverlapping'
  BY DEF CooldownInv, CooldownUnlessOverlapping
<1> QED
  BY <1>1, <1>2, <1>4, <1>5 DEF CooldownInv

(* A new process has handed nothing off, and has no call in progress. *)
LEMMA FreshCooldown ==
    ASSUME TypeOK, CooldownInv, FreshMemory, UNCHANGED <<now, received>>
    PROVE  CooldownInv'
<1>1. life' = life + 1 /\ life \in Nat /\ \A c \in Calls : call'[c].pc # "checked"
  BY DEF FreshMemory, TypeOK, Idle
<1>2. \A n \in DOMAIN received' : received'[n].life # life'
  BY <1>1, HandOffTypes DEF CooldownInv, Dated
<1>3. Dated'
  <2>1. \A n \in DOMAIN received' : received'[n].at <= now' /\ received'[n].life <= life'
    BY <1>1, HandOffTypes DEF CooldownInv, Dated
  <2>2. \A k \in Keys : lastSubmitAt'[k] = NeverTraded
    BY DEF FreshMemory
  <2>3. \A k \in Keys : lastSubmitAt'[k] <= now'
    BY <2>2, HandOffTypes DEF NeverTraded
  <2> QED
    BY <1>1, <2>1, <2>3 DEF Dated
<1>4. Remembered' /\ Cooled'
  BY <1>1, <1>2 DEF Remembered, Cooled
<1>5. CooldownUnlessOverlapping'
  BY DEF CooldownInv, CooldownUnlessOverlapping
<1> QED
  BY <1>3, <1>4, <1>5 DEF CooldownInv

(* What the capsule gate lets through has cooled down. *)
LEMMA GateCools ==
    ASSUME CooldownsTyped, TypeOK, CooldownInv, NEW o \in Orders, o.capsule # NoCapsule,
           ~CapsuleRefuses(o), NEW m \in DOMAIN received,
           received[m].life = life, received[m].key = Key(o)
    PROVE  now - received[m].at >= Cooldown(o.capsule)
<1> PICK last : last = lastSubmitAt[Key(o)]
  OBVIOUS
<1>1. Cooldown(o.capsule) \in Nat /\ now \in Nat /\ received[m].at \in Nat
      /\ received[m].at <= now
  BY HandOffTypes, KeyOfOrder DEF CooldownsTyped, CooldownInv, Dated
<1>2. last # NeverTraded /\ received[m].at <= last /\ last \in Nat
  BY HandOffTypes, KeyOfOrder DEF CooldownInv, Remembered
<1>3. now - last \in Nat
  BY <1>1, <1>2, KeyOfOrder DEF CooldownInv, Dated
<1>4. ~CoolingDown(CapsuleLimits[o.capsule], now - last)
  BY <1>2 DEF CapsuleRefuses, CheckOrder, Since
<1>5. Cooldown(o.capsule) = 0 \/ now - last >= Cooldown(o.capsule)
  BY <1>1, <1>3, <1>4 DEF CoolingDown, Cooldown, NeverTraded
<1> QED
  BY <1>1, <1>2, <1>3, <1>5

(* An admitted call has seen every hand-off so far, and is far enough from each. *)
LEMMA AdmitCools ==
    ASSUME CooldownsTyped, TypeOK, CooldownInv, NEW c \in Calls, NEW o \in Orders, Admit(c, o)
    PROVE  CooldownInv'
<1>1. /\ ~CapsuleRefuses(o)
      /\ call' = [call EXCEPT ![c] = [pc |-> "checked", order |-> o, seen |-> Len(received)]]
      /\ UNCHANGED <<now, life, lastSubmitAt, received>>
  BY DEF Admit
<1>2. /\ call'[c].order = o /\ call'[c].seen = Len(received)
      /\ \A d \in Calls \ {c} : call'[d] = call[d]
  BY <1>1 DEF TypeOK
<1>3. Dated'
  BY <1>1, <1>2, HandOffTypes DEF CooldownInv, Dated
<1>4. Remembered' /\ CooldownUnlessOverlapping'
  BY <1>1 DEF CooldownInv, Remembered, CooldownUnlessOverlapping
<1>5. ASSUME NEW d \in Calls, call'[d].pc = "checked", call'[d].order.capsule # NoCapsule,
             NEW m \in DOMAIN received', m <= call'[d].seen,
             received'[m].life = life', received'[m].key = Key(call'[d].order)
      PROVE  now' - received'[m].at >= Cooldown(call'[d].order.capsule)
  <2>1. CASE d = c
    BY <1>1, <1>2, <1>5, <2>1, GateCools
  <2>2. CASE d # c
    BY <1>1, <1>2, <1>5, <2>2 DEF CooldownInv, Cooled
  <2> QED
    BY <2>1, <2>2
<1>6. Cooled'
  BY <1>5 DEF Cooled
<1> QED
  BY <1>3, <1>4, <1>6 DEF CooldownInv

(* A hand-off is remembered, and is as far from what its call had seen as the gate *)
(* made sure; the others in progress have not seen it.                             *)
LEMMA HandOffCools ==
    ASSUME CooldownsTyped, TypeOK, CooldownInv, NEW c \in Calls, HandOff(c)
    PROVE  CooldownInv'
<1> PICK o : o = call[c].order
  OBVIOUS
<1> PICK N : N = Len(received) + 1
  OBVIOUS
<1>1. /\ call[c].pc = "checked" /\ o \in Orders /\ UNCHANGED <<now, life>>
      /\ lastSubmitAt' = IF o.capsule = NoCapsule THEN lastSubmitAt
                         ELSE [lastSubmitAt EXCEPT ![Key(o)] = now]
      /\ call' = [call EXCEPT ![c].pc = "sent"]
  BY HandOffTypes DEF HandOff
<1>2. call'[c].pc = "sent" /\ \A d \in Calls \ {c} : call'[d] = call[d]
  BY <1>1 DEF TypeOK, Idle
<1>3. /\ DOMAIN received' = DOMAIN received \cup {N} /\ N \notin DOMAIN received
      /\ \A n \in DOMAIN received : received'[n] = received[n]
  BY HandOffEffect
<1> PICK sent : sent = [id |-> IdOf(c), key |-> Key(o), at |-> now, life |-> life,
                        seen |-> call[c].seen]
  OBVIOUS
<1>4. received'[N] = sent
  BY HandOffEffect
<1>5. /\ received'[N].at = now /\ received'[N].key = Key(o) /\ received'[N].life = life
      /\ received'[N].seen = call[c].seen
  BY <1>4
<1>6. /\ now \in Nat /\ life \in Nat /\ N \in Nat /\ DOMAIN received = 1..N - 1
      /\ Len(received') = N
      /\ \A n \in DOMAIN received : received[n].at \in Nat /\ received[n].key \in Keys
      /\ \A d \in Calls : call[d].pc = "checked" => call[d].seen \in Nat /\ call[d].seen < N
      /\ Key(o) \in Keys /\ Key(o)[1] = o.capsule
      /\ \A k \in Keys : lastSubmitAt[k] \in Nat \cup {NeverTraded}
  <2>1. Len(received') = N
    BY DEF HandOff, TypeOK
  <2> QED
    BY <1>1, <2>1, HandOffTypes, KeyOfOrder DEF CooldownInv, Dated
<1>7. \A k \in Keys : lastSubmitAt'[k] =
          IF k = Key(o) /\ o.capsule # NoCapsule THEN now ELSE lastSubmitAt[k]
  BY <1>1, <1>6 DEF TypeOK
<1>8. Dated'
  <2>1. \A n \in DOMAIN received' : received'[n].at <= now' /\ received'[n].life <= life'
    BY <1>1, <1>3, <1>5, <1>6 DEF CooldownInv, Dated
  <2>2. \A d \in Calls : call'[d].pc = "checked" => call'[d].seen <= Len(received')
    BY <1>2, <1>6
  <2>3. \A k \in Keys : lastSubmitAt'[k] <= now'
    BY <1>1, <1>6, <1>7 DEF CooldownInv, Dated
  <2> QED
    BY <2>1, <2>2, <2>3 DEF Dated
<1>9. Remembered'
  <2> SUFFICES ASSUME NEW n \in DOMAIN received', received'[n].life = life',
                      received'[n].key[1] # NoCapsule
               PROVE  /\ lastSubmitAt'[received'[n].key] # NeverTraded
                      /\ received'[n].at <= lastSubmitAt'[received'[n].key]
    BY DEF Remembered
  <2>1. received'[n].at <= now /\ received'[n].key \in Keys /\ now # NeverTraded
    BY <1>1, <1>3, <1>5, <1>6, <1>8 DEF Dated, NeverTraded
  <2>2. CASE received'[n].key = Key(o)
    BY <1>6, <1>7, <2>1, <2>2
  <2>3. CASE received'[n].key # Key(o)
    <3>1. n \in DOMAIN received /\ received'[n] = received[n]
      BY <1>3, <1>5, <2>3
    <3>2. /\ lastSubmitAt[received[n].key] # NeverTraded
          /\ received[n].at <= lastSubmitAt[received[n].key]
      BY <1>1, <3>1 DEF CooldownInv, Remembered
    <3> QED
      BY <1>7, <2>1, <2>3, <3>1, <3>2
  <2> QED
    BY <2>2, <2>3
<1>10. Cooled'
  <2> SUFFICES ASSUME NEW d \in Calls, call'[d].pc = "checked",
                      call'[d].order.capsule # NoCapsule,
                      NEW m \in DOMAIN received', m <= call'[d].seen,
                      received'[m].life = life', received'[m].key = Key(call'[d].order)
               PROVE  now' - received'[m].at >= Cooldown(call'[d].order.capsule)
    BY DEF Cooled
  <2>1. d # c /\ call'[d] = call[d]
    BY <1>2
  <2>2. m # N /\ m \in DOMAIN received /\ received'[m] = received[m]
    BY <1>3, <1>6, <2>1
  <2> QED
    BY <1>1, <2>1, <2>2 DEF CooldownInv, Cooled
<1>11. CooldownUnlessOverlapping'
  <2> SUFFICES ASSUME NEW m \in DOMAIN received', NEW n \in DOMAIN received',
                      m < n, received'[m].key = received'[n].key,
                      received'[m].life = received'[n].life,
                      received'[n].key[1] # NoCapsule, received'[n].seen >= m
               PROVE  received'[n].at - received'[m].at >= Cooldown(received'[n].key[1])
    BY DEF CooldownUnlessOverlapping, Cooldown
  <2>1. m \in DOMAIN received /\ received'[m] = received[m]
    BY <1>3, <1>6
  <2>2. CASE n \in DOMAIN received
    BY <1>3, <2>1, <2>2 DEF CooldownInv, CooldownUnlessOverlapping, Cooldown
  <2>3. CASE n = N
    <3>1. m <= call[c].seen /\ received[m].life = life /\ received[m].key = Key(o)
      BY <1>5, <1>6, <2>1, <2>3, <1>1
    <3>2. o.capsule # NoCapsule
      BY <1>5, <1>6, <2>3
    <3> QED
      BY <1>1, <1>5, <1>6, <2>1, <2>3, <3>1, <3>2 DEF CooldownInv, Cooled
  <2> QED
    BY <1>3, <2>2, <2>3
<1> QED
  BY <1>8, <1>9, <1>10, <1>11 DEF CooldownInv

(* Every step keeps it. *)
LEMMA CooldownStep ==
    ASSUME CooldownsTyped, TypeOK, CooldownInv, [Next]_vars
    PROVE  CooldownInv'
<1>0. now \in Nat /\ call = [c \in Calls |-> call[c]]
  BY DEF TypeOK
<1>1. ASSUME NEW c \in Calls, UNCHANGED <<now, life, lastSubmitAt, received>>,
             call' = [call EXCEPT ![c] = Idle]
      PROVE  CooldownInv'
  <2>1. \A d \in Calls : call'[d].pc = "checked" => call'[d] = call[d]
    BY <1>0, <1>1 DEF Idle
  <2> QED
    BY <1>0, <1>1, <2>1, QuietStep
<1>2. ASSUME UNCHANGED <<now, life, call, lastSubmitAt, received>>
      PROVE  CooldownInv'
  BY <1>0, <1>2, QuietStep
<1>3. ASSUME NEW c \in Calls, NEW o \in Orders, Duplicate(c, o) \/ RefusedAtEntry(c, o)
      PROVE  CooldownInv'
  BY <1>1, <1>2, <1>3 DEF Duplicate, RefusedAtEntry, vars, memory
<1>4. ASSUME NEW c \in Calls, RefusedAtRisk(c) \/ RefusedAtVenue(c) \/ Answer(c)
      PROVE  CooldownInv'
  BY <1>1, <1>4 DEF RefusedAtRisk, RefusedAtVenue, Answer, Answered, memory
<1>5. CASE HaltAll \/ PauseNewOnly \/ HaltDone \/ Resume \/ UNCHANGED vars
  BY <1>2, <1>5 DEF HaltAll, PauseNewOnly, HaltDone, Resume, vars, memory
<1>6. ASSUME NEW k \in DOMAIN capsules,
             (\E status \in OperatorSets : SetStatus(k, status)) \/ DeleteCapsule(k)
      PROVE  CooldownInv'
  BY <1>2, <1>6 DEF SetStatus, DeleteCapsule, memory
<1>7. CASE Tick
  <2>1. now' \in Nat /\ now <= now' /\ UNCHANGED <<received, life, lastSubmitAt, call>>
    BY <1>0, <1>7 DEF Tick, memory
  <2> QED
    BY <2>1, QuietStep
<1>8. ASSUME FreshMemory, UNCHANGED <<now, received>>
      PROVE  CooldownInv'
  BY <1>8, FreshCooldown
<1>9. CASE Restart
  BY <1>8, <1>9 DEF Restart
<1>10. ASSUME NEW c \in Calls, KilledBeforeHandOff(c) \/ \E e \in OutcomeEvents : KilledBeforeJournal(c, e)
       PROVE  CooldownInv'
  BY <1>8, <1>10 DEF KilledBeforeHandOff, KilledBeforeJournal
<1> QED
  BY <1>3, <1>4, <1>5, <1>6, <1>7, <1>9, <1>10, AdmitCools, HandOffCools
     DEF Next, Continue, OutcomeEvents

(* The cooldown separates two hand-offs of a capsule on a symbol and a side,      *)
(* unless the later call had passed the gate before the earlier one was made.     *)
THEOREM CooldownHolds == ASSUME CooldownsTyped PROVE Spec => []CooldownUnlessOverlapping
<1>1. Init => CooldownInv
  <2> SUFFICES ASSUME Init PROVE CooldownInv
    OBVIOUS
  <2>1. DOMAIN received = {} /\ \A c \in Calls : call[c].pc # "checked"
    BY DEF Init, Idle
  <2>2. \A k \in Keys : lastSubmitAt[k] <= now
    BY DEF Init, NeverTraded
  <2> QED
    BY <2>1, <2>2 DEF CooldownInv, Dated, Remembered, Cooled, CooldownUnlessOverlapping
<1>2. TypeOK /\ CooldownInv /\ [Next]_vars => CooldownInv'
  BY CooldownStep
<1>3. CooldownInv => CooldownUnlessOverlapping
  BY DEF CooldownInv
<1> QED
  BY <1>1, <1>2, <1>3, TypeCorrect, PTL DEF Spec

-----------------------------------------------------------------------------
(***************************************************************************)
(* The rate gate: the engine's queue of times, which check() prunes and    *)
(* extends, has a place of its own for every hand-off of the last minute,  *)
(* so its length bounds how many there were.                               *)
(***************************************************************************)
RateTyped == RiskLimits.enabled /\ RiskLimits.max_orders_per_minute \in Nat

Queue == engine.orderTimes
Old(t) == t < now - Minute
OfThisLife == {n \in DOMAIN received : received[n].life = life}

\* f gives every hand-off of this life its place in the queue q; places below 1
\* were shifted off, and those hand-offs are old.
Places(f, q) ==
    \A n \in OfThisLife :
        /\ f[n] \in Int /\ f[n] <= Len(q)
        /\ f[n] >= 1 => q[f[n]] = received[n].at
        /\ f[n] < 1 => Old(received[n].at)
        /\ \A m \in OfThisLife : f[m] = f[n] => m = n

Tracked(q) == \E f : Places(f, q)

RateInv == Tracked(Queue) /\ RateWindow

-----------------------------------------------------------------------------
(* The queue. *)

(* An interval has as many members as it says. *)
LEMMA UpTo ==
    ASSUME NEW n \in Nat
    PROVE  IsFiniteSet(1..n) /\ Cardinality(1..n) = n
<1>1. IsFiniteSet(1..n) /\ Cardinality(1..n) = IF 1 > n THEN 0 ELSE n - 1 + 1
  BY FS_Interval
<1> QED
  BY <1>1

(* Things with a place each, among n places, are at most n. *)
LEMMA Placed ==
    ASSUME NEW S, NEW n \in Nat, NEW i \in [S -> 1..n],
           \A x, y \in S : i[x] = i[y] => x = y
    PROVE  IsFiniteSet(S) /\ Cardinality(S) <= n
<1>1. i \in Injection(S, 1..n)
  BY Zenon DEF Injection, IsInjective
<1>2. IsFiniteSet(1..n) /\ Cardinality(1..n) = n
  BY UpTo
<1> QED
  BY <1>1, <1>2, FS_Injection

(* What is shifted off is as long as the prefix of stale times. *)
LEMMA StaleIsPrefix ==
    ASSUME NEW q \in Seq(Nat), NEW t \in Nat
    PROVE  /\ Cardinality(Stale(q, t)) \in 0..Len(q)
           /\ \A i \in 1..Cardinality(Stale(q, t)) : q[i] < t - Minute
<1> PICK S : S = Stale(q, t)
  OBVIOUS
<1> PICK k : k = Cardinality(S)
  OBVIOUS
<1>1. Len(q) \in Nat /\ DOMAIN q = 1..Len(q)
  OBVIOUS
<1>2. S = {n \in 1..Len(q) : \A m \in 1..n : q[m] < t - Minute}
  BY <1>1 DEF Stale
<1>3. IsFiniteSet(1..Len(q)) /\ Cardinality(1..Len(q)) = Len(q)
  BY <1>1, UpTo
<1>4. S \in SUBSET (1..Len(q))
  BY <1>2
<1>5. IsFiniteSet(S) /\ k <= Len(q)
  BY <1>3, <1>4, FS_Subset
<1>6. k \in Nat
  BY <1>5, FS_CardinalityType
<1>7. ASSUME NEW i \in 1..k
      PROVE  q[i] < t - Minute
  <2> SUFFICES ASSUME i \notin S
               PROVE  FALSE
    BY <1>2
  <2>1. S \in SUBSET (1..i - 1)
    <3> SUFFICES ASSUME NEW n \in S, ~(n <= i - 1)
                 PROVE  FALSE
      BY <1>4
    <3>1. n \in 1..Len(q) /\ i \in 1..n
      BY <1>4, <1>6
    <3>2. \A m \in 1..i : m \in 1..n
      BY <3>1, <1>1
    <3>3. i \in 1..Len(q) /\ \A m \in 1..i : q[m] < t - Minute
      BY <1>1, <1>2, <3>1, <3>2
    <3> QED
      BY <1>2, <3>3
  <2>2. IsFiniteSet(1..i - 1) /\ Cardinality(1..i - 1) = i - 1
    <3>1. i - 1 \in Nat
      BY <1>6
    <3> QED
      BY <3>1, UpTo
  <2>3. k <= i - 1
    BY <2>1, <2>2, FS_Subset
  <2> QED
    BY <1>6, <2>3
<1> QED
  BY <1>5, <1>6, <1>7

(* Shifting stale times off moves every place down. *)
LEMMA PruneTracks ==
    ASSUME TypeOK, NEW f, Places(f, Queue)
    PROVE  /\ Pruned(Queue, now) \in Seq(Nat)
           /\ \E g : Places(g, Pruned(Queue, now))
<1>0. PICK q, k, P, g : /\ q = Queue /\ k = Cardinality(Stale(q, now))
                        /\ P = Pruned(q, now)
                        /\ g = [n \in DOMAIN received |-> f[n] - k]
  OBVIOUS
<1>1. q \in Seq(Nat) /\ Len(q) \in Nat /\ now \in Nat
  BY <1>0 DEF TypeOK, Engines, Queue
<1>2. k \in 0..Len(q) /\ \A i \in 1..k : q[i] < now - Minute
  BY <1>0, <1>1, StaleIsPrefix
<1>3. P = SubSeq(q, k + 1, Len(q))
  BY <1>0 DEF Pruned
<1>4. \A i \in k + 1 .. Len(q) : q[i] \in Nat
  BY <1>1, <1>2
<1>5. /\ P \in Seq(Nat)
      /\ Len(P) = Len(q) - k
      /\ \A i \in 1..Len(q) - k : P[i] = q[k + i]
  <2>1. k + 1 \in Int /\ Len(q) \in Int
    BY <1>1, <1>2
  <2>2. /\ P \in Seq(Nat)
        /\ Len(P) = IF k + 1 <= Len(q) THEN Len(q) - (k + 1) + 1 ELSE 0
        /\ \A i \in 1..Len(q) - (k + 1) + 1 : P[i] = q[k + 1 + i - 1]
    BY <1>3, <1>4, <2>1, SubSeqProperties
  <2> QED
    BY <1>1, <1>2, <2>2
<1>6. PICK l : l = Len(q) /\ l \in Nat /\ k \in Nat /\ k <= l /\ Len(P) = l - k
  BY <1>1, <1>2, <1>5
<1>7. ASSUME NEW n \in OfThisLife
      PROVE  /\ g[n] \in Int /\ g[n] <= Len(P)
             /\ g[n] >= 1 => P[g[n]] = received[n].at
             /\ g[n] < 1 => Old(received[n].at)
  <2>0. PICK x, y : x = f[n] /\ y = g[n]
    OBVIOUS
  <2>1. x \in Int /\ x <= l
    BY <1>0, <1>6, <2>0 DEF Places
  <2>2. y = x - k
    BY <1>0, <2>0 DEF OfThisLife
  <2>3. /\ y \in Int /\ y <= l - k
        /\ y >= 1 => k + y = x /\ x >= 1 /\ y \in 1..l - k
        /\ y < 1 => x < 1 \/ x \in 1..k
    <3>1. k \in Nat /\ l \in Nat /\ k <= l
      BY <1>6
    <3> QED
      BY <2>1, <2>2, <3>1
  <2>4. ASSUME y >= 1
        PROVE  P[y] = received[n].at
    <3>1. P[y] = q[x]
      BY <1>5, <1>6, <2>3, <2>4
    <3>2. q[x] = received[n].at
      BY <1>0, <2>0, <2>3, <2>4 DEF Places
    <3> QED
      BY <3>1, <3>2
  <2>5. ASSUME y < 1
        PROVE  Old(received[n].at)
    <3>1. CASE x < 1
      BY <1>0, <2>0, <3>1 DEF Places
    <3>2. CASE x \in 1..k
      <4>1. x >= 1
        BY <3>2
      <4>2. q[x] = received[n].at
        BY <1>0, <2>0, <4>1 DEF Places
      <4>3. q[x] < now - Minute
        BY <1>2, <3>2
      <4> QED
        BY <4>2, <4>3 DEF Old
    <3> QED
      BY <2>3, <2>5, <3>1, <3>2
  <2>6. y \in Int /\ y <= Len(P)
    BY <1>6, <2>3
  <2> QED
    BY <2>0, <2>4, <2>5, <2>6
<1>8. ASSUME NEW n \in OfThisLife, NEW m \in OfThisLife, g[m] = g[n]
      PROVE  m = n
  <2>0. PICK x, z : x = f[n] /\ z = f[m]
    OBVIOUS
  <2>1. x \in Int /\ z \in Int /\ k \in Nat
    BY <1>0, <1>6, <2>0 DEF Places
  <2>2. x - k = z - k
    BY <1>0, <1>8, <2>0 DEF OfThisLife
  <2>3. x = z
    BY <2>1, <2>2
  <2> QED
    BY <1>0, <2>0, <2>3 DEF Places
<1>9. Places(g, P)
  BY <1>7, <1>8 DEF Places
<1> QED
  BY <1>0, <1>5, <1>9

(* check() leaves the queue as it was, pruned, or pruned with the time appended; *)
(* the last if it approves, and then the pruned queue was not full.              *)
LEMMA QueueAfter ==
    ASSUME RateTyped, TypeOK, NEW o
    PROVE  LET P == Pruned(Queue, now)
               times == EngineAfter(o).orderTimes
           IN  /\ times \in {Queue, P, Append(P, now)}
               /\ EngineApproves(o) =>
                     times = Append(P, now) /\ ~(Len(P) >= RiskLimits.max_orders_per_minute)
<1> PICK P : P = Pruned(Queue, now)
  OBVIOUS
<1>1. engine \in Engines /\ now \in Nat
  BY DEF TypeOK
<1> PICK pruned : pruned = [engine EXCEPT !.orderTimes = Pruned(@, now)]
  OBVIOUS
<1> PICK rolled : rolled = MaybeRollDay(pruned, EmptyPortfolio.equity, now)
  OBVIOUS
<1>2. pruned.orderTimes = P /\ rolled.orderTimes = P
  BY <1>1 DEF Engines, MaybeRollDay, Queue
<1>3. [rolled EXCEPT !.orderTimes = Append(@, now)].orderTimes = Append(P, now)
  BY <1>1, <1>2 DEF Engines, MaybeRollDay
<1>4. EngineAfter(o) =
          IF ~RiskLimits.enabled \/ engine.halted \/ Malformed(RiskLimits, o) THEN engine
          ELSE IF OverRate(RiskLimits, engine, now) THEN pruned
          ELSE IF EngineApproves(o) THEN [rolled EXCEPT !.orderTimes = Append(@, now)]
          ELSE rolled
  BY DEF EngineAfter, AfterCheck, EngineApproves
<1>5. EngineApproves(o) => /\ ~engine.halted /\ ~Malformed(RiskLimits, o)
                           /\ ~OverRate(RiskLimits, engine, now)
  BY DEF EngineApproves, Approves, RateTyped
<1>6. OverRate(RiskLimits, engine, now) <=> Len(P) >= RiskLimits.max_orders_per_minute
  BY DEF OverRate, Queue
<1> QED
  BY <1>2, <1>3, <1>4, <1>5, <1>6 DEF Queue, RateTyped

-----------------------------------------------------------------------------
(* The steps. *)

(* A queue that grew at its end has the places it had. *)
LEMMA AppendTracks ==
    ASSUME NEW q \in Seq(Nat), NEW t \in Nat, NEW f, Places(f, q)
    PROVE  Places(f, Append(q, t))
<1>1. /\ Len(Append(q, t)) = Len(q) + 1 /\ Len(q) \in Nat
      /\ \A i \in 1..Len(q) : Append(q, t)[i] = q[i]
  BY AppendProperties
<1> QED
  BY <1>1 DEF Places

(* Whatever check() answers, every recent hand-off keeps a place. *)
LEMMA CheckTracks ==
    ASSUME RateTyped, TypeOK, Tracked(Queue), NEW o
    PROVE  Tracked(EngineAfter(o).orderTimes)
<1>1. PICK f : Places(f, Queue)
  BY DEF Tracked
<1> PICK P : P = Pruned(Queue, now)
  OBVIOUS
<1>2. PICK g : P \in Seq(Nat) /\ Places(g, P)
  BY <1>1, PruneTracks
<1>3. now \in Nat
  BY DEF TypeOK
<1>4. Places(g, Append(P, now))
  BY <1>2, <1>3, AppendTracks
<1>5. EngineAfter(o).orderTimes \in {Queue, P, Append(P, now)}
  BY QueueAfter
<1> QED
  BY <1>1, <1>2, <1>4, <1>5 DEF Tracked

(* A step of this life that hands nothing off. *)
LEMMA QuietRate ==
    ASSUME TypeOK, RateInv, UNCHANGED <<received, life>>, now' \in Nat, now <= now',
           NEW q, Tracked(q), Queue' = q
    PROVE  RateInv'
<1>1. PICK f : Places(f, q)
  BY DEF Tracked
<1>2. OfThisLife' = OfThisLife
  BY DEF OfThisLife
<1>3. \A t \in Nat : Old(t) => t < now' - Minute
  <2>1. now \in Nat /\ Minute \in Nat
    BY ClockAssumption DEF TypeOK
  <2>2. ASSUME NEW t \in Nat, NEW a \in Nat, NEW b \in Nat, NEW m \in Nat,
               a <= b, t < a - m
        PROVE  t < b - m
    BY <2>2
  <2> QED
    BY <2>1, <2>2 DEF Old
<1>4. \A n \in OfThisLife : received[n].at \in Nat
  BY HandOffTypes DEF OfThisLife
<1>5. Places(f, Queue)'
  BY <1>1, <1>2, <1>3, <1>4 DEF Places, Old
<1>6. RateWindow'
  BY DEF RateInv, RateWindow
<1> QED
  BY <1>5, <1>6 DEF RateInv, Tracked

(* A new process has handed nothing off. *)
LEMMA FreshRate ==
    ASSUME TypeOK, CallsOwnTheirIds, RateInv, FreshMemory, UNCHANGED <<now, received>>
    PROVE  RateInv'
<1>1. life' = life + 1 /\ life \in Nat
  BY DEF FreshMemory, TypeOK
<1>2. \A n \in DOMAIN received : received[n].life \in Nat /\ received[n].life <= life
  BY HandOffTypes DEF CallsOwnTheirIds, TracesAreRegistered
<1>3. OfThisLife' = {}
  BY <1>1, <1>2 DEF OfThisLife
<1>4. Tracked(Queue)'
  BY <1>3 DEF Tracked, Places
<1>5. RateWindow'
  BY DEF RateInv, RateWindow
<1> QED
  BY <1>4, <1>5 DEF RateInv

(* A hand-off takes the last place, and the recent ones before it have theirs. *)
LEMMA HandOffRate ==
    ASSUME RateTyped, TypeOK, RateInv, NEW c \in Calls, HandOff(c)
    PROVE  RateInv'
<1> PICK o : o = call[c].order
  OBVIOUS
<1> PICK N : N = Len(received) + 1
  OBVIOUS
<1> PICK P : P = Pruned(Queue, now)
  OBVIOUS
<1> PICK max : max = RiskLimits.max_orders_per_minute
  OBVIOUS
<1>1. PICK f : Places(f, Queue)
  BY DEF RateInv, Tracked
<1>2. PICK g : P \in Seq(Nat) /\ Places(g, P)
  BY <1>1, PruneTracks
<1>3. /\ now' = now /\ life' = life /\ now \in Nat /\ N \in Nat /\ max \in Nat
      /\ Minute \in Nat
  BY HandOffTypes, ClockAssumption DEF HandOff, RateTyped
<1>4. Queue' = Append(P, now) /\ Len(P) \in Nat /\ Len(P) + 1 <= max
  <2>1. Queue' = EngineAfter(o).orderTimes /\ EngineApproves(o)
    BY DEF HandOff, Queue
  <2>2. Queue' = Append(P, now) /\ ~(Len(P) >= max)
    BY <2>1, QueueAfter
  <2>3. Len(P) \in Nat
    BY <1>2
  <2> QED
    BY <1>3, <2>2, <2>3
<1>5. /\ DOMAIN received' = DOMAIN received \cup {N} /\ N \notin DOMAIN received
      /\ \A n \in DOMAIN received : received'[n] = received[n]
      /\ DOMAIN received = 1..N - 1
  <2>1. N \in Nat /\ DOMAIN received = 1..N - 1
    <3>1. Len(received) \in Nat /\ DOMAIN received = 1..Len(received)
      BY HandOffTypes
    <3>2. \A n \in Nat : n + 1 - 1 = n /\ n + 1 \in Nat
      OBVIOUS
    <3> QED
      BY <3>1, <3>2
  <2>2. /\ DOMAIN received' = DOMAIN received \cup {N} /\ N \notin DOMAIN received
        /\ \A n \in DOMAIN received : received'[n] = received[n]
    BY HandOffEffect
  <2> QED
    BY <2>1, <2>2
<1> PICK sent : sent = [id |-> IdOf(c), key |-> Key(o), at |-> now, life |-> life,
                        seen |-> call[c].seen]
  OBVIOUS
<1>6. received'[N] = sent
  BY HandOffEffect
<1>7. received'[N].at = now /\ received'[N].life = life
  BY <1>6
<1>8. OfThisLife' = OfThisLife \cup {N}
  BY <1>3, <1>5, <1>7 DEF OfThisLife
<1> PICK h : h = [n \in DOMAIN received' |-> IF n = N THEN Len(P) + 1 ELSE g[n]]
  OBVIOUS
<1>9. /\ h[N] = Len(P) + 1
      /\ \A n \in OfThisLife : n # N /\ h[n] = g[n] /\ received'[n] = received[n]
  BY <1>5 DEF OfThisLife
<1>10. /\ Len(Append(P, now)) = Len(P) + 1 /\ Append(P, now)[Len(P) + 1] = now
       /\ \A i \in 1..Len(P) : Append(P, now)[i] = P[i]
  BY <1>2, <1>3, AppendProperties
<1>11. ASSUME NEW n \in OfThisLife
       PROVE  /\ h[n] \in Int /\ h[n] <= Len(P)
              /\ h[n] >= 1 => P[h[n]] = received'[n].at
              /\ h[n] < 1 => Old(received'[n].at)
  BY <1>2, <1>9 DEF Places
<1>12. ASSUME NEW n \in OfThisLife \cup {N}, NEW m \in OfThisLife \cup {N}, h[m] = h[n]
       PROVE  m = n
  <2> PICK x : x = h[n]
    OBVIOUS
  <2> PICK y : y = h[m]
    OBVIOUS
  <2>1. CASE n = N /\ m = N
    BY <2>1
  <2>2. CASE n = N /\ m \in OfThisLife
    <3>1. x = Len(P) + 1 /\ y \in Int /\ y <= Len(P)
      BY <1>9, <1>11, <2>2
    <3> QED
      BY <1>4, <1>12, <3>1
  <2>3. CASE n \in OfThisLife /\ m = N
    <3>1. y = Len(P) + 1 /\ x \in Int /\ x <= Len(P)
      BY <1>9, <1>11, <2>3
    <3> QED
      BY <1>4, <1>12, <3>1
  <2>4. CASE n \in OfThisLife /\ m \in OfThisLife
    <3>1. g[m] = g[n]
      BY <1>9, <1>12, <2>4
    <3> QED
      BY <1>2, <2>4, <3>1 DEF Places
  <2> QED
    BY <2>1, <2>2, <2>3, <2>4
<1>13. Tracked(Queue)'
  <2> PICK Q : Q = Append(P, now)
    OBVIOUS
  <2>1. ASSUME NEW n \in OfThisLife \cup {N}
        PROVE  /\ h[n] \in Int /\ h[n] <= Len(Q)
               /\ h[n] >= 1 => Q[h[n]] = received'[n].at
               /\ h[n] < 1 => Old(received'[n].at)
    <3> PICK x : x = h[n]
      OBVIOUS
    <3>1. CASE n = N
      <4>1. x = Len(P) + 1 /\ Q[x] = now /\ received'[n].at = now /\ Len(Q) = Len(P) + 1
        BY <1>7, <1>9, <1>10, <3>1
      <4>2. x \in Int /\ x <= Len(Q) /\ ~(x < 1)
        BY <1>4, <4>1
      <4> QED
        BY <4>1, <4>2
    <3>2. CASE n \in OfThisLife
      <4>1. x \in Int /\ x <= Len(P)
        BY <1>11, <3>2
      <4>2. x <= Len(Q)
        BY <1>4, <1>10, <4>1
      <4>3. ASSUME x >= 1
            PROVE  Q[x] = received'[n].at
        <5>1. x \in 1..Len(P)
          BY <1>4, <4>1, <4>3
        <5>2. Q[x] = P[x]
          BY <1>10, <5>1
        <5>3. P[x] = received'[n].at
          BY <1>11, <3>2, <4>3
        <5> QED
          BY <5>2, <5>3
      <4>4. x < 1 => Old(received'[n].at)
        BY <1>11, <3>2
      <4> QED
        BY <4>1, <4>2, <4>3, <4>4
    <3> QED
      BY <2>1, <3>1, <3>2
  <2>2. \A t : Old(t)' <=> Old(t)
    BY <1>3 DEF Old
  <2>3. Places(h, Queue)'
    BY <1>4, <1>8, <1>12, <2>1, <2>2 DEF Places
  <2> QED
    BY <2>3 DEF Tracked
<1>14. PICK W : W = {m \in 1..N : received'[m].life = life /\ received'[m].at >= now - Minute}
  OBVIOUS
<1>15. Cardinality(W) <= max
  <2>1. \A m \in W : /\ m \in OfThisLife \cup {N}
                     /\ received'[m].at >= now - Minute
    <3> SUFFICES ASSUME NEW m \in W
                 PROVE  m \in OfThisLife \cup {N} /\ received'[m].at >= now - Minute
      OBVIOUS
    <3>0. m \in 1..N /\ received'[m].life = life /\ received'[m].at >= now - Minute
      BY <1>14
    <3>1. CASE m = N
      BY <3>0, <3>1
    <3>2. CASE m # N
      <4>1. m \in DOMAIN received /\ received'[m] = received[m]
        BY <1>3, <1>5, <3>0, <3>2
      <4>2. received[m].at \in Nat
        BY <4>1, HandOffTypes
      <4> QED
        BY <1>3, <3>0, <4>1, <4>2 DEF OfThisLife
    <3> QED
      BY <3>1, <3>2
  <2>2. ASSUME NEW m \in W
        PROVE  h[m] \in 1..Len(P) + 1
    <3> PICK x : x = h[m]
      OBVIOUS
    <3>1. CASE m = N
      <4>1. x = Len(P) + 1
        BY <1>9, <3>1
      <4> QED
        BY <1>4, <4>1
    <3>2. CASE m \in OfThisLife
      <4>1. x \in Int /\ x <= Len(P)
        BY <1>11, <3>2
      <4>2. ~Old(received'[m].at)
        <5>1. received'[m].at >= now - Minute
          BY <2>1
        <5>2. received'[m].at \in Nat
          BY <1>5, <3>2, HandOffTypes DEF OfThisLife
        <5> QED
          BY <1>3, <5>1, <5>2 DEF Old
      <4>3. ~(x < 1)
        BY <1>11, <3>2, <4>2
      <4> QED
        BY <1>4, <4>1, <4>3
    <3> QED
      BY <2>1, <3>1, <3>2
  <2>3. ASSUME NEW m \in W, NEW n \in W, h[m] = h[n]
        PROVE  m = n
    BY <1>12, <2>1, <2>3
  <2>4. IsFiniteSet(W) /\ Cardinality(W) <= Len(P) + 1
    <3>1. Len(P) + 1 \in Nat
      BY <1>4
    <3>2. \A m, n \in W : h[m] = h[n] => m = n
      BY <2>3
    <3>3. \A m \in W : h[m] \in 1..Len(P) + 1
      BY <2>2
    <3> DEFINE i == [m \in W |-> h[m]]
    <3>4. i \in [W -> 1..Len(P) + 1]
      BY <3>3
    <3>5. \A m \in W : i[m] = h[m]
      OBVIOUS
    <3> HIDE DEF i
    <3>6. \A m, n \in W : i[m] = i[n] => m = n
      BY <3>2, <3>5, Zenon
    <3>7. PICK size \in Nat : size = Len(P) + 1 /\ i \in [W -> 1..size]
      BY ONLY <3>1, <3>4
    <3> QED
      BY ONLY <3>6, <3>7, Placed
  <2>5. Cardinality(W) \in Nat
    BY <2>4, FS_CardinalityType
  <2> QED
    BY <1>3, <1>4, <2>4, <2>5
<1>16. RateWindow'
  <2> SUFFICES ASSUME NEW n \in DOMAIN received'
               PROVE  Cardinality({m \in 1..n : /\ received'[m].life = received'[n].life
                                                /\ received'[m].at >= received'[n].at - Minute})
                          <= max
    BY DEF RateWindow
  <2>1. CASE n = N
    BY <1>7, <1>14, <1>15, <2>1
  <2>2. CASE n \in DOMAIN received
    <3>1. \A m \in 1..n : received'[m] = received[m]
      BY <1>3, <1>5, <2>2
    <3>2. {m \in 1..n : /\ received'[m].life = received'[n].life
                        /\ received'[m].at >= received'[n].at - Minute}
            = {m \in 1..n : /\ received[m].life = received[n].life
                            /\ received[m].at >= received[n].at - Minute}
      BY <1>5, <2>2, <3>1
    <3> QED
      BY <2>2, <3>2 DEF RateInv, RateWindow
  <2> QED
    BY <1>5, <2>1, <2>2
<1> QED
  BY <1>13, <1>16 DEF RateInv

(* Every step keeps it. *)
LEMMA RateStep ==
    ASSUME RateTyped, TypeOK, CallsOwnTheirIds, RateInv, [Next]_vars
    PROVE  RateInv'
<1>0. now \in Nat /\ Tracked(Queue)
  BY DEF TypeOK, RateInv
<1>1. ASSUME UNCHANGED <<now, life, received>>, Queue' = Queue
      PROVE  RateInv'
  BY <1>0, <1>1, QuietRate
<1>2. ASSUME NEW c \in Calls, NEW o \in Orders,
             Duplicate(c, o) \/ RefusedAtEntry(c, o) \/ Admit(c, o)
      PROVE  RateInv'
  BY <1>1, <1>2 DEF Duplicate, RefusedAtEntry, Admit, vars, memory, Queue
<1>3. ASSUME NEW c \in Calls, RefusedAtRisk(c) \/ RefusedAtVenue(c)
      PROVE  RateInv'
  <2>1. /\ UNCHANGED <<received, life>> /\ now' \in Nat /\ now <= now'
        /\ Queue' = EngineAfter(call[c].order).orderTimes
    BY <1>0, <1>3 DEF RefusedAtRisk, RefusedAtVenue, Queue
  <2>2. Tracked(EngineAfter(call[c].order).orderTimes)
    BY <1>0, CheckTracks
  <2> QED
    BY <2>1, <2>2, QuietRate
<1>4. ASSUME NEW c \in Calls, Answer(c)
      PROVE  RateInv'
  BY <1>1, <1>4 DEF Answer, Answered, memory, Queue
<1>5. CASE HaltAll \/ PauseNewOnly \/ Resume
  <2>1. Queue' = Queue
    BY <1>5 DEF HaltAll, PauseNewOnly, Resume, SetHalted, ForceRollDay, Queue, TypeOK, Engines
  <2> QED
    BY <1>1, <1>5, <2>1 DEF HaltAll, PauseNewOnly, Resume
<1>6. CASE HaltDone \/ UNCHANGED vars
  BY <1>1, <1>6 DEF HaltDone, vars, memory, Queue
<1>7. ASSUME NEW k \in DOMAIN capsules,
             (\E status \in OperatorSets : SetStatus(k, status)) \/ DeleteCapsule(k)
      PROVE  RateInv'
  BY <1>1, <1>7 DEF SetStatus, DeleteCapsule, memory, Queue
<1>8. CASE Tick
  <2>1. now' \in Nat /\ now <= now' /\ UNCHANGED <<received, life>> /\ Queue' = Queue
    BY <1>0, <1>8 DEF Tick, memory, Queue
  <2> QED
    BY <1>0, <2>1, QuietRate
<1>9. CASE Restart
  BY <1>9, FreshRate DEF Restart
<1>10. ASSUME NEW c \in Calls,
              KilledBeforeHandOff(c) \/ \E e \in OutcomeEvents : KilledBeforeJournal(c, e)
       PROVE  RateInv'
  BY <1>10, FreshRate DEF KilledBeforeHandOff, KilledBeforeJournal
<1> QED
  BY <1>2, <1>3, <1>4, <1>5, <1>6, <1>7, <1>8, <1>9, <1>10, HandOffRate
     DEF Next, Continue, OutcomeEvents

(* The rate gate: with the limits enabled no window of a minute, boundaries        *)
(* included, holds more hand-offs than max_orders_per_minute, however many calls   *)
(* interleave and whatever else the engine counted.                                *)
THEOREM RateHolds == ASSUME RateTyped PROVE Spec => []RateWindow
<1>1. Init => RateInv
  <2> SUFFICES ASSUME Init PROVE RateInv
    OBVIOUS
  <2>1. DOMAIN received = {} /\ OfThisLife = {}
    BY DEF Init, OfThisLife
  <2> QED
    BY <2>1 DEF RateInv, Tracked, Places, RateWindow
<1>2. TypeOK /\ CallsOwnTheirIds /\ RateInv /\ [Next]_vars => RateInv'
  BY RateStep
<1>3. RateInv => RateWindow
  BY DEF RateInv
<1> QED
  BY <1>1, <1>2, <1>3, TypeCorrect, CallsOwn, PTL DEF Spec

-----------------------------------------------------------------------------
(* The trade counter of a capsule and its trades-per-day cap. *)

MaxTrades(k) == CapsuleLimits[k].max_trades_per_day
CountsTyped == IsFiniteSet(Calls) /\ \A k \in CapsuleIds : MaxTrades(k) \in Nat

\* The log knows no fill of a day to come.
NoFutureFill == \A k \in CapsuleIds, day \in Nat : day > Today => FilledOn(k, day) = {}

\* No fill is later than the book day of its capsule, and that is not to come.
BookDayIsLast ==
    \A k \in DOMAIN capsules :
        /\ capsules[k].daily_pnl_reset_date <= Today
        /\ \A day \in Nat :
              day > capsules[k].daily_pnl_reset_date => FilledOn(k, day) = {}

\* BooksMatchAudit with the book day by name.
CountersMatch ==
    \A k \in DOMAIN capsules : \A day \in Nat \cup {NoDate} :
        day = capsules[k].daily_pnl_reset_date =>
            capsules[k].trades_today = Cardinality(FilledOn(k, day))

BooksInv == FirstLife /\ NoFutureFill /\ BookDayIsLast /\ CountersMatch

(* The fills of a day are finitely many; there are none before the first day. *)
LEMMA FillsFinite ==
    ASSUME TypeOK, NEW k, NEW day
    PROVE  /\ IsFiniteSet(FilledOn(k, day)) /\ Cardinality(FilledOn(k, day)) \in Nat
           /\ FilledOn(k, day) = {} <=> Cardinality(FilledOn(k, day)) = 0
           /\ day \notin Nat => FilledOn(k, day) = {}
<1>1. events \in Seq(EventRow)
  BY DEF TypeOK
<1>2. Len(events) \in Nat /\ DOMAIN events = 1..Len(events)
  BY <1>1
<1>3. FilledOn(k, day) \in SUBSET (1..Len(events))
  BY <1>2 DEF FilledOn
<1>4. IsFiniteSet(1..Len(events))
  BY <1>2, FS_Interval
<1>5. IsFiniteSet(FilledOn(k, day)) /\ Cardinality(FilledOn(k, day)) \in Nat
  BY <1>3, <1>4, FS_Subset, FS_CardinalityType
<1>6. \A n \in DOMAIN events : events[n].day \in Nat
  <2>1. \A n \in DOMAIN events : events[n] \in EventRow
    BY <1>1
  <2> QED
    BY <2>1 DEF EventRow
<1> QED
  BY <1>5, <1>6, FS_EmptySet DEF FilledOn

(* A row of the log adds a fill to its own capsule and day, or to none. *)
LEMMA LogFills ==
    ASSUME TypeOK, NEW e, NEW o, Log(e, o), NEW k, NEW day
    PROVE  /\ FilledOn(k, day)' =
                IF e = "status_filled" /\ k = o.capsule /\ day = Today
                THEN FilledOn(k, day) \cup {Len(events) + 1} ELSE FilledOn(k, day)
           /\ Len(events) + 1 \notin FilledOn(k, day)
<1> DEFINE row == [event |-> e, id |-> o.clientOrderId, capsule |-> o.capsule,
                   day |-> Today, life |-> life]
<1>1. /\ Len(events) \in Nat /\ DOMAIN events = 1..Len(events)
      /\ events' = Append(events, row)
  BY DEF TypeOK, Log
<1>2. /\ DOMAIN events' = DOMAIN events \cup {Len(events) + 1}
      /\ \A n \in DOMAIN events : events'[n] = events[n]
      /\ events'[Len(events) + 1] = row
  BY <1>1 DEF TypeOK
<1>3. row.event = e /\ row.capsule = o.capsule /\ row.day = Today
  OBVIOUS
<1> HIDE DEF row
<1>4. Len(events) + 1 \notin DOMAIN events
  BY <1>1
<1> QED
  BY <1>2, <1>3, <1>4 DEF FilledOn

(* A day is not over before it has begun. *)
LEMMA TickDay ==
    ASSUME TypeOK, now' = now + 1
    PROVE  Today <= Today' /\ Today \in Nat /\ Today' \in Nat
<1>1. now \in Nat
  BY DEF TypeOK
<1>2. ASSUME NEW t \in Nat, NEW d \in Nat \ {0}
      PROVE  t \div d <= (t + 1) \div d /\ t \div d \in Nat /\ (t + 1) \div d \in Nat
  BY <1>2
<1> QED
  BY <1>1, <1>2, ClockAssumption DEF Today, DayOf

-----------------------------------------------------------------------------
(* The books. *)

(* A step that fills nothing, changes no counter and may delete a capsule. *)
LEMMA QuietBooks ==
    ASSUME TypeOK, BooksInv, life' = life, Today <= Today', Today' \in Nat,
           \A k \in CapsuleIds : \A day : FilledOn(k, day)' = FilledOn(k, day),
           DOMAIN capsules' \subseteq DOMAIN capsules,
           \A k \in DOMAIN capsules' :
              /\ capsules'[k].trades_today = capsules[k].trades_today
              /\ capsules'[k].daily_pnl_reset_date = capsules[k].daily_pnl_reset_date
    PROVE  BooksInv'
<1>1. DOMAIN capsules \subseteq CapsuleIds /\ Today \in Nat
  BY TodayType DEF TypeOK
<1>2. \A k \in DOMAIN capsules : capsules[k].daily_pnl_reset_date \in Int
  BY DEF TypeOK, CapsuleRow, NoDate
<1>3. NoFutureFill'
  BY <1>1 DEF BooksInv, NoFutureFill
<1>4. BookDayIsLast'
  BY <1>1, <1>2 DEF BooksInv, BookDayIsLast
<1>5. CountersMatch'
  BY <1>1 DEF BooksInv, CountersMatch
<1> QED
  BY <1>3, <1>4, <1>5 DEF BooksInv, FirstLife

(* The counter of a capsule after a fill. *)
LEMMA CounterAfterFill ==
    ASSUME TypeOK, BooksInv, NEW k \in DOMAIN capsules, NEW o \in Orders,
           NEW today \in Nat, today = Today
    PROVE  LET r == ApplyFill(capsules[k], FillOf(o), Today)
           IN  /\ r.daily_pnl_reset_date = today
               /\ r.trades_today = Cardinality(FilledOn(k, today)) + 1
<1> DEFINE row == capsules[k]
<1>1. k \in CapsuleIds /\ row \in CapsuleRow
  BY DEF TypeOK
<1>2. /\ ApplyFill(row, FillOf(o), Today).daily_pnl_reset_date = today
      /\ ApplyFill(row, FillOf(o), Today).trades_today
            = (IF DayOver(row, today) THEN 0 ELSE row.trades_today) + 1
  BY <1>1, FillType, ApplyFillColumns
<1>3. row.daily_pnl_reset_date \in Nat \cup {NoDate}
  BY <1>1 DEF CapsuleRow
<1> HIDE DEF row
<1>4. Cardinality(FilledOn(k, today)) = (IF DayOver(row, today) THEN 0 ELSE row.trades_today)
  <2>1. CASE row.daily_pnl_reset_date = today
    BY <2>1 DEF BooksInv, CountersMatch, DayOver, NoDate, row
  <2>2. CASE row.daily_pnl_reset_date # today
    <3>1. FilledOn(k, today) = {}
      BY <1>3, <2>2 DEF BooksInv, BookDayIsLast, NoDate, row
    <3>2. Cardinality(FilledOn(k, today)) = 0
      BY <3>1, FillsFinite
    <3>3. row.daily_pnl_reset_date = NoDate => row.trades_today = 0
      <4>1. row.daily_pnl_reset_date = NoDate => row.trades_today = Cardinality(FilledOn(k, NoDate))
        BY DEF BooksInv, CountersMatch, row
      <4>2. Cardinality(FilledOn(k, NoDate)) = 0
        BY FillsFinite DEF NoDate
      <4> QED
        BY <4>1, <4>2
    <3> QED
      BY <2>2, <3>2, <3>3 DEF DayOver
  <2> QED
    BY <2>1, <2>2
<1> QED
  BY <1>2, <1>4 DEF row

(* An answer that is a fill: the log and the capsule both count it. *)
LEMMA FillBooks ==
    ASSUME TypeOK, BooksInv, NEW c \in Calls, Answered(c, "status_filled")
    PROVE  BooksInv'
<1>1. PICK o \in Orders : o = call[c].order
  BY DEF Answered, TypeOK, Idle
<1>2. PICK today \in Nat : today = Today
  BY TodayType
<1>3. /\ life' = life /\ Log("status_filled", o) /\ capsules' = Journaled(o, "status_filled")
      /\ Today' = today
  BY <1>1, <1>2 DEF Answered, Today
<1>4. \A k, day : /\ FilledOn(k, day)' =
                        (IF k = o.capsule /\ day = today
                         THEN FilledOn(k, day) \cup {Len(events) + 1} ELSE FilledOn(k, day))
                 /\ Len(events) + 1 \notin FilledOn(k, day)
  BY <1>2, <1>3, LogFills
<1>5. /\ DOMAIN capsules' = DOMAIN capsules /\ DOMAIN capsules \subseteq CapsuleIds
      /\ \A k \in DOMAIN capsules : k # o.capsule => capsules'[k] = capsules[k]
  BY <1>3 DEF Journaled, TypeOK
<1>6. NoFutureFill'
  BY <1>2, <1>3, <1>4 DEF BooksInv, NoFutureFill
<1>7. ASSUME NEW k \in DOMAIN capsules
      PROVE  /\ capsules'[k].daily_pnl_reset_date <= today
             /\ \A day \in Nat : day > capsules'[k].daily_pnl_reset_date => FilledOn(k, day)' = {}
             /\ \A day \in Nat \cup {NoDate} : day = capsules'[k].daily_pnl_reset_date =>
                   capsules'[k].trades_today = Cardinality(FilledOn(k, day)')
  <2>1. CASE k # o.capsule
    BY <1>2, <1>4, <1>5, <2>1 DEF BooksInv, BookDayIsLast, CountersMatch
  <2>2. CASE k = o.capsule
    <3>1. /\ capsules'[k].daily_pnl_reset_date = today
          /\ capsules'[k].trades_today = Cardinality(FilledOn(k, today)) + 1
      BY <1>2, <1>3, <2>2, CounterAfterFill DEF Journaled
    <3>2. FilledOn(k, today)' = FilledOn(k, today) \cup {Len(events) + 1}
      BY <1>4, <2>2
    <3>3. Cardinality(FilledOn(k, today)') = Cardinality(FilledOn(k, today)) + 1
      BY <1>4, <3>2, FillsFinite, FS_AddElement
    <3>4. \A day \in Nat : day > today => FilledOn(k, day)' = {}
      BY <1>2, <1>4, <1>5 DEF BooksInv, NoFutureFill
    <3> QED
      BY <3>1, <3>3, <3>4
  <2> QED
    BY <2>1, <2>2
<1> QED
  BY <1>3, <1>5, <1>6, <1>7 DEF BooksInv, FirstLife, BookDayIsLast, CountersMatch

\* A step that fills nothing, admits nothing and changes no counter: calls may
\* end or be handed off, capsules may change status or be deleted.
NothingCounted ==
    /\ life' = life /\ now' = now
    /\ \A k \in CapsuleIds : \A day : FilledOn(k, day)' = FilledOn(k, day)
    /\ DOMAIN capsules' \subseteq DOMAIN capsules
    /\ \A k \in DOMAIN capsules' :
          /\ capsules'[k].trades_today = capsules[k].trades_today
          /\ capsules'[k].daily_pnl_reset_date = capsules[k].daily_pnl_reset_date
    /\ \A c \in Calls : call'[c].pc \in {"checked", "sent"} =>
          InProgress(c) /\ call'[c].order = call[c].order

(* The steps that count, in a process that is never killed. *)
LEMMA WhatCounts ==
    ASSUME MaxLives = 1, TypeOK, FirstLife, [Next]_vars
    PROVE  \/ NothingCounted
           \/ Tick
           \/ \E c \in Calls, o \in Orders : Admit(c, o)
           \/ \E c \in Calls : Answered(c, "status_filled")
<1>1. ~(life < MaxLives)
  BY DEF TypeOK, FirstLife
<1>2. Idle.pc \notin {"checked", "sent"}
  BY DEF Idle
<1>3. ASSUME UNCHANGED <<life, now, capsules, events, call>>
      PROVE  NothingCounted
  BY <1>3 DEF NothingCounted, FilledOn, InProgress
<1>4. ASSUME NEW e, e # "status_filled", NEW o, Log(e, o), NEW c \in Calls,
             UNCHANGED <<life, now, capsules>>,
             \/ call' = [call EXCEPT ![c] = Idle]
             \/ call[c].pc = "checked" /\ call' = [call EXCEPT ![c].pc = "sent"]
      PROVE  NothingCounted
  <2>1. \A k \in CapsuleIds : \A day : FilledOn(k, day)' = FilledOn(k, day)
    BY <1>4, LogFills
  <2>2. \A d \in Calls : call'[d].pc \in {"checked", "sent"} =>
            InProgress(d) /\ call'[d].order = call[d].order
    BY <1>2, <1>4 DEF TypeOK, InProgress, Idle
  <2> QED
    BY <1>4, <2>1, <2>2 DEF NothingCounted
<1>5. ASSUME NEW c \in Calls, NEW o \in Orders, RefusedAtEntry(c, o)
      PROVE  NothingCounted
  <2>1. EntryRefusal(o) # "status_filled"
    BY DEF EntryRefusal
  <2> QED
    BY <1>4, <1>5, <2>1 DEF RefusedAtEntry
<1>6. ASSUME NEW c \in Calls, Continue(c)
      PROVE  NothingCounted
  <2>1. VenueRefusal(call[c].order) # "status_filled"
    BY DEF VenueRefusal
  <2>2. CASE RefusedAtRisk(c)
    BY <1>4, <2>2 DEF RefusedAtRisk
  <2>3. CASE RefusedAtVenue(c)
    BY <1>4, <2>1, <2>3 DEF RefusedAtVenue
  <2>4. CASE HandOff(c)
    BY <1>4, <2>4 DEF HandOff
  <2> QED
    BY <1>6, <2>2, <2>3, <2>4 DEF Continue
<1>7. ASSUME NEW c \in Calls, NEW outcome, outcome # "status_filled", Answered(c, outcome)
      PROVE  NothingCounted
  <2>1. Journaled(call[c].order, outcome) = capsules
    BY <1>7 DEF Journaled
  <2> QED
    BY <1>4, <1>7, <2>1 DEF Answered
<1>8. ASSUME NEW c \in Calls, NEW o \in Orders, Duplicate(c, o)
      PROVE  NothingCounted
  BY <1>3, <1>8 DEF Duplicate, vars
<1>9. CASE HaltAll \/ PauseNewOnly \/ HaltDone \/ Resume
  BY <1>3, <1>9 DEF HaltAll, PauseNewOnly, HaltDone, Resume
<1>10. ASSUME NEW k \in DOMAIN capsules,
              (\E status \in OperatorSets : SetStatus(k, status)) \/ DeleteCapsule(k)
       PROVE  NothingCounted
  <2>1. UNCHANGED <<life, now, events, call>>
    BY <1>10 DEF SetStatus, DeleteCapsule
  <2>2. /\ DOMAIN capsules' \subseteq DOMAIN capsules
        /\ \A j \in DOMAIN capsules' :
              /\ capsules'[j].trades_today = capsules[j].trades_today
              /\ capsules'[j].daily_pnl_reset_date = capsules[j].daily_pnl_reset_date
    <3>1. ASSUME NEW status, SetStatus(k, status), NEW j \in DOMAIN capsules
          PROVE  /\ capsules'[j].trades_today = capsules[j].trades_today
                 /\ capsules'[j].daily_pnl_reset_date = capsules[j].daily_pnl_reset_date
      <4>1. capsules[j] \in CapsuleRow
        BY DEF TypeOK
      <4>2. capsules'[j] = capsules[j] \/ capsules'[j] = [capsules[j] EXCEPT !.status = status]
        BY <3>1 DEF SetStatus
      <4> QED
        BY <4>1, <4>2 DEF CapsuleRow
    <3>2. \A status : SetStatus(k, status) => DOMAIN capsules' = DOMAIN capsules
      BY DEF SetStatus
    <3>3. DeleteCapsule(k) => /\ DOMAIN capsules' \subseteq DOMAIN capsules
                             /\ \A j \in DOMAIN capsules' : capsules'[j] = capsules[j]
      BY DEF DeleteCapsule
    <3> QED
      BY <1>10, <3>1, <3>2, <3>3
  <2> QED
    BY <2>1, <2>2 DEF NothingCounted, FilledOn, InProgress
<1>11. CASE UNCHANGED vars
  BY <1>3, <1>11 DEF vars
<1> QED
  BY <1>1, <1>5, <1>6, <1>7, <1>8, <1>9, <1>10, <1>11
  DEF Next, Answer, Restart, KilledBeforeHandOff, KilledBeforeJournal

LEMMA BooksStep ==
    ASSUME MaxLives = 1, TypeOK, BooksInv, [Next]_vars
    PROVE  BooksInv'
<1>1. FirstLife
  BY DEF BooksInv
<1>2. CASE NothingCounted
  <2>1. Today' = Today /\ Today \in Nat
    BY <1>2, TodayType DEF NothingCounted, Today
  <2> QED
    BY <1>2, <2>1, QuietBooks DEF NothingCounted
<1>3. CASE Tick
  <2>1. Today <= Today' /\ Today' \in Nat
    BY <1>3, TickDay DEF Tick
  <2>2. \A k \in CapsuleIds : \A day : FilledOn(k, day)' = FilledOn(k, day)
    BY <1>3 DEF Tick, FilledOn
  <2> QED
    BY <1>3, <2>1, <2>2, QuietBooks DEF Tick
<1>4. ASSUME NEW c \in Calls, NEW o \in Orders, Admit(c, o)
      PROVE  BooksInv'
  <2>1. Today' = Today /\ Today \in Nat
    BY <1>4, TodayType DEF Admit, Today
  <2>2. \A k \in CapsuleIds : \A day : FilledOn(k, day)' = FilledOn(k, day)
    BY <1>4 DEF Admit, FilledOn
  <2> QED
    BY <1>4, <2>1, <2>2, QuietBooks DEF Admit
<1> QED
  BY <1>1, <1>2, <1>3, <1>4, WhatCounts, FillBooks

LEMMA BooksInit == Init => BooksInv
<1> SUFFICES ASSUME Init
             PROVE  BooksInv
  OBVIOUS
<1>1. \A k, day : FilledOn(k, day) = {}
  BY DEF Init, FilledOn
<1>2. Today \in Nat
  BY TypeInit, TodayType
<1>3. \A k \in DOMAIN capsules : /\ capsules[k].trades_today = 0
                                 /\ capsules[k].daily_pnl_reset_date = NoDate
  BY DEF Init, NewCapsule
<1>4. Cardinality({}) = 0
  BY FS_EmptySet
<1>5. FirstLife
  BY DEF Init, FirstLife
<1>6. NoFutureFill
  BY <1>1 DEF NoFutureFill
<1>7. BookDayIsLast
  BY <1>1, <1>2, <1>3 DEF BookDayIsLast, NoDate
<1>8. CountersMatch
  BY <1>1, <1>3, <1>4 DEF CountersMatch
<1> QED
  BY <1>5, <1>6, <1>7, <1>8 DEF BooksInv

(* trades_today is the number of fills the audit log has for the capsule on its
   book day: calls answered in any order and on any day, status changes and
   deletions included.  A process killed between the log and the journal leaves
   the capsule behind, so this is about one life. *)
THEOREM BooksMatch == ASSUME MaxLives = 1 PROVE Spec => []BooksMatchAudit
<1>1. TypeOK /\ BooksInv /\ [Next]_vars => BooksInv'
  BY BooksStep
<1>2. TypeOK /\ BooksInv => BooksMatchAudit
  BY DEF TypeOK, CapsuleRow, BooksInv, CountersMatch, BooksMatchAudit
<1> QED
  BY <1>1, <1>2, BooksInit, TypeCorrect, PTL DEF Spec

-----------------------------------------------------------------------------
(* The cap. *)

\* The calls that passed the gate of capsule k and have no answer yet.
InFlight(k) == {c \in Calls : InProgress(c) /\ call[c].order.capsule = k}

Cap(k) == MaxTrades(k) + Cardinality(Calls) - 1

\* The fills of a day are within the cap, today's together with those that the
\* calls in flight may still add.
RoomLeft ==
    \A k \in CapsuleIds, day \in Nat :
        MaxTrades(k) > 0 =>
            Cardinality(FilledOn(k, day)) + (IF day = Today THEN Cardinality(InFlight(k)) ELSE 0)
                <= Cap(k)

(* There are no more calls in flight than calls. *)
LEMMA FlightSize ==
    ASSUME CountsTyped, NEW k
    PROVE  /\ IsFiniteSet(InFlight(k)) /\ Cardinality(InFlight(k)) \in Nat
           /\ Cardinality(Calls) \in Nat /\ Cardinality(InFlight(k)) <= Cardinality(Calls)
<1>1. InFlight(k) \in SUBSET Calls
  BY DEF InFlight
<1> QED
  BY <1>1, FS_Subset, FS_CardinalityType DEF CountsTyped

(* Nothing is added and calls may end. *)
LEMMA RoomShrinks ==
    ASSUME CountsTyped, TypeOK, RoomLeft, Today' = Today,
           \A k \in CapsuleIds : /\ \A day : FilledOn(k, day)' = FilledOn(k, day)
                                 /\ InFlight(k)' \subseteq InFlight(k)
    PROVE  RoomLeft'
<1> SUFFICES ASSUME NEW k \in CapsuleIds, NEW day \in Nat, MaxTrades(k) > 0
             PROVE  Cardinality(FilledOn(k, day)')
                      + (IF day = Today' THEN Cardinality(InFlight(k)') ELSE 0) <= Cap(k)
  BY DEF RoomLeft, Cap, MaxTrades
<1>1. /\ Cardinality(InFlight(k)') \in Nat /\ Cardinality(InFlight(k)) \in Nat
      /\ Cardinality(InFlight(k)') <= Cardinality(InFlight(k))
  BY FlightSize, FS_Subset, FS_CardinalityType
<1>2. /\ Cardinality(FilledOn(k, day)') = Cardinality(FilledOn(k, day))
      /\ Cardinality(FilledOn(k, day)) \in Nat
  BY FillsFinite
<1>3. Cap(k) \in Int
  BY FlightSize DEF Cap, CountsTyped
<1>4. Cardinality(FilledOn(k, day)) + (IF day = Today THEN Cardinality(InFlight(k)) ELSE 0)
        <= Cap(k)
  BY DEF RoomLeft
<1> QED
  BY <1>1, <1>2, <1>3, <1>4

(* A day begins with no fills, and as many calls in flight as there may be. *)
LEMMA TickRoom ==
    ASSUME CountsTyped, TypeOK, BooksInv, RoomLeft, Tick
    PROVE  RoomLeft'
<1> SUFFICES ASSUME NEW k \in CapsuleIds, NEW day \in Nat, MaxTrades(k) > 0
             PROVE  Cardinality(FilledOn(k, day)')
                      + (IF day = Today' THEN Cardinality(InFlight(k)') ELSE 0) <= Cap(k)
  BY DEF RoomLeft, Cap, MaxTrades
<1>1. /\ FilledOn(k, day)' = FilledOn(k, day)
      /\ InFlight(k)' = InFlight(k)
  BY DEF Tick, FilledOn, InFlight, InProgress
<1>2. /\ Cardinality(InFlight(k)) \in Nat /\ Cardinality(Calls) \in Nat
      /\ Cardinality(InFlight(k)) <= Cardinality(Calls)
      /\ MaxTrades(k) \in Nat /\ Cap(k) = MaxTrades(k) + Cardinality(Calls) - 1
      /\ Cardinality(FilledOn(k, day)) \in Nat
  BY FlightSize, FillsFinite DEF Cap, CountsTyped
<1>3. Today <= Today' /\ Today \in Nat /\ Today' \in Nat
  BY TickDay DEF Tick
<1>4. day > Today => Cardinality(FilledOn(k, day)) = 0
  <2>1. day > Today => FilledOn(k, day) = {}
    BY DEF BooksInv, NoFutureFill
  <2> QED
    BY <2>1, FillsFinite
<1>5. Cardinality(FilledOn(k, day)) + (IF day = Today THEN Cardinality(InFlight(k)) ELSE 0)
        <= Cap(k)
  BY DEF RoomLeft
<1> QED
  BY <1>1, <1>2, <1>3, <1>4, <1>5

(* The gate lets a call pass only while the capsule has counted fewer fills than
   the cap; of today's, that is all there are. *)
LEMMA AdmitRoom ==
    ASSUME CountsTyped, TypeOK, BooksInv, RoomLeft,
           NEW c \in Calls, NEW o \in Orders, Admit(c, o)
    PROVE  RoomLeft'
<1> SUFFICES ASSUME NEW k \in CapsuleIds, NEW day \in Nat, MaxTrades(k) > 0
             PROVE  Cardinality(FilledOn(k, day)')
                      + (IF day = Today' THEN Cardinality(InFlight(k)') ELSE 0) <= Cap(k)
  BY DEF RoomLeft, Cap, MaxTrades
<1>1. FilledOn(k, day)' = FilledOn(k, day) /\ Today' = Today /\ Today \in Nat
  BY TodayType DEF Admit, FilledOn, Today
<1>2. Cardinality(FilledOn(k, day)) + (IF day = Today THEN Cardinality(InFlight(k)) ELSE 0)
        <= Cap(k)
  BY DEF RoomLeft
<1>3. CASE k # o.capsule
  <2>1. InFlight(k)' = InFlight(k)
    BY <1>3 DEF InFlight, InProgress, Admit, CanStart, TypeOK
  <2> QED
    BY <1>1, <1>2, <2>1
<1>4. CASE k = o.capsule /\ day = Today
  <2>1. k \in DOMAIN capsules /\ ~AtMaxTradesPerDay(CapsuleLimits[k], capsules[k])
    BY <1>4, InputsAssumption DEF Admit, CapsuleRefuses, CheckOrder
  <2>2. capsules[k].trades_today \in Nat /\ MaxTrades(k) \in Nat
    BY <2>1 DEF TypeOK, CapsuleRow, CountsTyped
  <2>3. capsules[k].trades_today < MaxTrades(k)
    BY <2>1, <2>2 DEF AtMaxTradesPerDay, MaxTrades
  <2>4. Cardinality(FilledOn(k, day)) < MaxTrades(k)
    <3>1. CASE capsules[k].daily_pnl_reset_date = day
      BY <2>1, <2>3, <3>1 DEF BooksInv, CountersMatch
    <3>2. CASE capsules[k].daily_pnl_reset_date # day
      <4>1. capsules[k].daily_pnl_reset_date \in Int
        BY <2>1 DEF TypeOK, CapsuleRow, NoDate
      <4>2. capsules[k].daily_pnl_reset_date < day
        BY <1>4, <2>1, <3>2, <4>1 DEF BooksInv, BookDayIsLast
      <4>3. FilledOn(k, day) = {}
        BY <2>1, <4>2 DEF BooksInv, BookDayIsLast
      <4>4. Cardinality(FilledOn(k, day)) = 0
        BY <4>3, FillsFinite
      <4> QED
        BY <4>4, <2>2
    <3> QED
      BY <3>1, <3>2
  <2>5. /\ Cardinality(InFlight(k)') \in Nat /\ Cardinality(Calls) \in Nat
        /\ Cardinality(InFlight(k)') <= Cardinality(Calls)
    <3>1. InFlight(k)' \in SUBSET Calls
      BY DEF InFlight
    <3> QED
      BY <3>1, FS_Subset, FS_CardinalityType DEF CountsTyped
  <2>6. Cardinality(FilledOn(k, day)) \in Nat
    BY FillsFinite
  <2> QED
    BY <1>1, <1>4, <2>2, <2>4, <2>5, <2>6 DEF Cap
<1>5. CASE day # Today
  BY <1>1, <1>2, <1>5
<1> QED
  BY <1>3, <1>4, <1>5

(* An answer that is a fill turns a call in flight into a fill. *)
LEMMA FillRoom ==
    ASSUME CountsTyped, TypeOK, RoomLeft, NEW c \in Calls, Answered(c, "status_filled")
    PROVE  RoomLeft'
<1> SUFFICES ASSUME NEW k \in CapsuleIds, NEW day \in Nat, MaxTrades(k) > 0
             PROVE  Cardinality(FilledOn(k, day)')
                      + (IF day = Today' THEN Cardinality(InFlight(k)') ELSE 0) <= Cap(k)
  BY DEF RoomLeft, Cap, MaxTrades
<1>1. PICK o : o = call[c].order
  OBVIOUS
<1>2. Log("status_filled", o) /\ Today' = Today /\ Today \in Nat
  BY <1>1, TodayType DEF Answered, Today
<1>3. /\ FilledOn(k, day)' = (IF k = o.capsule /\ day = Today
                              THEN FilledOn(k, day) \cup {Len(events) + 1} ELSE FilledOn(k, day))
      /\ Len(events) + 1 \notin FilledOn(k, day)
  BY <1>2, LogFills
<1>4. /\ IsFiniteSet(FilledOn(k, day)) /\ Cardinality(FilledOn(k, day)) \in Nat
      /\ IsFiniteSet(InFlight(k)) /\ Cardinality(InFlight(k)) \in Nat
  BY FillsFinite, FlightSize
<1>5. Cardinality(FilledOn(k, day)) + (IF day = Today THEN Cardinality(InFlight(k)) ELSE 0)
        <= Cap(k)
  BY DEF RoomLeft
<1>6. InFlight(k)' = InFlight(k) \ {c}
  BY DEF InFlight, InProgress, Answered, TypeOK, Idle
<1>7. CASE k = o.capsule /\ day = Today
  <2>1. c \in InFlight(k)
    BY <1>1, <1>7 DEF InFlight, InProgress, Answered
  <2>2. Cardinality(InFlight(k)') = Cardinality(InFlight(k)) - 1
    BY <1>4, <1>6, <2>1, FS_RemoveElement
  <2>3. Cardinality(FilledOn(k, day)') = Cardinality(FilledOn(k, day)) + 1
    <3>1. PICK F, n : F = FilledOn(k, day) /\ n = Len(events) + 1
      OBVIOUS
    <3>2. FilledOn(k, day)' = F \cup {n} /\ n \notin F /\ IsFiniteSet(F)
      BY <1>3, <1>4, <1>7, <3>1
    <3>3. Cardinality(F \cup {n}) = Cardinality(F) + 1
      BY ONLY <3>2, FS_AddElement
    <3> QED
      BY <3>1, <3>2, <3>3
  <2> QED
    BY <1>2, <1>4, <1>5, <1>7, <2>2, <2>3
<1>8. CASE ~(k = o.capsule /\ day = Today)
  <2>1. FilledOn(k, day)' = FilledOn(k, day)
    BY <1>3, <1>8
  <2>2. Cardinality(InFlight(k)') \in Nat /\ Cardinality(InFlight(k)') <= Cardinality(InFlight(k))
    BY <1>4, <1>6, FS_Subset, FS_CardinalityType
  <2>3. Cap(k) \in Int
    BY FlightSize DEF Cap, CountsTyped
  <2> QED
    BY <1>2, <1>4, <1>5, <2>1, <2>2, <2>3
<1> QED
  BY <1>7, <1>8

LEMMA RoomStep ==
    ASSUME CountsTyped, MaxLives = 1, TypeOK, BooksInv, RoomLeft, [Next]_vars
    PROVE  RoomLeft'
<1>1. CASE NothingCounted
  <2>1. Today' = Today
    BY <1>1 DEF NothingCounted, Today
  <2>2. \A k \in CapsuleIds : InFlight(k)' \subseteq InFlight(k)
    BY <1>1 DEF NothingCounted, InFlight, InProgress
  <2> QED
    BY <1>1, <2>1, <2>2, RoomShrinks DEF NothingCounted
<1> QED
  BY <1>1, TickRoom, AdmitRoom, FillRoom, WhatCounts DEF BooksInv

LEMMA RoomInit ==
    ASSUME CountsTyped
    PROVE  Init => RoomLeft
<1> SUFFICES ASSUME Init, NEW k \in CapsuleIds, NEW day \in Nat, MaxTrades(k) > 0
             PROVE  Cardinality(FilledOn(k, day))
                      + (IF day = Today THEN Cardinality(InFlight(k)) ELSE 0) <= Cap(k)
  BY DEF RoomLeft
<1>1. FilledOn(k, day) = {} /\ InFlight(k) = {}
  BY DEF Init, FilledOn, InFlight, InProgress, Idle
<1>2. Cardinality({}) = 0
  BY FS_EmptySet
<1>3. MaxTrades(k) \in Nat /\ Cardinality(Calls) \in Nat
  BY FlightSize DEF CountsTyped
<1> QED
  BY <1>1, <1>2, <1>3 DEF Cap

(* Calls in progress together can pass the trades-per-day gate together, but no
   day of a capsule ever has more fills than its cap and one for each further
   call that can be in progress, whatever the midnights, status changes and
   deletions in between. *)
THEOREM OvershootHolds ==
    ASSUME CountsTyped, MaxLives = 1 PROVE Spec => []OvershootBounded
<1>1. TypeOK /\ BooksInv /\ [Next]_vars => BooksInv'
  BY BooksStep
<1>2. TypeOK /\ BooksInv /\ RoomLeft /\ [Next]_vars => RoomLeft'
  BY RoomStep
<1>3. TypeOK /\ RoomLeft => OvershootBounded
  <2> SUFFICES ASSUME TypeOK, RoomLeft, NEW k \in CapsuleIds, NEW day \in 0..Today,
                      MaxTrades(k) > 0
               PROVE  Cardinality(FilledOn(k, day)) <= Cap(k)
    BY DEF OvershootBounded, Cap, MaxTrades
  <2>1. day \in Nat
    BY TodayType
  <2>2. /\ Cardinality(FilledOn(k, day)) \in Nat /\ Cardinality(InFlight(k)) \in Nat
        /\ Cap(k) \in Int
    BY FillsFinite, FlightSize DEF Cap, CountsTyped
  <2>3. Cardinality(FilledOn(k, day)) + (IF day = Today THEN Cardinality(InFlight(k)) ELSE 0)
          <= Cap(k)
    BY <2>1 DEF RoomLeft
  <2> QED
    BY <2>2, <2>3
<1> QED
  BY <1>1, <1>2, <1>3, BooksInit, RoomInit, TypeCorrect, PTL DEF Spec
=============================================================================
