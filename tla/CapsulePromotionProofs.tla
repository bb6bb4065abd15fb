------------------------ MODULE CapsulePromotionProofs ------------------------
(***************************************************************************)
(* Theorems about CapsulePromotion, for any agents, capsules, budgets and  *)
(* thresholds, and any number of changes from outside and deaths.          *)
(***************************************************************************)
EXTENDS CapsulePromotion, FiniteSums, TLAPS

-----------------------------------------------------------------------------
(* The invariant.                                                          *)

Row(r) == "status" \in DOMAIN r

Rows == cap = [c \in Capsules |-> cap[c]] /\ \A c \in Capsules : Row(cap[c])

PassShaped ==
    \/ pass \in {IdlePass, [pc |-> "breaker"], [pc |-> "clusters"], [pc |-> "select"]}
    \/ pass.pc = "promote" /\ {"pc", "todo", "plan", "clean"} \subseteq DOMAIN pass

AtWork == {a \in Agents : Active(a)}

\* Between the choice and the last promotion: nobody else is at work, and those
\* already promoted are live, unless the operator has touched an agent's capsule.
HalfDone ==
    pass.pc = "promote" =>
        /\ pass.todo \subseteq DOMAIN chosen
        /\ pass.clean \in BOOLEAN
        /\ pass.clean => /\ AtWork \subseteq DOMAIN chosen
                         /\ \A a \in DOMAIN chosen \ pass.todo : cap[a].status = "live"

Inv ==
    /\ Rows /\ PassShaped
    /\ DOMAIN chosen \subseteq Agents
    /\ settled \in BOOLEAN
    /\ pass.pc # "idle" => ~settled
    /\ HalfDone
    /\ LiveAreTheChosen

-----------------------------------------------------------------------------
(* Rows. *)

(* Pausing a set of capsules changes the status of those, and of no other. *)
LEMMA PauseRows ==
    ASSUME Rows, NEW C, cap' = Pause(C)
    PROVE  /\ Rows'
           /\ \A c \in Capsules :
                 cap'[c].status = IF c \in C THEN "paused" ELSE cap[c].status
<1>1. cap' = [c \in Capsules |->
                IF c \in C THEN [cap[c] EXCEPT !.status = "paused"] ELSE cap[c]]
  BY DEF Pause
<1>2. ASSUME NEW c \in Capsules
      PROVE  /\ Row(cap'[c])
             /\ cap'[c].status = IF c \in C THEN "paused" ELSE cap[c].status
  <2>1. Row(cap[c])
    BY DEF Rows
  <2> QED
    BY <1>1, <2>1 DEF Row
<1> QED
  BY <1>1, <1>2 DEF Rows, Row

(* A step that replaces one row. *)
LEMMA RowChanged ==
    ASSUME Rows, NEW c \in Capsules, NEW r, Row(r), cap' = [cap EXCEPT ![c] = r]
    PROVE  /\ Rows' /\ cap'[c] = r
           /\ \A d \in Capsules \ {c} : cap'[d] = cap[d]
<1>1. cap' = [d \in Capsules |-> IF d = c THEN r ELSE cap[d]]
  BY DEF Rows
<1> QED
  BY <1>1 DEF Rows, Row

(* Statuses alone decide who is at work. *)
LEMMA SameStatuses ==
    ASSUME Inv, Rows', \A a \in Agents : cap'[a].status = cap[a].status,
           UNCHANGED <<pass, settled, chosen>>
    PROVE  Inv'
<1>1. AtWork' = AtWork
  BY DEF AtWork, Active
<1>2. HalfDone'
  BY <1>1 DEF HalfDone, Inv
<1>3. LiveAreTheChosen'
  BY <1>1 DEF LiveAreTheChosen, Inv, AtWork
<1> QED
  BY <1>2, <1>3 DEF Inv, PassShaped

(* A pass that has not chosen promises nothing yet. *)
LEMMA NotYet ==
    ASSUME Rows', settled' = FALSE, DOMAIN chosen' \subseteq Agents,
           pass' \in {IdlePass, [pc |-> "breaker"], [pc |-> "clusters"], [pc |-> "select"]}
    PROVE  Inv'
<1>1. PassShaped' /\ pass'.pc # "promote"
  BY DEF PassShaped, IdlePass
<1> QED
  BY <1>1 DEF Inv, HalfDone, LiveAreTheChosen

-----------------------------------------------------------------------------
(* The steps of the pass.                                                  *)

(* Nothing chosen is chosen among the agents. *)
LEMMA NobodyChosen == DOMAIN <<>> = {}
OBVIOUS

(* The beginning of a pass, by a seal or by hand, keeps the invariant. *)
LEMMA BeginKeeps == ASSUME Inv, SealBegin \/ ForceBegin PROVE Inv'
<1>1. /\ Rows /\ cap' = cap /\ settled' = FALSE /\ chosen' = <<>>
      /\ pass' \in {[pc |-> "breaker"], [pc |-> "select"]}
  BY DEF SealBegin, ForceBegin, Inv
<1>2. Rows'
  BY <1>1 DEF Rows
<1> QED
  BY <1>1, <1>2, NobodyChosen, NotYet

(* The circuit breaker and the cluster switches keep the invariant. *)
LEMMA GuardsKeep == ASSUME Inv, Breaker \/ Clusters PROVE Inv'
<1>1. /\ Rows /\ DOMAIN chosen \subseteq Agents /\ settled = FALSE
      /\ UNCHANGED <<settled, chosen>>
      /\ pass' \in {[pc |-> "clusters"], [pc |-> "select"]}
      /\ \E C : cap' = Pause(C)
  BY DEF Breaker, Clusters, Inv
<1>2. Rows'
  BY <1>1, PauseRows
<1> QED
  BY <1>1, <1>2, NotYet

(* A vetoed or a killed pass keeps the invariant. *)
LEMMA GivenUpKeeps == ASSUME Inv, Blocked \/ Crash PROVE Inv'
<1>1. /\ Rows /\ DOMAIN chosen \subseteq Agents /\ settled = FALSE
      /\ cap' = cap /\ settled' = settled /\ pass' = IdlePass
      /\ chosen' \in {chosen, <<>>}
  BY DEF Blocked, Crash, Inv
<1>2. Rows' /\ DOMAIN chosen' \subseteq Agents
  BY <1>1, NobodyChosen DEF Rows
<1> QED
  BY <1>1, <1>2, NotYet

(* Pausing the fallen leaves only the chosen at work. *)
LEMMA OnlyChosenStay ==
    ASSUME Rows, cap' = Pause(Fallen)
    PROVE  Rows' /\ AtWork' \subseteq Chosen
<1>1. Rows' /\ \A c \in Capsules :
                  cap'[c].status = IF c \in Fallen THEN "paused" ELSE cap[c].status
  BY PauseRows
<1>2. ASSUME NEW a \in Agents, a \notin Chosen
      PROVE  ~Active(a)'
  <2>1. a \in Capsules /\ a # NoAgent
    BY PromotionAssumption DEF PromotionAssumption, Capsules, NoAgent
  <2>2. Active(a) => a \in Fallen
    BY <1>2, <2>1 DEF Fallen, AutoLive, Owner
  <2>3. cap'[a].status = IF Active(a) THEN "paused" ELSE cap[a].status
    BY <1>1, <2>1, <2>2 DEF Fallen
  <2> QED
    BY <2>3 DEF Active
<1> QED
  BY <1>1, <1>2 DEF AtWork

(* The choice keeps the invariant. *)
LEMMA SelectKeeps == ASSUME Inv, Select PROVE Inv'
<1>0. /\ Rows /\ settled = FALSE /\ DOMAIN chosen \subseteq Agents
      /\ Chosen \subseteq Agents
  BY DEF Inv, Select, Chosen, Qualifying, Top, Alive
<1>1. CASE NoRoom(Cardinality(Chosen))
  <2>1. pass' = IdlePass /\ UNCHANGED <<cap, settled, chosen>>
    BY <1>1 DEF Select
  <2>2. Rows'
    BY <1>0, <2>1 DEF Rows
  <2> QED
    BY <1>0, <2>1, <2>2, NotYet
<1>2. CASE ~NoRoom(Cardinality(Chosen))
  <2>1. /\ chosen' = [a \in Chosen |-> agent[a].fit]
        /\ cap' = Pause(Fallen)
        /\ pass' = IF Chosen = {} THEN IdlePass
                   ELSE [pc |-> "promote", todo |-> Chosen,
                         plan |-> Allocation(Chosen), clean |-> TRUE]
        /\ settled' = (Chosen = {})
    BY <1>2 DEF Select
  <2>2. DOMAIN chosen' = Chosen
    BY <2>1
  <2>3. Rows' /\ AtWork' \subseteq Chosen
    BY <1>0, <2>1, OnlyChosenStay
  <2>4. PassShaped'
    BY <2>1 DEF PassShaped
  <2>5. pass'.pc # "idle" => ~settled'
    BY <2>1 DEF IdlePass
  <2>6. HalfDone'
    <3>1. ASSUME pass'.pc = "promote" PROVE pass'.todo = Chosen /\ pass'.clean = TRUE
      BY <2>1, <3>1 DEF IdlePass
    <3> QED
      BY <2>2, <2>3, <3>1 DEF HalfDone
  <2>7. LiveAreTheChosen'
    BY <2>1, <2>2, <2>3 DEF LiveAreTheChosen, AtWork
  <2>8. settled' \in BOOLEAN
    BY <2>1
  <2> QED
    BY <1>0, <2>2, <2>3, <2>4, <2>5, <2>6, <2>7, <2>8 DEF Inv
<1> QED
  BY <1>1, <1>2

(* Whatever the row was, the promoted capsule is live. *)
LEMMA PromotedIsLive ==
    ASSUME NEW r, Row(r), NEW n
    PROVE  Row(Promoted(r, n)) /\ Promoted(r, n).status = "live"
<1>1. LET x == [NoCapsule EXCEPT !.status = "live", !.alloc = n]
      IN  Row(x) /\ x.status = "live"
  BY DEF Row, NoCapsule
<1>2. LET x == [r EXCEPT !.status = "live", !.alloc = n]
      IN  Row(x) /\ x.status = "live"
  BY DEF Row
<1>3. \/ Promoted(r, n) = [NoCapsule EXCEPT !.status = "live", !.alloc = n]
      \/ Promoted(r, n) = [r EXCEPT !.status = "live", !.alloc = n]
      \/ Promoted(r, n) = r /\ r.status = "live"
  BY DEF Promoted
<1> QED
  BY <1>1, <1>2, <1>3

(* The capsule that is rebalanced is the agent's own. *)
LEMMA RebalancedOwn == ASSUME NEW a \in Agents PROVE Rebalanced(a) = {a}
<1>1. Existing(a) \subseteq {a}
  BY DEF Existing, AutoLive, Owner
<1> QED
  BY <1>1 DEF Rebalanced

(* What one promotion does. *)
LEMMA PromoteStep ==
    ASSUME Inv, Promote
    PROVE  \E a \in pass.todo :
              /\ a \in Agents
              /\ cap' = [cap EXCEPT ![a] = Promoted(@, pass.plan[a])]
              /\ IF pass.todo = {a}
                 THEN /\ pass' = IdlePass /\ settled' = pass.clean
                      /\ chosen' = IF pass.clean THEN chosen ELSE <<>>
                 ELSE pass' = [pass EXCEPT !.todo = @ \ {a}] /\ UNCHANGED <<settled, chosen>>
<1>1. PICK a \in pass.todo :
          /\ \E c \in Rebalanced(a) : cap' = [cap EXCEPT ![c] = Promoted(@, pass.plan[a])]
          /\ IF pass.todo = {a}
             THEN /\ pass' = IdlePass /\ settled' = pass.clean
                  /\ chosen' = IF pass.clean THEN chosen ELSE <<>>
             ELSE pass' = [pass EXCEPT !.todo = @ \ {a}] /\ UNCHANGED <<settled, chosen>>
  BY DEF Promote
<1>2. a \in Agents
  BY DEF Promote, Inv, HalfDone
<1>3. cap' = [cap EXCEPT ![a] = Promoted(@, pass.plan[a])]
  BY <1>1, <1>2, RebalancedOwn
<1> QED
  BY <1>1, <1>2, <1>3

(* One promotion keeps the invariant. *)
LEMMA PromoteKeeps == ASSUME Inv, Promote PROVE Inv'
<1>1. PICK a \in pass.todo :
          /\ cap' = [cap EXCEPT ![a] = Promoted(@, pass.plan[a])]
          /\ IF pass.todo = {a}
             THEN /\ pass' = IdlePass /\ settled' = pass.clean
                  /\ chosen' = IF pass.clean THEN chosen ELSE <<>>
             ELSE pass' = [pass EXCEPT !.todo = @ \ {a}] /\ UNCHANGED <<settled, chosen>>
  BY PromoteStep
<1>2. /\ Rows /\ pass.pc = "promote" /\ settled = FALSE /\ DOMAIN chosen \subseteq Agents
      /\ pass.todo \subseteq DOMAIN chosen /\ pass.clean \in BOOLEAN
      /\ {"pc", "todo", "plan", "clean"} \subseteq DOMAIN pass
  BY DEF Promote, Inv, HalfDone, PassShaped, IdlePass
<1>3. a \in Agents /\ a \in Capsules
  BY <1>2 DEF Capsules
<1> PICK r : r = Promoted(cap[a], pass.plan[a])
  OBVIOUS
<1>4. Row(r) /\ r.status = "live"
  BY <1>2, <1>3, PromotedIsLive DEF Rows
<1>5. cap' = [cap EXCEPT ![a] = r]
  BY <1>1
<1>6. Rows' /\ cap'[a].status = "live" /\ \A c \in Agents \ {a} : cap'[c] = cap[c]
  BY <1>2, <1>3, <1>4, <1>5, RowChanged DEF Capsules
<1>7. pass.clean => /\ AtWork' \subseteq DOMAIN chosen
                    /\ \A b \in DOMAIN chosen \ (pass.todo \ {a}) : cap'[b].status = "live"
  <2> SUFFICES ASSUME pass.clean
               PROVE  /\ AtWork' \subseteq DOMAIN chosen
                      /\ \A b \in DOMAIN chosen \ (pass.todo \ {a}) : cap'[b].status = "live"
    OBVIOUS
  <2>1. /\ AtWork \subseteq DOMAIN chosen
        /\ \A b \in DOMAIN chosen \ pass.todo : cap[b].status = "live"
    BY <1>2 DEF Inv, HalfDone
  <2>2. AtWork' \subseteq AtWork \cup {a}
    BY <1>6 DEF AtWork, Active
  <2> QED
    BY <1>2, <1>6, <2>1, <2>2
<1>8. CASE pass.todo = {a} /\ ~pass.clean
  <2>1. pass' = IdlePass /\ settled' = FALSE /\ chosen' = <<>>
    BY <1>1, <1>2, <1>8
  <2> QED
    BY <1>6, <2>1, NobodyChosen, NotYet
<1>9. CASE pass.todo = {a} /\ pass.clean
  <2>1. pass' = IdlePass /\ settled' = pass.clean /\ chosen' = chosen
    BY <1>1, <1>9
  <2>2. \A b \in DOMAIN chosen : cap'[b].status = "live"
    BY <1>7, <1>9
  <2>3. AtWork' = DOMAIN chosen
    BY <1>2, <1>7, <1>9, <2>2 DEF AtWork, Active
  <2> QED
    BY <1>2, <1>6, <1>9, <2>1, <2>2, <2>3
       DEF Inv, PassShaped, HalfDone, LiveAreTheChosen, IdlePass, AtWork
<1>10. CASE pass.todo # {a}
  <2>1. pass' = [pass EXCEPT !.todo = @ \ {a}] /\ UNCHANGED <<settled, chosen>>
    BY <1>1, <1>10
  <2>2. /\ pass'.pc = pass.pc /\ DOMAIN pass' = DOMAIN pass
        /\ pass'.todo = pass.todo \ {a} /\ pass'.clean = pass.clean
    BY <1>2, <2>1
  <2>5. PassShaped'
    BY <1>2, <2>2 DEF PassShaped
  <2>3. HalfDone'
    BY <1>2, <1>7, <2>1, <2>2 DEF HalfDone
  <2>4. settled' = FALSE /\ LiveAreTheChosen'
    BY <1>2, <2>1 DEF LiveAreTheChosen
  <2> QED
    BY <1>2, <1>6, <2>1, <2>3, <2>4, <2>5 DEF Inv
<1> QED
  BY <1>8, <1>9, <1>10

-----------------------------------------------------------------------------
(* The world outside.                                                      *)

(* Perform keeps the invariant: it touches no capsule. *)
LEMMA PerformKeeps == ASSUME Inv, Perform PROVE Inv'
<1>1. Rows'
  BY DEF Perform, Inv, Rows
<1> QED
  BY <1>1, SameStatuses DEF Perform

(* Trade keeps the invariant: profit, loss and errors do not change a status. *)
LEMMA TradeKeeps == ASSUME Inv, Trade PROVE Inv'
<1>0. \A c \in Capsules : PnlsOf[c] \subseteq Int
  BY PromotionAssumption DEF PromotionAssumption, Capsules
<1>1. PICK c \in Capsules, b \in BOOLEAN, p \in Int :
          cap' = [cap EXCEPT ![c].pnl = p, ![c].failing = b]
  BY <1>0 DEF Trade
<1>2. Rows /\ Row(cap[c])
  BY DEF Inv, Rows
<1> PICK o : o = cap[c]
  OBVIOUS
<1> PICK r : r = [o EXCEPT !.pnl = p, !.failing = b]
  OBVIOUS
<1>3. Row(r) /\ r.status = o.status
  BY <1>2 DEF Row
<1>5. cap' = [cap EXCEPT ![c] = r]
  BY <1>1, <1>2 DEF Rows
<1>6. Rows' /\ \A d \in Capsules : cap'[d].status = cap[d].status
  <2>1. Rows' /\ cap'[c] = r /\ \A d \in Capsules \ {c} : cap'[d] = cap[d]
    BY <1>2, <1>3, <1>5, RowChanged
  <2> QED
    BY <1>3, <2>1
<1> QED
  BY <1>6, SameStatuses DEF Trade, Capsules

(* TagProfiles keeps the invariant: a profile does not change a status. *)
LEMMA TagProfilesKeeps == ASSUME Inv, TagProfiles PROVE Inv'
<1>1. cap' = [c \in Capsules |-> [cap[c] EXCEPT !.tagged = @ \/ Active(c)]]
  BY DEF TagProfiles
<1>2. ASSUME NEW c \in Capsules
      PROVE  Row(cap'[c]) /\ cap'[c].status = cap[c].status
  <2> PICK o : o = cap[c]
    OBVIOUS
  <2>1. Row(o)
    BY DEF Inv, Rows
  <2>2. PICK t : t = (o.tagged \/ Active(c))
    OBVIOUS
  <2>3. cap'[c] = [o EXCEPT !.tagged = t]
    BY <1>1, <2>2
  <2> QED
    BY <2>1, <2>3 DEF Row
<1>3. Rows'
  BY <1>1, <1>2 DEF Rows, Row
<1> QED
  BY <1>2, <1>3, SameStatuses DEF TagProfiles, Capsules

(* Operator keeps the invariant: what a hand on an agent's capsule breaks is no *)
(* longer claimed, and the operator's own capsules are not part of the claim.   *)
LEMMA OperatorKeeps == ASSUME Inv, Operator PROVE Inv'
<1>1. PICK c \in Capsules, s \in Statuses :
          /\ cap' = [cap EXCEPT ![c] =
                IF s = "none" THEN NoCapsule ELSE [@ EXCEPT !.status = s]]
          /\ settled' = (settled /\ c \in Manual)
          /\ chosen' = IF settled /\ c \in Agents THEN <<>> ELSE chosen
          /\ pass' = IF pass.pc = "promote" /\ c \in Agents
                     THEN [pass EXCEPT !.clean = FALSE] ELSE pass
  BY DEF Operator
<1>0. Rows /\ Row(cap[c]) /\ settled \in BOOLEAN
  BY DEF Inv, Rows
<1> PICK o : o = cap[c]
  OBVIOUS
<1> PICK r : r = IF s = "none" THEN NoCapsule ELSE [o EXCEPT !.status = s]
  OBVIOUS
<1>2. Row(r)
  BY <1>0 DEF Row, NoCapsule
<1>3. Rows' /\ \A d \in Capsules \ {c} : cap'[d] = cap[d]
  BY <1>0, <1>1, <1>2, RowChanged
<1>4. CASE c \in Manual
  <2>1. c \notin Agents
    BY <1>4, PromotionAssumption DEF PromotionAssumption
  <2>2. UNCHANGED <<pass, settled, chosen>>
    BY <1>0, <1>1, <1>4, <2>1
  <2> QED
    BY <1>3, <2>1, <2>2, SameStatuses DEF Capsules
<1>5. CASE c \in Agents
  <2>1. c \notin Manual
    BY <1>5, PromotionAssumption DEF PromotionAssumption
  <2>2. settled' = FALSE
    BY <1>1, <2>1
  <2>3. DOMAIN chosen' \subseteq Agents
    BY <1>1, NobodyChosen DEF Inv
  <2>4. PassShaped' /\ HalfDone'
    <3>1. CASE pass.pc = "promote"
      <4>1. {"pc", "todo", "plan", "clean"} \subseteq DOMAIN pass
        BY <3>1 DEF Inv, PassShaped, IdlePass
      <4>2. pass' = [pass EXCEPT !.clean = FALSE]
        BY <1>1, <1>5, <3>1
      <4>3. /\ pass'.pc = "promote" /\ DOMAIN pass' = DOMAIN pass
            /\ pass'.todo = pass.todo /\ pass'.clean = FALSE
        BY <3>1, <4>1, <4>2
      <4>4. chosen' = chosen /\ pass.todo \subseteq DOMAIN chosen
        BY <1>1, <3>1 DEF Inv, HalfDone
      <4> QED
        BY <4>1, <4>3, <4>4 DEF PassShaped, HalfDone
    <3>2. CASE pass.pc # "promote"
      <4>1. pass' = pass
        BY <1>1, <3>2
      <4> QED
        BY <3>2, <4>1 DEF Inv, PassShaped, HalfDone
    <3> QED
      BY <3>1, <3>2
  <2>5. LiveAreTheChosen'
    BY <2>2 DEF LiveAreTheChosen
  <2> QED
    BY <1>3, <2>2, <2>3, <2>4, <2>5 DEF Inv
<1> QED
  BY <1>4, <1>5 DEF Capsules

-----------------------------------------------------------------------------
(* Theorems.                                                               *)

(* The initial states satisfy the invariant. *)
LEMMA Beginning == Init => Inv
<1> SUFFICES ASSUME Init PROVE Inv
  OBVIOUS
<1>1. PICK pnl :
          cap = [c \in Capsules |->
                   IF c \in Manual
                   THEN [NoCapsule EXCEPT !.status = "live", !.alloc = ManualCapital,
                                          !.pnl = pnl[c], !.tagged = TRUE]
                   ELSE NoCapsule]
  BY DEF Init
<1>2. ASSUME NEW c \in Capsules PROVE Row(cap[c])
  BY <1>1 DEF NoCapsule, Row
<1>3. Rows
  BY <1>1, <1>2 DEF Rows
<1> QED
  BY <1>3, NobodyChosen DEF Init, Inv, PassShaped, IdlePass, HalfDone, LiveAreTheChosen

(* Every step keeps the invariant. *)
LEMMA Step == Inv /\ [Next]_vars => Inv'
<1>1. ASSUME Inv, UNCHANGED vars PROVE Inv'
  <2>1. Rows' /\ UNCHANGED <<cap, pass, settled, chosen>>
    BY <1>1 DEF vars, Inv, Rows
  <2> QED
    BY <1>1, <2>1, SameStatuses
<1>2. ASSUME Inv, Next PROVE Inv'
  BY <1>2, BeginKeeps, GuardsKeep, GivenUpKeeps, SelectKeeps, PromoteKeeps,
     PerformKeeps, TradeKeeps, TagProfilesKeeps, OperatorKeeps DEF Next, Advance
<1> QED
  BY <1>1, <1>2

(* The inductive invariant, whatever is vetoed, killed or done by hand. *)
THEOREM Invariance == Spec => []Inv
BY Beginning, Step, PTL DEF Spec

(* After a completed pass, and until the operator touches an agent's capsule, the *)
(* auto-live capsules at work are those of the agents it chose, and all are live. *)
THEOREM ChosenAreLive == Spec => []LiveAreTheChosen
<1>1. Inv => LiveAreTheChosen
  BY DEF Inv
<1> QED
  BY <1>1, Invariance, PTL

Counted == events \in Nat

(* What happens outside is counted. *)
LEMMA EventsCounted == Spec => []Counted
<1>1. Init => Counted
  <2> SUFFICES ASSUME Init PROVE Counted
    OBVIOUS
  <2>1. events = 0
    BY DEF Init
  <2> QED
    BY <2>1 DEF Counted
<1>2. Counted /\ [Next]_vars => Counted'
  <2>1. ASSUME [Next]_vars
        PROVE  events' \in {events, events + 1}
    BY <2>1 DEF Next, Advance, SealBegin, ForceBegin, Breaker, Clusters, Blocked, Select, Promote,
           Crash, Perform, Trade, TagProfiles, Operator, Outside, vars
  <2> QED
    BY <2>1 DEF Counted
<1> QED
  BY <1>1, <1>2, PTL DEF Spec

\* What a step does to m: nothing, or a guard pauses it.
Untouched(m) ==
    \/ cap'[m] = cap[m]
    \/ /\ pass.pc \in {"breaker", "clusters"} /\ Active(m)
       /\ cap'[m] = [cap[m] EXCEPT !.status = "paused"]

(* No step of the process touches a capsule of the operator, but for a guard. *)
LEMMA ManualStays ==
    ASSUME Inv, Counted, [Next]_vars, events' = events, NEW m \in Manual
    PROVE  Untouched(m)
<1>0. m \in Capsules /\ m \notin Agents /\ Rows
  BY PromotionAssumption DEF PromotionAssumption, Capsules, Inv
<1>1. CASE UNCHANGED vars
  BY <1>1 DEF vars, Untouched
<1>2. CASE SealBegin \/ ForceBegin \/ Blocked \/ Crash
  BY <1>2 DEF SealBegin, ForceBegin, Blocked, Crash, Untouched
<1>3. CASE Breaker
  BY <1>0, <1>3 DEF Breaker, Tripped, Pause, Untouched
<1>4. CASE Clusters
  <2>1. m \in ClusterPaused => Active(m)
    BY DEF ClusterPaused
  <2> QED
    BY <1>0, <1>4, <2>1 DEF Clusters, Pause, Untouched
<1>5. CASE Select
  <2>1. m \notin Fallen
    BY <1>0 DEF Fallen, AutoLive
  <2>2. cap' = cap \/ cap' = Pause(Fallen)
    BY <1>5 DEF Select
  <2> QED
    BY <1>0, <2>1, <2>2 DEF Pause, Untouched
<1>6. CASE Promote
  <2>1. PICK a \in Agents : cap' = [cap EXCEPT ![a] = Promoted(@, pass.plan[a])]
    BY <1>6, PromoteStep
  <2> QED
    BY <1>0, <2>1 DEF Rows, Untouched
<1>7. CASE Perform \/ Trade \/ TagProfiles \/ Operator
  <2>1. events' = events + 1
    BY <1>7 DEF Perform, Trade, TagProfiles, Operator, Outside
  <2> QED
    BY <2>1 DEF Counted
<1> QED
  BY <1>1, <1>2, <1>3, <1>4, <1>5, <1>6, <1>7 DEF Next, Advance

(* The operator's capsules are untouched, one bound to an agent that is promoted *)
(* included: no rebalance, reactivation or pause of the fallen changes anything  *)
(* of their rows, and the guards only pause one that is at work.                 *)
THEOREM ManualIsUntouched == Spec => ManualUntouched
<1>1. Inv /\ Counted /\ [Next]_vars =>
          [events' = events =>
             \A m \in Manual :
                \/ cap'[m] = cap[m]
                \/ /\ pass.pc \in {"breaker", "clusters"} /\ Active(m)
                   /\ cap'[m] = [cap[m] EXCEPT !.status = "paused"]]_vars
  BY ManualStays DEF Untouched
<1> QED
  BY <1>1, Invariance, EventsCounted, PTL DEF Spec, ManualUntouched

-----------------------------------------------------------------------------
(***************************************************************************)
(* Capital.  allocateByFitness gives each of the chosen a floor and a part *)
(* of the rest in proportion to a weight, rounded to cents.                *)
(***************************************************************************)

(* A positive factor can be dropped. *)
LEMMA Cancel ==
    ASSUME NEW d \in Nat \ {0}, NEW a \in Int, NEW b \in Int
    PROVE  /\ d * a <= d * b => a <= b
           /\ d * a < d * b => a < b
           /\ a <= b => d * a <= d * b
<1>1. ASSUME a >= b + 1
      PROVE  d * a >= d * b + d
  <2>1. PICK k \in Nat : a = b + 1 + k
    BY <1>1
  <2>2. d * (b + 1 + k) = d * b + d + d * k
    OBVIOUS
  <2>3. d * k \in Nat
    OBVIOUS
  <2> QED
    BY <2>1, <2>2, <2>3
<1>2. ASSUME a <= b
      PROVE  d * a <= d * b
  <2>1. PICK k \in Nat : b = a + k
    BY <1>2
  <2>2. d * (a + k) = d * a + d * k
    OBVIOUS
  <2>3. d * k \in Nat
    OBVIOUS
  <2> QED
    BY <2>1, <2>2, <2>3
<1>3. PICK x \in Int, y \in Int : x = d * a /\ y = d * b
  OBVIOUS
<1> QED
  BY <1>1, <1>2, <1>3

(* Rounded is off by half a cent at most. *)
LEMMA RoundedBounds ==
    ASSUME NEW v \in Nat, NEW d \in Nat \ {0}
    PROVE  /\ Rounded(v, d) \in Nat
           /\ d * (2 * Rounded(v, d)) <= 2 * v + d
           /\ 2 * v + d < d * (2 * Rounded(v, d) + 2)
<1> DEFINE w == 2 * v + d
           e == 2 * d
           q == w \div e
<1>1. w \in Nat /\ e \in Nat \ {0}
  OBVIOUS
<1> HIDE DEF w, e
<1>2. q \in Nat /\ e * q <= w /\ w < e * q + e
  BY <1>1
<1> HIDE DEF q
<1>3. d * (2 * q) = e * q /\ d * (2 * q + 2) = e * q + e
  BY <1>2 DEF e
<1> QED
  BY <1>2, <1>3 DEF w, q, e, Rounded

(* The weighted share of one of the chosen, before rounding: of the budget of b
   with a floor of m percent for each of n, for a weight of x out of s. *)
Share(b, m, n, s, x) == b * (m * s + x * (100 - n * m))

(* Its bounds: the floor, and the whole budget. *)
LEMMA ShareBounds ==
    ASSUME NEW b \in Nat, NEW m \in Nat, NEW n \in Nat \ {0}, n * m < 100,
           NEW s \in Nat \ {0}, NEW x \in 0..s
    PROVE  /\ Share(b, m, n, s, x) \in Nat
           /\ s * (b * m) <= Share(b, m, n, s, x)
           /\ Share(b, m, n, s, x) <= (100 * s) * b
<1>1. PICK r \in Nat : r = 100 - n * m
  OBVIOUS
<1>2. m + r <= 100
  <2>1. PICK k \in Nat : n = k + 1
    OBVIOUS
  <2>2. n * m = k * m + m /\ k * m \in Nat
    BY <2>1
  <2> QED
    BY <1>1, <2>2
<1>3. PICK t \in Nat : t = x * r /\ t <= s * r
  <2>1. PICK k \in Nat : s = x + k
    OBVIOUS
  <2>2. s * r = x * r + k * r /\ k * r \in Nat /\ x * r \in Nat
    BY <2>1
  <2> QED
    BY <2>2
<1>4. PICK u \in Nat : u = m * s
  OBVIOUS
<1>5. u + t <= 100 * s
  <2>1. s * (m + r) <= s * 100
    BY <1>2, Cancel
  <2>2. s * (m + r) = u + s * r
    BY <1>4
  <2>3. s * r \in Nat /\ s * 100 = 100 * s
    OBVIOUS
  <2> QED
    BY <1>3, <2>1, <2>2, <2>3
<1>6. Share(b, m, n, s, x) = b * (u + t)
  BY <1>1, <1>3, <1>4 DEF Share
<1>7. b * (u + t) = b * u + b * t /\ b * u \in Nat /\ b * t \in Nat /\ b * u = s * (b * m)
  BY <1>4
<1>8. b * (u + t) <= (100 * s) * b
  <2>1. CASE b = 0
    BY <2>1
  <2>2. CASE b # 0
    <3>1. PICK z \in Nat : z = 100 * s
      OBVIOUS
    <3>2. b * (u + t) <= b * z
      BY <1>5, <2>2, <3>1, Cancel
    <3>3. b * z = z * b
      OBVIOUS
    <3> QED
      BY <3>1, <3>2, <3>3
  <2> QED
    BY <2>1, <2>2
<1> QED
  BY <1>6, <1>7, <1>8

-----------------------------------------------------------------------------
(* What a plan gives to whom: DOMAIN fit are the chosen, with their fitness. *)
Fair(plan, fit) ==
    LET C == DOMAIN fit
        total == SumFunctionOnSet(plan, C)
    IN  /\ plan \in [C -> 0..Budget]
        /\ \A a \in C : 2 * Budget * MinShare <= 100 * (2 * plan[a] + 1)
        /\ \A a, b \in C : fit[a] > fit[b] => plan[a] >= plan[b]
        /\ 2 * (total - Budget) <= Cardinality(C) /\ 2 * (Budget - total) <= Cardinality(C)

Fitness(C) == [a \in C |-> agent[a].fit]
AgentsTyped == agent \in [Agents -> [level : Levels, fit : Fits]]

(* Weights: at least 1 for each of the chosen, in the order of their fitness. *)
LEMMA Weights ==
    ASSUME AgentsTyped, NEW C \in SUBSET Agents, C # {}
    PROVE  LET sh == [a \in C |-> Shifted(C, a)]
           IN  /\ \A a \in C : sh[a] \in Nat \ {0}
               /\ \A a, b \in C : agent[a].fit > agent[b].fit <=> sh[a] > sh[b]
               /\ SumFunction(sh) = SumFunctionOnSet(sh, C)
               /\ SumFunctionOnSet(sh, C) \in Nat \ {0}
               /\ \A a \in C : sh[a] <= SumFunctionOnSet(sh, C)
<1> DEFINE F == {agent[b].fit : b \in C}
           sh == [a \in C |-> Shifted(C, a)]
           s == SumFunctionOnSet(sh, C)
<1>1. \A a \in C : agent[a].fit \in Int /\ agent[a].fit \in Fits
  BY PromotionAssumption DEF PromotionAssumption, AgentsTyped
<1>2. Min(F) \in F /\ \A x \in F : Min(F) <= x
  <2>1. F \subseteq Fits /\ F # {} /\ \A x \in F : x \in Int
    BY <1>1
  <2>2. IsFiniteSet(F)
    BY <2>1, FS_Subset, PromotionAssumption DEF PromotionAssumption
  <2> HIDE DEF F
  <2> QED
    BY <2>1, <2>2, MinOfFinite
<1>3. PICK m \in Int : m = Min(F) /\ \A a \in C : m <= agent[a].fit
  BY <1>1, <1>2
<1>4. \A a \in C : sh[a] = agent[a].fit - m + 1
  BY <1>3 DEF Shifted
<1> HIDE DEF sh
<1>5. \A a \in C : sh[a] \in Nat \ {0}
  BY <1>1, <1>3, <1>4
<1>6. \A a, b \in C : agent[a].fit > agent[b].fit <=> sh[a] > sh[b]
  BY <1>1, <1>3, <1>4
<1>7. IsFiniteSet(C)
  BY FS_Subset, PromotionAssumption DEF PromotionAssumption
<1>8. ASSUME NEW a \in C
      PROVE  s \in Nat \ {0} /\ sh[a] <= s
  <2>1. SumFunctionOnSet(sh, C \ {a}) \in Nat
    <3>1. C \ {a} \in SUBSET C /\ \A x \in C : sh[x] \in Nat
      BY <1>5
    <3> QED
      BY <1>7, <3>1, SumOfPart
  <2>2. s = sh[a] + SumFunctionOnSet(sh, C \ {a})
    <3>1. C \in SUBSET C /\ \A x \in C : sh[x] \in Int
      BY <1>5
    <3> QED
      BY <1>7, <3>1, SumSplit
  <2> HIDE DEF s
  <2> QED
    BY <1>5, <2>1, <2>2
<1>9. SumFunction(sh) = s
  BY DEF SumFunction, sh
<1> HIDE DEF s
<1>10. s \in Nat \ {0} /\ \A a \in C : sh[a] <= s
  BY <1>8
<1> QED
  BY <1>5, <1>6, <1>9, <1>10 DEF sh, s

(* The single one chosen gets it all. *)
LEMMA AloneIsFair ==
    ASSUME AgentsTyped, NEW C \in SUBSET Agents, Cardinality(C) = 1
    PROVE  Fair(Allocation(C), Fitness(C))
<1> DEFINE plan == [a \in C |-> Budget]
<1>1. Allocation(C) = plan
  BY DEF Allocation
<1>2. IsFiniteSet(C)
  <2>1. C \in SUBSET (Agents \cup Manual)
    OBVIOUS
  <2> QED
    BY <2>1, FS_Subset, PromotionAssumption DEF PromotionAssumption
<1>5. Budget \in Nat /\ MinShare \in 1..99
  BY PromotionAssumption DEF PromotionAssumption
<1>3. PICK a \in C : C = {a}
  BY <1>2, FS_Singleton
<1>4. SumFunctionOnSet(plan, C) = Budget
  <2>1. C \in SUBSET C /\ (\A x \in C : plan[x] \in Int) /\ C \ {a} = {} /\ plan[a] = Budget
    BY <1>3, <1>5
  <2> HIDE DEF plan
  <2>2. SumFunctionOnSet(plan, C) = plan[a] + SumFunctionOnSet(plan, C \ {a})
    BY <1>2, <2>1, SumSplit
  <2>3. SumFunctionOnSet(plan, {}) = 0
    BY SumEmpty
  <2> QED
    BY <1>5, <2>1, <2>2, <2>3
<1>6. 2 * Budget * MinShare <= 100 * (2 * Budget + 1)
  <2>1. PICK b \in Nat, m \in Nat : b = 2 * Budget /\ m = MinShare /\ m <= 100
    BY <1>5
  <2>2. PICK k \in Nat : 100 = m + k
    BY <2>1
  <2>3. b * (m + k) = b * m + b * k /\ b * k \in Nat /\ b * m \in Nat
    OBVIOUS
  <2>4. b * m <= b * 100
    BY <2>2, <2>3
  <2> QED
    BY <2>1, <2>3, <2>4
<1>7. DOMAIN Fitness(C) = C
  BY DEF Fitness
<1> QED
  BY <1>1, <1>4, <1>5, <1>6, <1>7 DEF Fair

(* Otherwise each gets its rounded share. *)
LEMMA SharesAreFair ==
    ASSUME AgentsTyped, NEW C \in SUBSET Agents, C # {}, Cardinality(C) # 1, ~NoRoom(Cardinality(C))
    PROVE  Fair(Allocation(C), Fitness(C))
<1> DEFINE sh == [a \in C |-> Shifted(C, a)]
           plan == Allocation(C)
<1>1. PICK n \in Nat \ {0} : n = Cardinality(C) /\ n # 1
  <2>1. IsFiniteSet(C)
    BY FS_Subset, PromotionAssumption DEF PromotionAssumption
  <2> QED
    BY <2>1, FS_CardinalityType, FS_EmptySet
<1>2. PICK s \in Nat \ {0} : s = SumFunctionOnSet(sh, C)
  BY Weights
<1>3. PICK m \in 1..99, b \in Nat : m = MinShare /\ b = Budget
  BY PromotionAssumption DEF PromotionAssumption
<1>4. n * m < 100
  <2>1. MinShare * n < 100
    BY <1>1, <1>3 DEF NoRoom
  <2> QED
    BY <1>3, <2>1
<1>5. PICK d \in Nat \ {0} : d = 100 * s
  OBVIOUS
<1> DEFINE v == [a \in C |-> Share(b, m, n, s, sh[a])]
<1>6. ASSUME NEW a \in C
      PROVE  sh[a] \in 0..s
  <2>1. sh[a] \in Nat \ {0} /\ sh[a] <= SumFunctionOnSet(sh, C)
    BY Weights
  <2> HIDE DEF sh
  <2> QED
    BY <1>2, <2>1
<1>7. ASSUME NEW a \in C
      PROVE  v[a] \in Nat /\ s * (b * m) <= v[a] /\ v[a] <= d * b
  <2> HIDE DEF sh
  <2>1. v[a] = Share(b, m, n, s, sh[a])
    OBVIOUS
  <2>2. PICK x \in 0..s : x = sh[a]
    BY <1>6
  <2>3. /\ Share(b, m, n, s, x) \in Nat
        /\ s * (b * m) <= Share(b, m, n, s, x)
        /\ Share(b, m, n, s, x) <= (100 * s) * b
    <3>1. m \in Nat
      OBVIOUS
    <3> QED
      BY <1>4, <3>1, ShareBounds
  <2> HIDE DEF v
  <2> QED
    BY <1>5, <2>1, <2>2, <2>3
<1>8. plan = [a \in C |-> Rounded(v[a], d)]
  <2>1. SumFunction(sh) = s
    BY <1>2, Weights
  <2>2. ASSUME NEW a \in C
        PROVE  v[a] = Budget * (MinShare * s + Shifted(C, a) * (100 - n * MinShare))
    BY <1>3 DEF Share
  <2>3. 100 * s = d /\ n # 1 /\ n = Cardinality(C)
    BY <1>1, <1>5
  <2>4. plan = [a \in C |-> Rounded(Budget * (MinShare * SumFunction(sh)
                                                + Shifted(C, a) * (100 - n * MinShare)),
                                     100 * SumFunction(sh))]
    BY <2>3 DEF Allocation
  <2> HIDE DEF sh, v
  <2> QED
    BY <2>1, <2>2, <2>3, <2>4
<1> HIDE DEF plan
<1>9. ASSUME NEW a \in C
      PROVE  /\ plan[a] \in Nat
             /\ d * (2 * plan[a]) <= 2 * v[a] + d
             /\ 2 * v[a] + d < d * (2 * plan[a] + 2)
  <2>1. plan[a] = Rounded(v[a], d) /\ v[a] \in Nat
    BY <1>7, <1>8
  <2> HIDE DEF v
  <2> QED
    BY <2>1, RoundedBounds
<1> HIDE DEF v
<1>10. ASSUME NEW a \in C
       PROVE  plan[a] \in 0..Budget
  <2>1. PICK x \in Nat, y \in Nat : x = plan[a] /\ y = v[a]
    BY <1>7, <1>9
  <2>2. d * (2 * x) <= 2 * y + d /\ y <= d * b
    BY <1>7, <1>9, <2>1
  <2>3. d * (2 * b + 1) = 2 * (d * b) + d /\ d * b \in Nat /\ d * (2 * x) \in Nat
    OBVIOUS
  <2>4. d * (2 * x) <= d * (2 * b + 1)
    BY <2>2, <2>3
  <2>5. 2 * x <= 2 * b + 1
    BY <2>4, Cancel
  <2> QED
    BY <1>3, <2>1, <2>5
<1>11. ASSUME NEW a \in C
       PROVE  2 * Budget * MinShare <= 100 * (2 * plan[a] + 1)
  <2>1. PICK x \in Nat, y \in Nat : x = plan[a] /\ y = v[a]
    BY <1>7, <1>9
  <2>2. 2 * y + d < d * (2 * x + 2) /\ s * (b * m) <= y
    BY <1>7, <1>9, <2>1
  <2>3. d * (2 * x + 2) = d * (2 * x + 1) + d /\ d * (2 * x + 1) = s * (100 * (2 * x + 1))
    BY <1>5
  <2>4. s * (2 * b * m) = 2 * (s * (b * m)) /\ s * (b * m) \in Nat /\ d * (2 * x + 1) \in Nat
    OBVIOUS
  <2>5. s * (2 * b * m) <= s * (100 * (2 * x + 1))
    BY <2>2, <2>3, <2>4
  <2>6. 2 * b * m \in Int /\ 100 * (2 * x + 1) \in Int
    OBVIOUS
  <2>7. 2 * b * m <= 100 * (2 * x + 1)
    BY <2>5, <2>6, Cancel
  <2> QED
    BY <1>3, <2>1, <2>7
<1>12. ASSUME NEW a \in C, NEW c \in C, agent[a].fit > agent[c].fit
       PROVE  plan[a] >= plan[c]
  <2>1. sh[a] > sh[c]
    BY <1>12, Weights
  <2>2. PICK x \in Nat, y \in Nat, z \in Nat, w \in Nat :
           x = plan[a] /\ y = v[a] /\ z = plan[c] /\ w = v[c]
    BY <1>7, <1>9
  <2>3. w <= y
    <3> HIDE DEF sh
    <3>1. PICK i \in Nat, j \in Nat : i = sh[a] /\ j = sh[c] /\ j <= i
      BY <1>6, <2>1
    <3>2. y = Share(b, m, n, s, i) /\ w = Share(b, m, n, s, j)
      BY <2>2, <3>1 DEF v
    <3>3. PICK k \in Nat : i = j + k
      <4>1. i - j \in Nat /\ i = j + (i - j)
        BY <3>1
      <4> QED
        BY <4>1
    <3>4. PICK r \in Nat : r = 100 - n * m
      BY <1>4
    <3>5. PICK e \in Nat : e = k * r
      OBVIOUS
    <3>6. m * s + i * r = m * s + j * r + e
      BY <3>3, <3>5
    <3>7. b * (m * s + j * r + e) = b * (m * s + j * r) + b * e /\ b * e \in Nat
      OBVIOUS
    <3> QED
      BY <3>2, <3>4, <3>6, <3>7 DEF Share
  <2>4. d * (2 * z) <= 2 * w + d /\ 2 * y + d < d * (2 * x + 2)
    BY <1>9, <2>2
  <2>5. d * (2 * z) \in Nat /\ d * (2 * x + 2) \in Nat
    OBVIOUS
  <2>6. d * (2 * z) < d * (2 * x + 2)
    BY <2>3, <2>4, <2>5
  <2>7. 2 * z < 2 * x + 2
    BY <2>6, Cancel
  <2> QED
    BY <2>2, <2>7
<1> DEFINE total == SumFunctionOnSet(plan, C)
<1>13. IsFiniteSet(C)
  <2>1. C \subseteq Agents \cup Manual /\ IsFiniteSet(Agents \cup Manual)
    BY PromotionAssumption DEF PromotionAssumption
  <2> QED
    BY ONLY <2>1, FS_Subset
<1>14. total \in Int
  <2>1. C \in SUBSET C /\ \A x \in C : plan[x] \in Int
    BY <1>9
  <2> QED
    BY <1>13, <2>1, SumSplit
<1>15. PICK V \in Int : V = SumFunctionOnSet(v, C)
  <2>1. C \in SUBSET C /\ \A x \in C : v[x] \in Int
    BY <1>7
  <2> QED
    BY <1>13, <2>1, SumSplit
<1>16. V = d * b
  <2>1. PICK r \in Int, e \in Int : r = b * (100 - n * m) /\ e = b * (m * s)
    OBVIOUS
  <2>2. ASSUME NEW x \in C
        PROVE  v[x] \in Int /\ sh[x] \in Int /\ v[x] = r * sh[x] + e
    <3>1. PICK i \in Nat : i = sh[x]
      BY <1>6
    <3>2. v[x] = b * (m * s + i * (100 - n * m))
      BY <3>1 DEF v, Share
    <3>3. PICK k \in Int : k = 100 - n * m
      OBVIOUS
    <3>4. b * (m * s + i * k) = b * (m * s) + (b * k) * i
      OBVIOUS
    <3> QED
      BY <2>1, <3>1, <3>2, <3>3, <3>4
  <2> HIDE DEF sh
  <2>3. 1 * V <= r * s + e * n
    <3>1. 1 \in Int /\ \A x \in C : 1 * v[x] <= r * sh[x] + e
      BY <2>2
    <3>2. 1 * SumFunctionOnSet(v, C) <= r * SumFunctionOnSet(sh, C) + e * Cardinality(C)
      BY <1>13, <2>2, <3>1, SumMonotone
    <3> QED
      BY <1>1, <1>2, <1>15, <3>2
  <2>4. r * s <= 1 * V + (-e) * n
    <3>1. 1 \in Int /\ -e \in Int /\ \A x \in C : r * sh[x] <= 1 * v[x] + (-e)
      BY <2>2
    <3>2. r * SumFunctionOnSet(sh, C) <= 1 * SumFunctionOnSet(v, C) + (-e) * Cardinality(C)
      BY <1>13, <2>2, <3>1, SumMonotone
    <3> QED
      BY <1>1, <1>2, <1>15, <3>2
  <2>5. (-e) * n = -(e * n) /\ e * n \in Int /\ r * s \in Int
    OBVIOUS
  <2>6. V = r * s + e * n
    BY <2>3, <2>4, <2>5
  <2>7. r * s + e * n = d * b
    <3>1. PICK k \in Int : k = n * m
      OBVIOUS
    <3>2. r * s = (b * s) * (100 - k)
      BY <2>1, <3>1
    <3>3. e * n = (b * s) * k
      BY <2>1, <3>1
    <3>4. PICK y \in Int : y = b * s
      OBVIOUS
    <3>5. y * (100 - k) + y * k = y * 100
      OBVIOUS
    <3>6. d * b = y * 100
      BY <1>5, <3>4
    <3> QED
      BY <3>2, <3>3, <3>4, <3>5, <3>6
  <2> QED
    BY <2>6, <2>7
<1>17. 2 * (total - Budget) <= n /\ 2 * (Budget - total) <= n
  <2>1. PICK D \in Int : D = 2 * d
    OBVIOUS
  <2>2. \A x \in C : /\ plan[x] \in Int /\ v[x] \in Int
                     /\ D * plan[x] <= 2 * v[x] + d
                     /\ 2 * v[x] <= D * plan[x] + d
    <3>1. ASSUME NEW x \in C
          PROVE  /\ plan[x] \in Int /\ v[x] \in Int
                 /\ D * plan[x] <= 2 * v[x] + d
                 /\ 2 * v[x] <= D * plan[x] + d
      <4>1. PICK i \in Nat, j \in Nat : i = plan[x] /\ j = v[x]
        BY <1>7, <1>9
      <4>2. d * (2 * i) <= 2 * j + d /\ 2 * j + d < d * (2 * i + 2)
        BY <1>9, <4>1
      <4>3. d * (2 * i) = D * i /\ d * (2 * i + 2) = D * i + 2 * d
        BY <2>1
      <4>4. D * i \in Int
        OBVIOUS
      <4> QED
        BY <4>1, <4>2, <4>3, <4>4
    <3> QED
      BY <3>1
  <2>3. D * total <= 2 * V + d * n
    <3>1. 2 \in Int /\ d \in Int
      OBVIOUS
    <3>2. D * SumFunctionOnSet(plan, C) <= 2 * SumFunctionOnSet(v, C) + d * Cardinality(C)
      BY <1>13, <2>2, <3>1, SumMonotone
    <3> QED
      BY <1>1, <1>15, <3>2
  <2>4. 2 * V <= D * total + d * n
    <3>1. 2 \in Int /\ d \in Int
      OBVIOUS
    <3>2. 2 * SumFunctionOnSet(v, C) <= D * SumFunctionOnSet(plan, C) + d * Cardinality(C)
      BY <1>13, <2>2, <3>1, SumMonotone
    <3> QED
      BY <1>1, <1>15, <3>2
  <2> PICK t \in Int : t = total
    BY <1>14
  <2>5. /\ D * t = d * (2 * t)
        /\ 2 * (d * b) + d * n = d * (2 * b + n)
        /\ d * (2 * t) + d * n = d * (2 * t + n)
        /\ 2 * (d * b) = d * (2 * b)
    BY <2>1
  <2>6. d * (2 * t) <= d * (2 * b + n) /\ d * (2 * b) <= d * (2 * t + n)
    BY <1>16, <2>3, <2>4, <2>5
  <2>7. 2 * t <= 2 * b + n /\ 2 * b <= 2 * t + n
    <3>1. 2 * t \in Int /\ 2 * b + n \in Int /\ 2 * b \in Int /\ 2 * t + n \in Int
      OBVIOUS
    <3> QED
      BY <2>6, <3>1, Cancel
  <2> QED
    BY <1>3, <2>7
<1>18. plan \in [C -> 0..Budget]
  BY <1>8, <1>10
<1>19. DOMAIN Fitness(C) = C /\ \A a \in C : Fitness(C)[a] = agent[a].fit
  BY DEF Fitness
<1>20. \A a \in C : 2 * Budget * MinShare <= 100 * (2 * plan[a] + 1)
  BY <1>11
<1>21. \A a, c \in C : agent[a].fit > agent[c].fit => plan[a] >= plan[c]
  BY <1>12
<1> HIDE DEF sh
<1> QED
  BY <1>1, <1>17, <1>18, <1>19, <1>20, <1>21 DEF Fair, plan

(* So the plan of a pass is fair to those it chose. *)
LEMMA PlanIsFair ==
    ASSUME AgentsTyped, Chosen # {}, ~NoRoom(Cardinality(Chosen))
    PROVE  Fair(Allocation(Chosen), [a \in Chosen |-> agent[a].fit])
<1>1. Chosen \in SUBSET Agents
  BY DEF Chosen, Qualifying, Top, Alive
<1> QED
  BY <1>1, AloneIsFair, SharesAreFair DEF Fitness

-----------------------------------------------------------------------------
(* The capital, on top of Inv: rows are typed, the plan of a pass is fair, and *)
(* those promoted have what it gives them, but for the cent left alone.        *)

CapRow == [status : Statuses, alloc : 0..Max({Budget, ManualCapital}),
           pnl : Int, failing : BOOLEAN, tagged : BOOLEAN]

CapsTyped == cap \in [Capsules -> CapRow]

Near(n, k) == n <= k + 1 /\ k <= n + 1

\* Of an unfinished pass, those done; of a complete one, all.
PlanKept ==
    pass.pc = "promote" =>
        /\ Fair(pass.plan, chosen)
        /\ pass.clean => \A a \in DOMAIN chosen \ pass.todo : Near(cap[a].alloc, pass.plan[a])

FundsKept ==
    settled /\ DOMAIN chosen # {} =>
        \E plan : Fair(plan, chosen) /\ \A a \in DOMAIN chosen : Near(cap[a].alloc, plan[a])

FundInv ==
    /\ AgentsTyped /\ CapsTyped
    /\ chosen = [a \in DOMAIN chosen |-> chosen[a]]
    /\ PlanKept
    /\ FundsKept

(* The bound on capital allows for what a plan gives and for manual capsules. *)
LEMMA CapitalBound ==
    /\ Budget \in Nat /\ ManualCapital \in Nat
    /\ Budget \in 0..Max({Budget, ManualCapital})
    /\ ManualCapital \in 0..Max({Budget, ManualCapital})
    /\ 0..Budget \subseteq 0..Max({Budget, ManualCapital})
<1>1. Budget \in Nat /\ ManualCapital \in Nat
  BY PromotionAssumption DEF PromotionAssumption
<1> DEFINE T == {Budget, ManualCapital}
<1>2. \E x \in T : \A y \in T : x >= y
  BY <1>1
<1>3. Max(T) \in T /\ \A y \in T : Max(T) >= y
  BY <1>2 DEF Max
<1> QED
  BY <1>1, <1>3

(* Changing the status of a row leaves a row and its capital. *)
LEMMA StatusRow ==
    ASSUME NEW r \in CapRow, NEW s \in Statuses
    PROVE  [r EXCEPT !.status = s] \in CapRow /\ [r EXCEPT !.status = s].alloc = r.alloc
<1> DEFINE K == 0..Max({Budget, ManualCapital})
<1> HIDE DEF K
<1> QED
  BY DEF CapRow, K

(* Capital within bounds leaves a row. *)
LEMMA FundedRow ==
    ASSUME NEW r \in CapRow, NEW n \in 0..Max({Budget, ManualCapital})
    PROVE  LET x == [r EXCEPT !.status = "live", !.alloc = n]
           IN  x \in CapRow /\ x.alloc = n /\ r.alloc \in Nat
<1> DEFINE K == 0..Max({Budget, ManualCapital})
<1>1. K \subseteq Nat /\ n \in K
  OBVIOUS
<1> HIDE DEF K
<1>2. "live" \in Statuses
  BY DEF Statuses
<1> QED
  BY <1>1, <1>2 DEF CapRow, K

(* There is no capital in no capsule. *)
LEMMA NoCapsuleTyped == NoCapsule \in CapRow
<1>1. 0 \in Int /\ "none" \in Statuses
  BY DEF Statuses
<1>2. 0 \in 0..Max({Budget, ManualCapital})
  BY CapitalBound
<1> QED
  BY <1>1, <1>2 DEF NoCapsule, CapRow

(* Pausing capsules moves no capital. *)
LEMMA PauseTyped ==
    ASSUME CapsTyped, NEW C, cap' = Pause(C)
    PROVE  CapsTyped' /\ \A c \in Capsules : cap'[c].alloc = cap[c].alloc
<1>1. cap' = [c \in Capsules |->
                IF c \in C THEN [cap[c] EXCEPT !.status = "paused"] ELSE cap[c]]
  BY DEF Pause
<1>2. ASSUME NEW c \in Capsules
      PROVE  cap'[c] \in CapRow /\ cap'[c].alloc = cap[c].alloc
  <2>1. cap[c] \in CapRow /\ "paused" \in Statuses
    BY DEF CapsTyped, Statuses
  <2> QED
    BY <1>1, <2>1, StatusRow
<1> QED
  BY <1>1, <1>2 DEF CapsTyped

(* A promoted capsule has what the plan gives, within a cent. *)
LEMMA PromotedTyped ==
    ASSUME NEW r \in CapRow, NEW n \in 0..Budget
    PROVE  Promoted(r, n) \in CapRow /\ Near(Promoted(r, n).alloc, n)
<1>1. n \in 0..Max({Budget, ManualCapital}) /\ n \in Nat
  BY CapitalBound
<1>2. ASSUME NEW x \in CapRow
      PROVE  [x EXCEPT !.status = "live", !.alloc = n] \in CapRow
             /\ [x EXCEPT !.status = "live", !.alloc = n].alloc = n
  BY <1>1, FundedRow
<1>3. \/ Promoted(r, n) = [NoCapsule EXCEPT !.status = "live", !.alloc = n]
      \/ Promoted(r, n) = [r EXCEPT !.status = "live", !.alloc = n]
      \/ Promoted(r, n) = r /\ ~(r.alloc > n + 1 \/ n > r.alloc + 1)
  BY DEF Promoted
<1>4. r.alloc \in Nat
  BY <1>1, FundedRow
<1>5. PICK q : q = Promoted(r, n)
  OBVIOUS
<1> DEFINE funded(x) == [x EXCEPT !.status = "live", !.alloc = n]
<1>6. ASSUME NEW x \in CapRow, q = funded(x)
      PROVE  q \in CapRow /\ Near(q.alloc, n)
  <2>1. q \in CapRow /\ q.alloc = n
    BY <1>2, <1>6
  <2> HIDE DEF funded
  <2> QED
    BY <1>1, <2>1 DEF Near
<1>7. q = funded(NoCapsule) \/ q = funded(r) \/ (q = r /\ Near(r.alloc, n))
  <2>1. ~(r.alloc > n + 1 \/ n > r.alloc + 1) => Near(r.alloc, n)
    BY <1>1, <1>4 DEF Near
  <2> QED
    BY <1>3, <1>5, <2>1
<1> HIDE DEF funded
<1>9. q \in CapRow /\ Near(q.alloc, n)
  <2>1. CASE q = funded(NoCapsule)
    BY <1>6, <2>1, NoCapsuleTyped
  <2>2. CASE q = funded(r)
    BY <1>6, <2>2
  <2> QED
    BY <1>7, <2>1, <2>2
<1> QED
  BY <1>5, <1>9, Zenon

(* A step that touches neither a pass nor capital. *)
LEMMA SameFunds ==
    ASSUME FundInv, AgentsTyped', CapsTyped', DOMAIN chosen \subseteq Agents,
           \A a \in Agents : cap'[a].alloc = cap[a].alloc, UNCHANGED <<pass, settled, chosen>>
    PROVE  FundInv'
<1>1. PlanKept'
  <2>1. PlanKept /\ pass' = pass /\ chosen' = chosen
    BY DEF FundInv
  <2> QED
    BY <2>1 DEF PlanKept
<1>2. FundsKept'
  <2>1. FundsKept /\ settled' = settled /\ chosen' = chosen
    BY DEF FundInv
  <2> QED
    BY <2>1 DEF FundsKept
<1> QED
  BY <1>1, <1>2 DEF FundInv

(* A step after which nothing is claimed of a plan. *)
LEMMA NoFunds ==
    ASSUME FundInv, AgentsTyped', CapsTyped', settled' = FALSE, pass'.pc # "promote",
           chosen' \in {chosen, <<>>}
    PROVE  FundInv'
<1>1. chosen' = [a \in DOMAIN chosen' |-> chosen'[a]]
  <2>1. <<>> = [a \in DOMAIN <<>> |-> <<>>[a]]
    OBVIOUS
  <2> QED
    BY <2>1 DEF FundInv
<1> QED
  BY <1>1 DEF FundInv, PlanKept, FundsKept

(* A pass begins, is guarded, vetoed or killed: no plan is made or carried out. *)
LEMMA NoPlanFunds ==
    ASSUME Inv, FundInv, SealBegin \/ ForceBegin \/ Breaker \/ Clusters \/ Blocked \/ Crash
    PROVE  FundInv'
<1>1. settled' = FALSE /\ pass'.pc # "promote" /\ chosen' \in {chosen, <<>>}
  BY DEF SealBegin, ForceBegin, Breaker, Clusters, Blocked, Crash, Inv, IdlePass
<1>2. AgentsTyped'
  <2>1. AgentsTyped
    BY DEF FundInv
  <2>2. CASE SealBegin
    <3>1. PICK R \in SUBSET Alive :
             agent' = [a \in Agents |-> IF a \in R THEN Retired ELSE agent[a]]
      BY <2>2 DEF SealBegin
    <3>2. Min(Fits) \in Fits
      <4>1. /\ IsFiniteSet(Fits) /\ Fits # {} /\ \A x \in Fits : x \in Int
        BY PromotionAssumption DEF PromotionAssumption
      <4> QED
        BY <4>1, MinOfFinite
    <3>3. Retired \in [level : Levels, fit : Fits]
      BY <3>2 DEF Retired, Levels
    <3> QED
      BY <2>1, <3>1, <3>3 DEF AgentsTyped
  <2>3. CASE ~SealBegin
    <3>1. agent' = agent
      BY <2>3 DEF ForceBegin, Breaker, Clusters, Blocked, Crash
    <3> QED
      BY <2>1, <3>1 DEF AgentsTyped
  <2> QED
    BY <2>2, <2>3
<1>3. CapsTyped'
  <2>1. CapsTyped
    BY DEF FundInv
  <2>2. cap' = cap \/ \E C : cap' = Pause(C)
    BY DEF SealBegin, ForceBegin, Breaker, Clusters, Blocked, Crash
  <2>3. CASE cap' = cap
    BY <2>1, <2>3 DEF CapsTyped
  <2> QED
    BY <2>1, <2>2, <2>3, PauseTyped
<1> QED
  BY <1>1, <1>2, <1>3, NoFunds

(* The choice makes a fair plan, and has carried out nothing of it. *)
LEMMA SelectFunds == ASSUME Inv, FundInv, Select PROVE FundInv'
<1>1. AgentsTyped /\ CapsTyped /\ settled = FALSE /\ agent' = agent
  BY DEF FundInv, Inv, Select
<1>2. AgentsTyped'
  BY <1>1 DEF AgentsTyped
<1>3. CASE NoRoom(Cardinality(Chosen))
  <2>1. pass' = IdlePass /\ UNCHANGED <<cap, settled, chosen>>
    BY <1>3 DEF Select
  <2>2. CapsTyped' /\ settled' = FALSE /\ pass'.pc # "promote"
    BY <1>1, <2>1 DEF CapsTyped, IdlePass
  <2> QED
    BY <1>2, <2>1, <2>2, NoFunds
<1>4. CASE ~NoRoom(Cardinality(Chosen))
  <2>1. /\ chosen' = [a \in Chosen |-> agent[a].fit]
        /\ cap' = Pause(Fallen)
        /\ pass' = IF Chosen = {} THEN IdlePass
                   ELSE [pc |-> "promote", todo |-> Chosen,
                         plan |-> Allocation(Chosen), clean |-> TRUE]
        /\ settled' = (Chosen = {})
    BY <1>4 DEF Select
  <2>2. CapsTyped'
    BY <1>1, <2>1, PauseTyped
  <2>3. DOMAIN chosen' = Chosen /\ chosen' = [a \in DOMAIN chosen' |-> chosen'[a]]
    BY <2>1
  <2>4. CASE Chosen = {}
    BY <1>2, <2>1, <2>2, <2>3, <2>4 DEF FundInv, PlanKept, FundsKept, IdlePass
  <2>5. CASE Chosen # {}
    <3>1. Fair(Allocation(Chosen), chosen')
      BY <1>1, <1>4, <2>1, <2>5, PlanIsFair
    <3>2. pass'.plan = Allocation(Chosen) /\ pass'.todo = Chosen /\ ~settled'
      BY <2>1, <2>5
    <3>3. PlanKept'
      BY <2>3, <3>1, <3>2 DEF PlanKept
    <3> QED
      BY <1>2, <2>2, <2>3, <3>2, <3>3 DEF FundInv, FundsKept
  <2> QED
    BY <2>4, <2>5
<1> QED
  BY <1>3, <1>4

(* One promotion gives what the plan says; the last completes the pass. *)
LEMMA PromoteFunds == ASSUME Inv, FundInv, Promote PROVE FundInv'
<1>1. PICK a \in pass.todo :
          /\ cap' = [cap EXCEPT ![a] = Promoted(@, pass.plan[a])]
          /\ IF pass.todo = {a}
             THEN /\ pass' = IdlePass /\ settled' = pass.clean
                  /\ chosen' = IF pass.clean THEN chosen ELSE <<>>
             ELSE pass' = [pass EXCEPT !.todo = @ \ {a}] /\ UNCHANGED <<settled, chosen>>
  BY PromoteStep
<1>2. /\ pass.pc = "promote" /\ settled = FALSE /\ DOMAIN chosen \subseteq Agents
      /\ pass.todo \subseteq DOMAIN chosen /\ pass.clean \in BOOLEAN
      /\ {"pc", "todo", "plan", "clean"} \subseteq DOMAIN pass
  BY DEF Promote, Inv, HalfDone, PassShaped, IdlePass
<1>3. AgentsTyped' /\ CapsTyped
  BY DEF FundInv, Promote, AgentsTyped
<1>4. /\ Fair(pass.plan, chosen)
      /\ pass.clean => \A b \in DOMAIN chosen \ pass.todo : Near(cap[b].alloc, pass.plan[b])
  BY <1>2 DEF FundInv, PlanKept
<1>5. a \in Capsules /\ cap[a] \in CapRow /\ pass.plan[a] \in 0..Budget
  <2>1. a \in Agents /\ a \in DOMAIN chosen
    BY <1>2
  <2>2. pass.plan \in [DOMAIN chosen -> 0..Budget]
    BY <1>4 DEF Fair
  <2> QED
    BY <1>3, <2>1, <2>2 DEF Capsules, CapsTyped
<1>6. PICK r \in CapRow : r = Promoted(cap[a], pass.plan[a]) /\ Near(r.alloc, pass.plan[a])
  BY <1>5, PromotedTyped
<1>7. cap' = [cap EXCEPT ![a] = r]
  BY <1>1, <1>6
<1>8. CapsTyped' /\ cap'[a] = r /\ \A c \in Capsules \ {a} : cap'[c] = cap[c]
  BY <1>3, <1>5, <1>7 DEF CapsTyped
<1>9. pass.clean => \A b \in DOMAIN chosen \ (pass.todo \ {a}) : Near(cap'[b].alloc, pass.plan[b])
  BY <1>2, <1>4, <1>6, <1>8 DEF Capsules
<1>10. chosen = [b \in DOMAIN chosen |-> chosen[b]]
  BY DEF FundInv
<1>11. CASE pass.todo = {a} /\ ~pass.clean
  <2>1. pass'.pc # "promote" /\ settled' = FALSE /\ chosen' = <<>>
    BY <1>1, <1>2, <1>11 DEF IdlePass
  <2> QED
    BY <1>3, <1>8, <2>1, NoFunds
<1>12. CASE pass.todo = {a} /\ pass.clean
  <2>1. pass'.pc # "promote" /\ chosen' = chosen
    BY <1>1, <1>12 DEF IdlePass
  <2>2. \A b \in DOMAIN chosen : Near(cap'[b].alloc, pass.plan[b])
    BY <1>9, <1>12
  <2> PICK plan : plan = pass.plan
    OBVIOUS
  <2>3. Fair(plan, chosen') /\ \A b \in DOMAIN chosen' : Near(cap'[b].alloc, plan[b])
    BY <1>4, <2>1, <2>2
  <2>4. FundsKept' /\ PlanKept'
    BY <2>1, <2>3 DEF FundsKept, PlanKept
  <2> QED
    BY <1>3, <1>8, <1>10, <2>1, <2>4 DEF FundInv
<1>13. CASE pass.todo # {a}
  <2>1. pass' = [pass EXCEPT !.todo = @ \ {a}] /\ UNCHANGED <<settled, chosen>>
    BY <1>1, <1>13
  <2>2. /\ pass'.pc = pass.pc /\ pass'.todo = pass.todo \ {a}
        /\ pass'.clean = pass.clean /\ pass'.plan = pass.plan
    BY <1>2, <2>1
  <2>3. PlanKept' /\ FundsKept'
    BY <1>2, <1>4, <1>9, <2>1, <2>2 DEF PlanKept, FundsKept
  <2> QED
    BY <1>3, <1>8, <1>10, <2>1, <2>3 DEF FundInv
<1> QED
  BY <1>11, <1>12, <1>13

(* What happens outside moves no capital, but for the operator's hand. *)
LEMMA OutsideFunds ==
    ASSUME Inv, FundInv, Perform \/ Trade \/ TagProfiles
    PROVE  FundInv'
<1>1. UNCHANGED <<pass, settled, chosen>> /\ AgentsTyped /\ CapsTyped /\ DOMAIN chosen \subseteq Agents
  BY DEF Perform, Trade, TagProfiles, FundInv, Inv
<1>2. AgentsTyped'
  <2>1. CASE Perform
    <3>1. PICK a \in Agents, l \in Levels, f \in Fits :
             agent' = [agent EXCEPT ![a] = [level |-> l, fit |-> f]]
      BY <2>1 DEF Perform, Alive
    <3>2. [level |-> l, fit |-> f] \in [level : Levels, fit : Fits]
      OBVIOUS
    <3> QED
      BY <1>1, <3>1, <3>2 DEF AgentsTyped
  <2>2. CASE Trade \/ TagProfiles
    BY <1>1, <2>2 DEF Trade, TagProfiles, AgentsTyped
  <2> QED
    BY <2>1, <2>2
<1>3. CapsTyped' /\ \A c \in Capsules : cap'[c].alloc = cap[c].alloc
  <2>1. CASE Perform
    BY <1>1, <2>1 DEF Perform, CapsTyped
  <2> DEFINE K == 0..Max({Budget, ManualCapital})
  <2>2. CASE Trade
    <3>6. \A c \in Capsules : PnlsOf[c] \subseteq Int
      BY PromotionAssumption DEF PromotionAssumption, Capsules
    <3>1. PICK c \in Capsules, b \in BOOLEAN, p \in Int :
              cap' = [cap EXCEPT ![c].pnl = p, ![c].failing = b]
      BY <2>2, <3>6 DEF Trade
    <3>2. PICK o \in CapRow : o = cap[c]
      BY <1>1 DEF CapsTyped
    <3>3. PICK r : r = [o EXCEPT !.pnl = p, !.failing = b]
      OBVIOUS
    <3>4. r \in CapRow /\ r.alloc = o.alloc
      <4> HIDE DEF K
      <4> QED
        BY <3>3 DEF CapRow, K
    <3>5. cap' = [cap EXCEPT ![c] = r]
      BY <1>1, <3>1, <3>2, <3>3 DEF CapsTyped
    <3> QED
      BY <1>1, <3>2, <3>4, <3>5 DEF CapsTyped
  <2>3. CASE TagProfiles
    <3>1. cap' = [c \in Capsules |-> [cap[c] EXCEPT !.tagged = @ \/ Active(c)]]
      BY <2>3 DEF TagProfiles
    <3>2. ASSUME NEW c \in Capsules
          PROVE  cap'[c] \in CapRow /\ cap'[c].alloc = cap[c].alloc
      <4>1. PICK o \in CapRow : o = cap[c]
        BY <1>1 DEF CapsTyped
      <4>2. PICK t \in BOOLEAN : t = (o.tagged \/ Active(c))
        OBVIOUS
      <4>3. cap'[c] = [o EXCEPT !.tagged = t]
        BY <3>1, <4>1, <4>2
      <4> HIDE DEF K
      <4> QED
        BY <4>1, <4>3 DEF CapRow, K
    <3> QED
      BY <3>1, <3>2 DEF CapsTyped
  <2> QED
    BY <2>1, <2>2, <2>3
<1> QED
  BY <1>1, <1>2, <1>3, SameFunds DEF Capsules

(* The operator's hand on an agent's capsule ends what was claimed. *)
LEMMA OperatorFunds == ASSUME Inv, FundInv, Operator PROVE FundInv'
<1>1. PICK c \in Capsules, s \in Statuses :
          /\ cap' = [cap EXCEPT ![c] =
                IF s = "none" THEN NoCapsule ELSE [@ EXCEPT !.status = s]]
          /\ settled' = (settled /\ c \in Manual)
          /\ chosen' = IF settled /\ c \in Agents THEN <<>> ELSE chosen
          /\ pass' = IF pass.pc = "promote" /\ c \in Agents
                     THEN [pass EXCEPT !.clean = FALSE] ELSE pass
  BY DEF Operator
<1>2. AgentsTyped' /\ CapsTyped /\ settled \in BOOLEAN /\ DOMAIN chosen \subseteq Agents
  BY DEF FundInv, Inv, Operator, AgentsTyped
<1>3. PICK r \in CapRow : cap' = [cap EXCEPT ![c] = r]
  <2>1. cap[c] \in CapRow
    BY <1>2 DEF CapsTyped
  <2> QED
    BY <1>1, <2>1, NoCapsuleTyped, StatusRow
<1>4. CapsTyped' /\ \A d \in Capsules \ {c} : cap'[d] = cap[d]
  BY <1>2, <1>3 DEF CapsTyped
<1>5. CASE c \in Manual
  <2>1. c \notin Agents
    BY <1>5, PromotionAssumption DEF PromotionAssumption
  <2>2. UNCHANGED <<pass, settled, chosen>>
    BY <1>1, <1>2, <1>5, <2>1
  <2>3. \A a \in Agents : cap'[a].alloc = cap[a].alloc
    BY <1>4, <2>1 DEF Capsules
  <2> QED
    BY <1>2, <1>4, <2>2, <2>3, SameFunds
<1>6. CASE c \in Agents
  <2>1. settled' = FALSE /\ chosen' \in {chosen, <<>>}
    BY <1>1, <1>6, PromotionAssumption DEF PromotionAssumption
  <2>2. CASE pass.pc # "promote"
    <3>1. pass'.pc # "promote"
      BY <1>1, <2>2
    <3> QED
      BY <1>2, <1>4, <2>1, <3>1, NoFunds
  <2>3. CASE pass.pc = "promote"
    <3>1. {"pc", "todo", "plan", "clean"} \subseteq DOMAIN pass /\ settled = FALSE
      BY <2>3 DEF Inv, PassShaped, IdlePass
    <3>2. pass' = [pass EXCEPT !.clean = FALSE] /\ chosen' = chosen
      BY <1>1, <1>6, <2>3, <3>1
    <3>3. pass'.clean = FALSE /\ pass'.plan = pass.plan
      BY <3>1, <3>2
    <3>4. Fair(pass.plan, chosen) /\ chosen = [b \in DOMAIN chosen |-> chosen[b]]
      BY <2>3 DEF FundInv, PlanKept
    <3>5. PlanKept' /\ FundsKept'
      BY <2>1, <3>2, <3>3, <3>4 DEF PlanKept, FundsKept
    <3> QED
      BY <1>2, <1>4, <3>2, <3>4, <3>5 DEF FundInv
  <2> QED
    BY <2>2, <2>3
<1> QED
  BY <1>5, <1>6 DEF Capsules

(* At the beginning nothing is claimed. *)
LEMMA BeginningFunds == Init => FundInv
<1> SUFFICES ASSUME Init PROVE FundInv
  OBVIOUS
<1>1. AgentsTyped
  <2>1. "proven" \in Levels
    BY DEF Levels
  <2> QED
    BY <2>1 DEF Init, AgentsTyped
<1>2. CapsTyped
  <2>1. PICK pnl :
          /\ \A m \in Manual : pnl[m] \in PnlsOf[m]
          /\ cap = [c \in Capsules |->
                      IF c \in Manual
                      THEN [NoCapsule EXCEPT !.status = "live", !.alloc = ManualCapital,
                                             !.pnl = pnl[c], !.tagged = TRUE]
                      ELSE NoCapsule]
    BY DEF Init
  <2> DEFINE K == 0..Max({Budget, ManualCapital})
  <2>2. 0 \in K /\ ManualCapital \in K /\ {"live", "none"} \subseteq Statuses
    BY CapitalBound, PromotionAssumption DEF PromotionAssumption, Statuses
  <2> HIDE DEF K
  <2>3. ASSUME NEW l \in Int
        PROVE  [NoCapsule EXCEPT !.status = "live", !.alloc = ManualCapital,
                                 !.pnl = l, !.tagged = TRUE] \in CapRow
    BY <2>2 DEF NoCapsule, CapRow, K
  <2>4. \A m \in Manual : pnl[m] \in Int
    BY <2>1, PromotionAssumption DEF PromotionAssumption
  <2> QED
    BY <2>1, <2>3, <2>4, NoCapsuleTyped DEF CapsTyped
<1>3. chosen = [a \in DOMAIN chosen |-> chosen[a]] /\ settled = FALSE /\ pass.pc = "idle"
  <2>1. <<>> = [a \in DOMAIN <<>> |-> <<>>[a]]
    OBVIOUS
  <2> QED
    BY <2>1 DEF Init, IdlePass
<1> QED
  BY <1>1, <1>2, <1>3 DEF FundInv, PlanKept, FundsKept

(* Every step keeps the capital in order. *)
LEMMA StepFunds == Inv /\ FundInv /\ [Next]_vars => FundInv'
<1>1. ASSUME Inv, FundInv, UNCHANGED vars PROVE FundInv'
  BY <1>1, SameFunds DEF vars, FundInv, AgentsTyped, CapsTyped, Inv
<1>2. ASSUME Inv, FundInv, Next PROVE FundInv'
  BY <1>2, NoPlanFunds, SelectFunds, PromoteFunds, OutsideFunds, OperatorFunds
     DEF Next, Advance
<1> QED
  BY <1>1, <1>2

(* The invariant of the capital, whatever is vetoed, killed or done by hand. *)
THEOREM Funded == Spec => [](Inv /\ FundInv)
BY Beginning, BeginningFunds, Step, StepFunds, PTL DEF Spec

(* Rows are rows: what a plan gives is between nothing and the budget. *)
THEOREM TypeCorrect == Spec => []TypeOK
<1>1. Inv /\ FundInv => TypeOK
  <2> SUFFICES ASSUME Inv, FundInv PROVE TypeOK
    OBVIOUS
  <2>1. agent \in [Agents -> [level : Levels, fit : Fits]]
    BY DEF FundInv, AgentsTyped
  <2>2. cap \in [Capsules -> [status : Statuses, alloc : 0..Max({Budget, ManualCapital}),
                             pnl : Int, failing : BOOLEAN, tagged : BOOLEAN]]
    BY DEF FundInv, CapsTyped, CapRow
  <2>3. pass.pc \in {"idle", "breaker", "clusters", "select", "promote"}
    BY DEF Inv, PassShaped, IdlePass
  <2>4. pass.pc = "promote" => /\ pass.todo \subseteq DOMAIN pass.plan
                              /\ DOMAIN pass.plan = DOMAIN chosen
    BY DEF Inv, HalfDone, FundInv, PlanKept, Fair
  <2> QED
    BY <2>1, <2>2, <2>3, <2>4 DEF Inv, TypeOK
<1> QED
  BY <1>1, Funded, PTL

(* The floor, and capital in the order of fitness. *)
THEOREM FitnessDecides == Spec => []CapitalFollowsFitness
<1>1. Inv /\ FundInv => CapitalFollowsFitness
  <2> SUFFICES ASSUME Inv, FundInv, settled, NEW a \in DOMAIN chosen, NEW b \in DOMAIN chosen
               PROVE  /\ 100 * (cap[a].alloc + 2) >= Budget * MinShare
                      /\ chosen[a] > chosen[b] => cap[a].alloc + 2 >= cap[b].alloc
    BY DEF CapitalFollowsFitness
  <2>1. PICK plan : Fair(plan, chosen) /\ \A c \in DOMAIN chosen : Near(cap[c].alloc, plan[c])
    BY DEF FundInv, FundsKept
  <2>2. ASSUME NEW c \in DOMAIN chosen
        PROVE  cap[c].alloc \in Nat /\ plan[c] \in Nat /\ Near(cap[c].alloc, plan[c])
    <3>1. cap[c] \in CapRow
      BY DEF FundInv, CapsTyped, Inv, Capsules
    <3>2. plan[c] \in 0..Budget
      BY <2>1 DEF Fair
    <3>3. cap[c].alloc \in 0..Max({Budget, ManualCapital})
      BY <3>1 DEF CapRow
    <3> QED
      BY <2>1, <3>2, <3>3
  <2>3. PICK p \in Nat, q \in Nat, x \in Nat, y \in Nat :
           p = plan[a] /\ q = plan[b] /\ x = cap[a].alloc /\ y = cap[b].alloc
    BY <2>2
  <2>4. p <= x + 1 /\ y <= q + 1
    BY <2>2, <2>3 DEF Near
  <2>5. chosen[a] > chosen[b] => p >= q
    BY <2>1, <2>3 DEF Fair
  <2>6. PICK w \in Nat : w = Budget * MinShare
    BY PromotionAssumption DEF PromotionAssumption
  <2>7. 2 * w <= 100 * (2 * p + 1)
    <3>1. 2 * Budget * MinShare <= 100 * (2 * p + 1)
      BY <2>1, <2>3 DEF Fair
    <3>2. Budget \in Nat /\ MinShare \in Nat
      BY PromotionAssumption DEF PromotionAssumption
    <3>3. 2 * Budget * MinShare = 2 * (Budget * MinShare)
      BY <3>2
    <3> QED
      BY <2>6, <3>1, <3>3
  <2> QED
    BY <2>3, <2>4, <2>5, <2>6, <2>7
<1> QED
  BY <1>1, Funded, PTL

(* The capital of those at work adds up to the budget. *)
THEOREM BudgetIsSpent == Spec => []CapitalAddsUp
<1>1. Inv /\ FundInv => CapitalAddsUp
  <2> SUFFICES ASSUME Inv, FundInv, settled, chosen # <<>>
               PROVE  LET n == Cardinality(DOMAIN chosen)
                          total == CapitalOf(DOMAIN chosen)
                      IN 2 * (total - Budget) <= 3 * n /\ 2 * (Budget - total) <= 3 * n
    BY DEF CapitalAddsUp
  <2> DEFINE C == DOMAIN chosen
             alloc == [c \in Capsules |-> cap[c].alloc]
  <2>1. C # {}
    <3>1. chosen = [a \in C |-> chosen[a]]
      BY DEF FundInv
    <3>2. ASSUME C = {}
          PROVE  chosen = <<>>
      <4>1. [a \in {} |-> chosen[a]] = <<>>
        OBVIOUS
      <4> QED
        BY <3>1, <3>2, <4>1
    <3> QED
      BY <3>2
  <2>2. PICK plan : Fair(plan, chosen) /\ \A c \in C : Near(cap[c].alloc, plan[c])
    BY <2>1 DEF FundInv, FundsKept
  <2>3. C \subseteq Agents /\ IsFiniteSet(C)
    <3>1. C \subseteq Agents
      BY DEF Inv
    <3> QED
      BY <3>1, FS_Subset, PromotionAssumption DEF PromotionAssumption
  <2>4. \A c \in C : /\ alloc[c] \in Int /\ plan[c] \in Int
                     /\ 1 * alloc[c] <= 1 * plan[c] + 1
                     /\ 1 * plan[c] <= 1 * alloc[c] + 1
    <3>1. ASSUME NEW c \in C
          PROVE  /\ alloc[c] \in Int /\ plan[c] \in Int
                 /\ 1 * alloc[c] <= 1 * plan[c] + 1
                 /\ 1 * plan[c] <= 1 * alloc[c] + 1
      <4>1. cap[c] \in CapRow /\ alloc[c] = cap[c].alloc
        BY <2>3 DEF FundInv, CapsTyped, Capsules
      <4>2. plan[c] \in 0..Budget
        BY <2>2 DEF Fair
      <4>3. cap[c].alloc \in 0..Max({Budget, ManualCapital})
        BY <4>1 DEF CapRow
      <4>4. PICK x \in Int, p \in Int : x = alloc[c] /\ p = plan[c]
        BY <4>1, <4>2, <4>3
      <4>5. x <= p + 1 /\ p <= x + 1
        BY <2>2, <4>1, <4>4 DEF Near
      <4> QED
        BY <4>4, <4>5
    <3> QED
      BY <3>1
  <2> HIDE DEF alloc, C
  <2>5. PICK n \in Nat, t \in Int, u \in Int :
           n = Cardinality(C) /\ t = SumFunctionOnSet(alloc, C) /\ u = SumFunctionOnSet(plan, C)
    <3>1. C \in SUBSET C /\ (\A c \in C : alloc[c] \in Int) /\ \A c \in C : plan[c] \in Int
      BY <2>4
    <3>2. SumFunctionOnSet(alloc, C) \in Int
      BY <2>3, <3>1, SumSplit
    <3>3. SumFunctionOnSet(plan, C) \in Int
      BY <2>3, <3>1, SumSplit
    <3> QED
      BY <2>3, <3>2, <3>3, FS_CardinalityType
  <2>6. 1 * t <= 1 * u + 1 * n
    <3>1. 1 \in Int
      OBVIOUS
    <3>2. 1 * SumFunctionOnSet(alloc, C) <= 1 * SumFunctionOnSet(plan, C) + 1 * Cardinality(C)
      BY <2>3, <2>4, <3>1, SumMonotone
    <3> QED
      BY <2>5, <3>2
  <2>7. 1 * u <= 1 * t + 1 * n
    <3>1. 1 \in Int
      OBVIOUS
    <3>2. 1 * SumFunctionOnSet(plan, C) <= 1 * SumFunctionOnSet(alloc, C) + 1 * Cardinality(C)
      BY <2>3, <2>4, <3>1, SumMonotone
    <3> QED
      BY <2>5, <3>2
  <2>8. PICK b \in Nat : b = Budget
    BY PromotionAssumption DEF PromotionAssumption
  <2>9. 2 * (u - b) <= n /\ 2 * (b - u) <= n
    BY <2>2, <2>5, <2>8 DEF Fair, C
  <2>10. 2 * (t - b) <= 3 * n /\ 2 * (b - t) <= 3 * n
    BY <2>6, <2>7, <2>9
  <2>11. CapitalOf(C) = t
    BY <2>5 DEF CapitalOf, alloc
  <2> QED
    BY <2>5, <2>8, <2>10, <2>11 DEF C
<1> QED
  BY <1>1, Funded, PTL

-----------------------------------------------------------------------------
(* The cluster switches. *)

\* Profits among some capsules.
Profits(C) == PnlOf({c \in C : cap[c].pnl > 0})

(* What a cluster loses is at most what those left of it lose, net of the profits *)
(* of the others.                                                                 *)
LEMMA NetOfProfits ==
    ASSUME CapsTyped, NEW B \in SUBSET Capsules, NEW L
    PROVE  /\ PnlOf(B) \in Int /\ PnlOf(B \cap L) \in Int /\ Profits(B \ L) \in Int
           /\ PnlOf(B) <= PnlOf(B \cap L) + Profits(B \ L)
<1> DEFINE pnl == [c \in Capsules |-> cap[c].pnl]
           P == {x \in B \ L : pnl[x] > 0}
<1>1. IsFiniteSet(B)
  BY FS_Subset, PromotionAssumption DEF PromotionAssumption, Capsules
<1>2. \A c \in B : pnl[c] \in Int
  BY DEF CapsTyped, CapRow
<1>3. P = {c \in B \ L : cap[c].pnl > 0}
  OBVIOUS
<1> HIDE DEF pnl
<1>5. SumFunctionOnSet(pnl, B) <= SumFunctionOnSet(pnl, B \cap L) + SumFunctionOnSet(pnl, P)
  BY <1>1, <1>2, SumWithoutLosses
<1> HIDE DEF P
<1>4. /\ SumFunctionOnSet(pnl, B) \in Int /\ SumFunctionOnSet(pnl, B \cap L) \in Int
      /\ SumFunctionOnSet(pnl, P) \in Int
  <2>1. B \in SUBSET B /\ B \cap L \in SUBSET B /\ P \in SUBSET B
    BY DEF P
  <2> QED
    BY <1>1, <1>2, <2>1, SumSplit
<1> QED
  BY <1>3, <1>4, <1>5 DEF PnlOf, Profits, pnl

(* The capital of capsules is a number. *)
LEMMA CapitalTyped ==
    ASSUME CapsTyped, NEW C \in SUBSET Capsules
    PROVE  CapitalOf(C) \in Nat
<1> DEFINE alloc == [c \in Capsules |-> cap[c].alloc]
<1>1. IsFiniteSet(C)
  BY FS_Subset, PromotionAssumption DEF PromotionAssumption, Capsules
<1>2. \A c \in C : alloc[c] \in Nat
  <2>1. ASSUME NEW c \in C
        PROVE  alloc[c] \in Nat
    <3>1. cap[c] \in CapRow /\ alloc[c] = cap[c].alloc
      BY DEF CapsTyped
    <3>2. cap[c].alloc \in 0..Max({Budget, ManualCapital})
      BY <3>1 DEF CapRow
    <3> QED
      BY <3>1, <3>2
  <2> QED
    BY <2>1
<1> HIDE DEF alloc
<1>3. SumFunctionOnSet(alloc, C) \in Nat
  <2>1. C \in SUBSET C
    OBVIOUS
  <2> QED
    BY <1>1, <1>2, <2>1, SumOfPart
<1> QED
  BY <1>3 DEF CapitalOf, alloc

(* Of a cluster that has not lost its share, what is left has not either, but for *)
(* the profits of the others.                                                     *)
LEMMA WithinShare ==
    ASSUME CapsTyped, NEW B \in SUBSET Capsules, NEW L, NEW pct \in Nat, ~Exceeds(B, pct)
    PROVE  LET total == CapitalOf({c \in Capsules : Active(c)})
           IN  ~(total > 0 /\ -100 * (PnlOf(B \cap L) + Profits(B \ L)) >= pct * total)
<1>1. PICK a \in Int, b \in Int, w \in Int :
         a = PnlOf(B \cap L) /\ b = PnlOf(B) /\ w = Profits(B \ L) /\ b <= a + w
  BY NetOfProfits
<1>2. {c \in Capsules : Active(c)} \in SUBSET Capsules
  OBVIOUS
<1>3. PICK t \in Nat : t = CapitalOf({c \in Capsules : Active(c)})
  BY <1>2, CapitalTyped
<1>4. PICK s \in Nat : s = pct * t
  OBVIOUS
<1>5. ~(t > 0 /\ -100 * b >= s)
  BY <1>1, <1>3, <1>4 DEF Exceeds
<1>6. ~(t > 0 /\ -100 * (a + w) >= s)
  BY <1>1, <1>5
<1> QED
  BY <1>1, <1>3, <1>4, <1>6

(* What is left at work after the switches was at work, and was not paused. *)
LEMMA LeftByClusters ==
    ASSUME CapsTyped, cap' = Pause(ClusterPaused)
    PROVE  {c \in Capsules : cap'[c].status \in {"paper", "live"}}
              = {c \in Capsules : Active(c) /\ c \notin ClusterPaused}
<1>1. cap' = [c \in Capsules |->
                IF c \in ClusterPaused THEN [cap[c] EXCEPT !.status = "paused"] ELSE cap[c]]
  BY DEF Pause
<1>2. ASSUME NEW c \in Capsules
      PROVE  cap'[c].status \in {"paper", "live"} <=> Active(c) /\ c \notin ClusterPaused
  <2>1. cap[c] \in CapRow
    BY DEF CapsTyped
  <2>2. [cap[c] EXCEPT !.status = "paused"].status = "paused"
    BY <2>1 DEF CapRow
  <2> QED
    BY <1>1, <2>2 DEF Active
<1> QED
  BY <1>2

(* After the switches have run, what is left at work of a family, of an asset
   class or of all has lost less than its share of the capital at work before,
   counting for it the profits of the members paused with another cluster. *)
THEOREM ClustersContain == Spec => ClusterLossContained
<1> DEFINE total == CapitalOf({c \in Capsules : Active(c)})
           left == {c \in Capsules : cap'[c].status \in {"paper", "live"}}
           Lost(C, pct) == total > 0 /\ -100 * (PnlOf(C \cap left) + Profits(C \ left)) >= pct * total
           Contained == \A c \in left :
                           /\ ~Lost({d \in Capsules : Active(d)}, KillPct)
                           /\ cap[c].tagged => /\ ~Lost(Cluster(c, FamilyOf), FamilyPct)
                                               /\ ~Lost(Cluster(c, AssetOf), AssetPct)
<1>1. ASSUME Inv, FundInv, [Next]_vars, pass.pc = "clusters", pass'.pc = "select"
      PROVE  Contained
  <2>1. Clusters
    <3>1. pass' # pass
      BY <1>1
    <3>2. CASE Operator
      BY <1>1, <3>1, <3>2 DEF Operator
    <3>3. CASE Promote \/ ForceBegin \/ SealBegin \/ Breaker \/ Blocked \/ Select \/ Crash
      BY <1>1, <3>3 DEF Promote, ForceBegin, SealBegin, Breaker, Blocked, Select, Crash, IdlePass
    <3>4. CASE Perform \/ Trade \/ TagProfiles
      BY <3>1, <3>4 DEF Perform, Trade, TagProfiles
    <3>5. CASE UNCHANGED vars
      BY <3>1, <3>5 DEF vars
    <3> QED
      BY <1>1, <3>2, <3>3, <3>4, <3>5 DEF Next, Advance
  <2>2. CapsTyped /\ {FamilyPct, AssetPct, KillPct} \subseteq Nat
    BY <1>1, PromotionAssumption DEF PromotionAssumption, FundInv
  <2>3. left = {c \in Capsules : Active(c) /\ c \notin ClusterPaused}
    BY <2>1, <2>2, LeftByClusters DEF Clusters
  <2> HIDE DEF left, total
  <2>0. ASSUME NEW B \in SUBSET Capsules, NEW pct \in Nat, ~Exceeds(B, pct)
        PROVE  ~Lost(B, pct)
    BY <2>0, <2>2, WithinShare DEF total
  <2> HIDE DEF Lost
  <2> SUFFICES ASSUME NEW c \in left
               PROVE  /\ ~Lost({d \in Capsules : Active(d)}, KillPct)
                      /\ cap[c].tagged => /\ ~Lost(Cluster(c, FamilyOf), FamilyPct)
                                          /\ ~Lost(Cluster(c, AssetOf), AssetPct)
    OBVIOUS
  <2>4. ~Lost({d \in Capsules : Active(d)}, KillPct)
    <3>1. ~Exceeds({d \in Capsules : Active(d)}, KillPct)
      BY <2>3 DEF ClusterPaused
    <3>2. {d \in Capsules : Active(d)} \in SUBSET Capsules
      OBVIOUS
    <3> QED
      BY <2>0, <2>2, <3>1, <3>2
  <2>5. ASSUME cap[c].tagged
        PROVE  ~Lost(Cluster(c, FamilyOf), FamilyPct) /\ ~Lost(Cluster(c, AssetOf), AssetPct)
    <3>1. ~Exceeds(Cluster(c, FamilyOf), FamilyPct) /\ ~Exceeds(Cluster(c, AssetOf), AssetPct)
      BY <2>3, <2>5 DEF ClusterPaused
    <3>2. Cluster(c, FamilyOf) \in SUBSET Capsules /\ Cluster(c, AssetOf) \in SUBSET Capsules
      BY DEF Cluster
    <3> QED
      BY <2>0, <2>2, <3>1, <3>2
  <2> QED
    BY <2>4, <2>5
<1>2. Inv /\ FundInv /\ [Next]_vars =>
         [pass.pc = "clusters" /\ pass'.pc = "select" => Contained]_vars
  <2> HIDE DEF Contained
  <2> QED
    BY <1>1
<1> QED
  BY <1>2, Funded, PTL DEF Spec, ClusterLossContained, Profits
=============================================================================
