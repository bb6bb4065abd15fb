-------------------------- MODULE CapsuleLedgerProofs --------------------------
(***************************************************************************)
(* Theorems about CapsuleLedger, for every value of its constants: the     *)
(* capsule row agrees with the books kept beside it.                       *)
(***************************************************************************)
EXTENDS CapsuleLedger, CapsuleEnvelopeProofs

(* The inductive invariant. *)

\* Nobody but apply-risk-budget.ts writes the limit columns.
LimitsAsCreated == BudgetFixed => limits = binding.limits

\* No money is spent on a day that has not come.
NothingSpentAhead == \A d \in Days : d > today => spentOn[d] = 0

\* The book day is not in the future and nothing was journaled after it; a
\* capsule without a book day has journaled nothing at all (NoDate is before
\* every day).
BookDayIsLast ==
    ~ArenaDriven /\ BudgetFixed =>
        /\ capsule.daily_pnl_reset_date <= today
        /\ \A d \in Days : d > capsule.daily_pnl_reset_date => fillsOn[d] = 0 /\ realizedOn[d] = 0
        /\ capsule.daily_pnl_reset_date = NoDate => capsule.trades_today = 0 /\ capsule.daily_pnl = 0

\* The arena's daily_pnl is at least as bad as what was spent today.
PnlCoversSpend == ArenaDriven /\ BudgetFixed => capsule.daily_pnl <= -spentOn[today]

LedgerInv ==
    /\ TypeOK
    /\ DeployedIsCostBasis
    /\ CashConserved
    /\ LimitsAsCreated
    /\ NothingSpentAhead
    /\ BookDayIsLast
    /\ DayCountersMatchBookDay
    /\ PnlCoversSpend

-----------------------------------------------------------------------------
(* What a fill does to the capsule and to the books. *)

(* Days are numbers, and the rows the proofs read are typed. *)
LEMMA Typed ==
    ASSUME TypeOK
    PROVE  /\ today \in Nat /\ today \in Days /\ Days \subseteq Nat
           /\ capsule \in CapsuleRow
           /\ capsule.capital_deployed \in Nat /\ capsule.open_position_cost \in Int
           /\ capsule.current_pnl \in Int /\ capsule.daily_pnl \in Int
           /\ capsule.capital_available \in Nat
BY LedgerAssumption DEF TypeOK, Days, CapsuleRow

(* What a fill realizes is what it adds to the pnl of the capsule, and adding
   to the cost basis never takes it below zero. *)
LEMMA FillEffect ==
    ASSUME TypeOK, DeployedIsCostBasis, NEW fill, fill.qty \in Nat, fill.usd \in Nat
    PROVE  /\ Realized(fill) = Gain(capsule, fill) /\ Gain(capsule, fill) \in Int
           /\ capsule.capital_deployed + CostAdded(capsule, fill) \in Nat
           /\ CostAdded(capsule, fill) \in Int
<1>1. capsule \in CapsuleRow /\ capsule.open_position_cost \in Nat
  BY Typed DEF DeployedIsCostBasis
<1>2. CostClosed(capsule, fill.qty) \in 0..capsule.open_position_cost
  BY <1>1, CostClosedBounded
<1> QED
  BY <1>1, <1>2 DEF Realized, Gain, CostAdded, DeployedIsCostBasis

(* The capsule after a fill, in terms of the books. *)
LEMMA CapsuleAfterFill ==
    ASSUME TypeOK, DeployedIsCostBasis, NEW fill, fill.qty \in Nat, fill.usd \in Nat
    PROVE  LET r == ApplyFill(capsule, fill, today)
           IN  /\ r \in CapsuleRow
               /\ r.capital_deployed = r.open_position_cost
               /\ r.open_position_cost = capsule.open_position_cost + CostAdded(capsule, fill)
               /\ r.current_pnl = capsule.current_pnl + Realized(fill)
<1>1. ApplyFill(capsule, fill, today) \in CapsuleRow
  BY Typed, ApplyFillType
<1>2. capsule.capital_deployed + CostAdded(capsule, fill) \in Nat
  BY FillEffect
<1>3. AtLeastZero(capsule.capital_deployed + CostAdded(capsule, fill))
          = capsule.capital_deployed + CostAdded(capsule, fill)
  BY <1>2 DEF AtLeastZero
<1> QED
  BY <1>1, <1>3, Typed, FillEffect, ApplyFillColumns DEF DeployedIsCostBasis

(* One entry in the books: today moves, no other day does. *)
LEMMA BookStep ==
    ASSUME TypeOK, DeployedIsCostBasis, NEW fill, fill.qty \in Nat, fill.usd \in Nat,
           NEW bought, Book(fill, bought)
    PROVE  /\ fillsOn' \in [Days -> Nat] /\ spentOn' \in [Days -> Nat]
           /\ realizedOn' \in [Days -> Int]
           /\ paid' \in Nat /\ proceeds' \in Nat
           /\ fillsOn'[today] = fillsOn[today] + 1
           /\ spentOn'[today] = spentOn[today] + fill.usd
           /\ realizedOn'[today] = realizedOn[today] + Realized(fill)
           /\ \A d \in Days \ {today} :
                 fillsOn'[d] = fillsOn[d] /\ spentOn'[d] = spentOn[d] /\ realizedOn'[d] = realizedOn[d]
<1>1. Realized(fill) \in Int /\ today \in Days
  BY FillEffect, Typed
<1>2. /\ fillsOn[today] + 1 \in Nat /\ spentOn[today] + fill.usd \in Nat
      /\ realizedOn[today] + Realized(fill) \in Int
  BY <1>1 DEF TypeOK
<1>3. /\ fillsOn' = [fillsOn EXCEPT ![today] = fillsOn[today] + 1]
      /\ spentOn' = [spentOn EXCEPT ![today] = spentOn[today] + fill.usd]
      /\ realizedOn' = [realizedOn EXCEPT ![today] = realizedOn[today] + Realized(fill)]
  BY DEF Book
<1>4. paid' \in Nat /\ proceeds' \in Nat
  BY DEF Book, TypeOK
<1> QED
  BY <1>1, <1>2, <1>3, <1>4 DEF TypeOK

-----------------------------------------------------------------------------
(* The invariant holds at first and every action keeps it. *)

LEMMA LedgerInit == Init => LedgerInv
<1> SUFFICES ASSUME Init
             PROVE  LedgerInv
  OBVIOUS
<1>0. PICK s \in {"paper", "live"} : capsule = NewCapsule(s, Allocated)
  BY DEF Init
<1>1. capsule \in CapsuleRow
  BY <1>0, LedgerAssumption DEF NewCapsule, CapsuleRow, CapsuleStatuses, NoDate
<1>2. /\ capsule.capital_deployed = 0 /\ capsule.open_position_cost = 0
      /\ capsule.current_pnl = 0 /\ capsule.daily_pnl = 0 /\ capsule.trades_today = 0
      /\ capsule.daily_pnl_reset_date = NoDate
  BY <1>0 DEF NewCapsule
<1>3. today = 0 /\ today \in Days
  BY LedgerAssumption DEF Init, Days
<1>4. Zero \in [Days -> Nat] /\ Zero \in [Days -> Int] /\ \A d \in Days : Zero[d] = 0
  BY DEF Zero
<1>5. TypeOK
  BY <1>1, <1>3, <1>4 DEF Init, TypeOK
<1>6. DeployedIsCostBasis /\ CashConserved
  BY <1>2 DEF DeployedIsCostBasis, CashConserved, Init
<1>7. LimitsAsCreated /\ NothingSpentAhead
  BY <1>4 DEF LimitsAsCreated, NothingSpentAhead, Init
<1>8. BookDayIsLast /\ DayCountersMatchBookDay
  BY <1>2, <1>3, <1>4 DEF BookDayIsLast, DayCountersMatchBookDay, Init, NoDate
<1>9. PnlCoversSpend
  BY <1>2, <1>3, <1>4 DEF PnlCoversSpend, Init
<1> QED
  BY <1>5, <1>6, <1>7, <1>8, <1>9 DEF LedgerInv

(* An order of a client: gate, then journal. *)
LEMMA ApiStep ==
    ASSUME LedgerInv, NEW o \in binding.orders, ApiOrder(o)
    PROVE  LedgerInv'
<1> DEFINE fill == FillOf(o)
<1> USE DEF LedgerInv
<1>1. /\ o.side \in {"BUY", "SELL"} /\ o.size \in Nat /\ o.price \in Nat
      /\ fill.qty \in Nat /\ fill.usd \in Nat
  BY LedgerAssumption, FillOfType DEF TypeOK
<1>2. ~ArenaDriven /\ binding' = binding /\ limits' = limits /\ today' = today
  BY OneSource DEF TypeOK, ArenaDriven, ApiOrder, Book
<1>3. fill.side = o.side
  BY DEF FillOf
<1> HIDE DEF fill
<1>4. capsule' = ApplyFill(capsule, fill, today) /\ Book(fill, o.side = "BUY")
  BY DEF ApiOrder, fill
<1>5. holdings' \in [Tokens -> Nat]
  <2>1. o.symbol \in Tokens =>
          (IF o.side = "BUY" THEN holdings[o.symbol] + o.size ELSE holdings[o.symbol] - o.size) \in Nat
    <3>1. o.symbol \in Tokens => holdings[o.symbol] \in Nat
      BY DEF TypeOK
    <3> QED
      BY <1>1, <3>1 DEF ApiOrder
  <2> QED
    BY <2>1 DEF ApiOrder, TypeOK
<1>6. TypeOK'
  <2>1. capsule' \in CapsuleRow
    BY <1>1, <1>4, CapsuleAfterFill
  <2> QED
    BY <1>1, <1>2, <1>4, <1>5, <2>1, BookStep DEF TypeOK
<1>7. DeployedIsCostBasis'
  BY <1>1, <1>4, CapsuleAfterFill DEF DeployedIsCostBasis
<1>8. CashConserved'
  <2>1. /\ capsule'.open_position_cost = capsule.open_position_cost + CostAdded(capsule, fill)
        /\ capsule'.current_pnl = capsule.current_pnl + Gain(capsule, fill)
    BY <1>1, <1>4, CapsuleAfterFill, FillEffect
  <2>2. /\ paid' = paid + (IF o.side = "BUY" THEN fill.usd ELSE 0)
        /\ proceeds' = proceeds + (IF o.side = "BUY" THEN 0 ELSE fill.usd)
    BY <1>4 DEF Book
  <2>3. Gain(capsule, fill) = CostAdded(capsule, fill) + (IF o.side = "BUY" THEN -fill.usd ELSE fill.usd)
    BY <1>1, <1>3, CostClosedType, Typed DEF Gain, CostAdded
  <2>4. ASSUME NEW pnl \in Int, NEW cost \in Int, NEW gain \in Int, NEW added \in Int,
               NEW u \in Nat, NEW in \in Nat, NEW out \in Nat,
               pnl + in = out + cost,
               gain = added + (IF o.side = "BUY" THEN -u ELSE u)
        PROVE  (pnl + gain) + (in + (IF o.side = "BUY" THEN u ELSE 0))
                   = (out + (IF o.side = "BUY" THEN 0 ELSE u)) + (cost + added)
    BY <2>4
  <2>5. /\ capsule.current_pnl \in Int /\ capsule.open_position_cost \in Int
        /\ Gain(capsule, fill) \in Int /\ CostAdded(capsule, fill) \in Int
        /\ paid \in Nat /\ proceeds \in Nat
    BY <1>1, Typed, FillEffect DEF TypeOK
  <2>6. capsule.current_pnl + paid = proceeds + capsule.open_position_cost
    BY <1>2 DEF CashConserved
  <2> QED
    BY <1>1, <2>1, <2>2, <2>3, <2>4, <2>5, <2>6 DEF CashConserved
<1>9. LimitsAsCreated' /\ NothingSpentAhead'
  BY <1>1, <1>2, <1>4, BookStep, Typed DEF LimitsAsCreated, NothingSpentAhead, BudgetFixed
<1>10. BookDayIsLast' /\ DayCountersMatchBookDay'
  <2> SUFFICES ASSUME BudgetFixed
               PROVE  BookDayIsLast' /\ DayCountersMatchBookDay'
    BY <1>2 DEF BookDayIsLast, DayCountersMatchBookDay, BudgetFixed, ArenaDriven
  <2>1. /\ capsule'.daily_pnl_reset_date = today
        /\ capsule'.trades_today = (IF DayOver(capsule, today) THEN 0 ELSE capsule.trades_today) + 1
        /\ capsule'.daily_pnl =
              (IF DayOver(capsule, today) THEN 0 ELSE capsule.daily_pnl) + Realized(fill)
    BY <1>1, <1>4, Typed, ApplyFillColumns, FillEffect
  <2>2. /\ today \in Nat /\ today \in Days /\ Days \subseteq Nat
        /\ capsule.daily_pnl_reset_date \in Nat \cup {NoDate}
    BY Typed DEF CapsuleRow
  <2>3. /\ fillsOn[today] = (IF DayOver(capsule, today) THEN 0 ELSE capsule.trades_today)
        /\ realizedOn[today] = (IF DayOver(capsule, today) THEN 0 ELSE capsule.daily_pnl)
    <3>1. CASE capsule.daily_pnl_reset_date = today
      BY <1>2, <2>2, <3>1 DEF DayCountersMatchBookDay, DayOver, NoDate
    <3>2. CASE capsule.daily_pnl_reset_date # today
      <4>1. capsule.daily_pnl_reset_date < today
        BY <1>2, <2>2, <3>2 DEF BookDayIsLast, NoDate
      <4> QED
        BY <1>2, <2>2, <4>1 DEF BookDayIsLast, DayOver, NoDate
    <3> QED
      BY <3>1, <3>2
  <2>4. /\ fillsOn'[today] = fillsOn[today] + 1
        /\ realizedOn'[today] = realizedOn[today] + Realized(fill)
        /\ \A d \in Days \ {today} : fillsOn'[d] = fillsOn[d] /\ realizedOn'[d] = realizedOn[d]
    BY <1>1, <1>4, BookStep
  <2>5. capsule.daily_pnl_reset_date <= today
    BY <1>2 DEF BookDayIsLast
  <2>6. \A d \in Days : d > today => fillsOn[d] = 0 /\ realizedOn[d] = 0
    BY <1>2, <2>2, <2>5 DEF BookDayIsLast, NoDate
  <2> QED
    BY <1>2, <2>1, <2>2, <2>3, <2>4, <2>6
    DEF BookDayIsLast, DayCountersMatchBookDay, BudgetFixed, ArenaDriven, NoDate
<1>11. PnlCoversSpend'
  BY <1>2 DEF PnlCoversSpend, ArenaDriven
<1> QED
  BY <1>6, <1>7, <1>8, <1>9, <1>10, <1>11

(* The arena overwrites two pnl columns, which keeps a row a row. *)
LEMMA RefreshedColumns ==
    ASSUME NEW c \in CapsuleRow, NEW pnl \in Int, NEW spent \in Nat
    PROVE  LET r == Refreshed(c, pnl, spent)
           IN  /\ r \in CapsuleRow
               /\ r.daily_pnl = -spent
               /\ r.capital_deployed = c.capital_deployed
               /\ r.open_position_cost = c.open_position_cost
               /\ r.capital_allocated = c.capital_allocated
<1>1. -spent \in Int
  OBVIOUS
<1>2. ASSUME NEW loss \in Int
      PROVE  [c EXCEPT !.current_pnl = pnl, !.daily_pnl = loss] \in CapsuleRow
  BY <1>2 DEF CapsuleRow
<1>3. Refreshed(c, pnl, spent) \in CapsuleRow
  BY <1>1, <1>2, Zenon DEF Refreshed
<1> QED
  BY <1>3 DEF Refreshed, CapsuleRow

(* A fill of the arena, entry or exit. *)
LEMMA ArenaFillStep ==
    ASSUME LedgerInv, ArenaDriven, NEW fill, fill.qty \in Nat, fill.usd \in Nat, NEW bought,
           NEW pnl \in AgentPnls, ArenaFill(fill, bought, pnl), holdings' \in [Tokens -> Nat]
    PROVE  LedgerInv'
<1> USE DEF LedgerInv
<1> DEFINE filled == ApplyFill(capsule, fill, today)
           spent == spentOn[today] + fill.usd
<1>1. binding' = binding /\ limits' = limits /\ today' = today
  BY DEF ArenaFill, Book
<1>2. capsule' = Refreshed(filled, pnl, spent) /\ Book(fill, bought)
  BY DEF ArenaFill
<1>3. /\ filled \in CapsuleRow
      /\ filled.capital_deployed = filled.open_position_cost
  BY CapsuleAfterFill
<1>4. pnl \in Int /\ spent \in Nat
  BY LedgerAssumption, Typed DEF TypeOK
<1> HIDE DEF filled, spent
<1>5. /\ capsule' \in CapsuleRow
      /\ capsule'.daily_pnl = -spent
      /\ capsule'.capital_deployed = capsule'.open_position_cost
  BY <1>2, <1>3, <1>4, RefreshedColumns
<1>6. TypeOK'
  BY <1>1, <1>2, <1>5, BookStep DEF TypeOK
<1>7. spentOn'[today] = spent /\ \A d \in Days \ {today} : spentOn'[d] = spentOn[d]
  BY <1>2, BookStep DEF spent
<1>8. NothingSpentAhead' /\ LimitsAsCreated'
  BY <1>1, <1>7, Typed DEF NothingSpentAhead, LimitsAsCreated, BudgetFixed
<1>9. PnlCoversSpend'
  BY <1>1, <1>4, <1>5, <1>7 DEF PnlCoversSpend
<1>10. DeployedIsCostBasis'
  BY <1>5 DEF DeployedIsCostBasis
<1>11. CashConserved' /\ BookDayIsLast' /\ DayCountersMatchBookDay'
  BY <1>1 DEF CashConserved, BookDayIsLast, DayCountersMatchBookDay, ArenaDriven
<1> QED
  BY <1>6, <1>8, <1>9, <1>10, <1>11

(* The clamped size of an entry is a natural number. *)
LEMMA EntrySizeType ==
    ASSUME TypeOK, NEW sig \in binding.signals
    PROVE  EntrySize(sig) \in Nat
BY LedgerAssumption, Typed DEF TypeOK, EntrySize, Smaller

LEMMA ArenaEntryStep ==
    ASSUME LedgerInv, NEW sig \in binding.signals, NEW pnl \in AgentPnls, ArenaEntry(sig, pnl)
    PROVE  LedgerInv'
<1> DEFINE size == EntrySize(sig)
           fill == [side |-> sig.side, qty |-> size, usd |-> size]
           units == (size * PriceScale) \div sig.price
<1>1. ArenaDriven /\ size \in Nat
  BY EntrySizeType DEF ArenaDriven, LedgerInv
<1>2. units \in Nat
  <2>1. ASSUME NEW a \in Nat, NEW b \in Nat, NEW p \in Nat \ {0}
        PROVE  (a * b) \div p \in Nat
    <3>1. a * b \in Nat
      OBVIOUS
    <3> QED
      BY <3>1
  <2> QED
    BY <1>1, <2>1, LedgerAssumption, PriceScaleAssumption DEF LedgerInv, TypeOK
<1> HIDE DEF size, units
<1>3. fill.qty \in Nat /\ fill.usd \in Nat /\ ArenaFill(fill, TRUE, pnl)
  BY <1>1 DEF ArenaEntry, size
<1>4. PICK token : holdings' = [holdings EXCEPT ![token] = @ + units]
  BY DEF ArenaEntry, size, units
<1>5. holdings' \in [Tokens -> Nat]
  <2>1. holdings \in [Tokens -> Nat]
    BY DEF LedgerInv, TypeOK
  <2>2. \A t \in Tokens : holdings[t] + units \in Nat
    BY <1>2, <2>1
  <2> QED
    BY <1>4, <2>1, <2>2
<1> QED
  BY <1>1, <1>3, <1>5, ArenaFillStep

LEMMA ArenaExitStep ==
    ASSUME LedgerInv, ArenaDriven, NEW token \in Tokens, NEW price \in ExitPrices,
           NEW pnl \in AgentPnls, ArenaExit(token, price, pnl)
    PROVE  LedgerInv'
<1> DEFINE order == ArenaOrder(token, "SELL", holdings[token], price)
           fill == FillOf(order)
<1>1. order.size \in Nat /\ order.price \in Nat
  BY LedgerAssumption DEF ArenaOrder, LedgerInv, TypeOK
<1> HIDE DEF order
<1>2. fill.qty \in Nat /\ fill.usd \in Nat
  BY <1>1, FillOfType
<1>3. ArenaFill(fill, FALSE, pnl) /\ holdings' = [holdings EXCEPT ![token] = 0]
  BY DEF ArenaExit, order
<1> HIDE DEF fill
<1>4. holdings' \in [Tokens -> Nat]
  BY <1>3 DEF LedgerInv, TypeOK
<1> QED
  BY <1>2, <1>3, <1>4, ArenaFillStep

LEMMA ArenaRefusedStep ==
    ASSUME LedgerInv, ArenaDriven, NEW pnl \in AgentPnls, ArenaRefused(pnl)
    PROVE  LedgerInv'
<1> USE DEF LedgerInv
<1>1. pnl \in Int /\ spentOn[today] \in Nat
  BY LedgerAssumption, Typed DEF TypeOK
<1>2. /\ capsule' \in CapsuleRow
      /\ capsule'.daily_pnl = -spentOn[today]
      /\ capsule'.capital_deployed = capsule.capital_deployed
      /\ capsule'.open_position_cost = capsule.open_position_cost
  BY <1>1, Typed, RefreshedColumns DEF ArenaRefused
<1>3. /\ binding' = binding /\ limits' = limits /\ today' = today /\ holdings' = holdings
      /\ fillsOn' = fillsOn /\ spentOn' = spentOn /\ realizedOn' = realizedOn
      /\ paid' = paid /\ proceeds' = proceeds
  BY DEF ArenaRefused, history
<1>4. TypeOK' /\ DeployedIsCostBasis'
  BY <1>2, <1>3 DEF TypeOK, DeployedIsCostBasis
<1>5. NothingSpentAhead' /\ LimitsAsCreated'
  BY <1>3 DEF NothingSpentAhead, LimitsAsCreated, BudgetFixed
<1>6. PnlCoversSpend'
  BY <1>1, <1>2, <1>3 DEF PnlCoversSpend
<1>7. CashConserved' /\ BookDayIsLast' /\ DayCountersMatchBookDay'
  BY <1>3 DEF CashConserved, BookDayIsLast, DayCountersMatchBookDay, ArenaDriven
<1> QED
  BY <1>4, <1>5, <1>6, <1>7

(* The operator's script touches no column that a position moved. *)
LEMMA BudgetStep ==
    ASSUME LedgerInv, NEW b \in binding.budgets, ApplyRiskBudget(b)
    PROVE  LedgerInv'
<1> USE DEF LedgerInv
<1>1. ~BudgetFixed /\ b.capital \in Nat /\ today \in Nat
  BY LedgerAssumption, Typed DEF BudgetFixed, TypeOK
<1>2. /\ binding' = binding /\ today' = today /\ holdings' = holdings
      /\ fillsOn' = fillsOn /\ spentOn' = spentOn /\ realizedOn' = realizedOn
      /\ paid' = paid /\ proceeds' = proceeds
  BY DEF ApplyRiskBudget, history
<1>3. capsule' = Rebudgeted(capsule, b) /\ DOMAIN limits' = DOMAIN limits
  BY DEF ApplyRiskBudget
<1>4. /\ capsule' \in CapsuleRow
      /\ capsule'.capital_deployed = capsule.capital_deployed
      /\ capsule'.open_position_cost = capsule.open_position_cost
      /\ capsule'.current_pnl = capsule.current_pnl
  <2>1. ASSUME NEW n \in Nat, NEW m \in Nat, NEW zero \in Nat, NEW pnl \in Int,
               NEW day \in Nat \cup {NoDate}
        PROVE  [capsule EXCEPT !.capital_allocated = n, !.capital_available = m,
                               !.daily_pnl = pnl, !.trades_today = zero,
                               !.daily_pnl_reset_date = day] \in CapsuleRow
    BY <2>1, Typed DEF CapsuleRow
  <2>2. 0 \in Nat /\ 0 \in Int /\ today \in Nat \cup {NoDate}
    BY <1>1
  <2>3. Rebudgeted(capsule, b) \in CapsuleRow
    BY <1>1, <2>1, <2>2, Zenon DEF Rebudgeted
  <2> QED
    BY <1>3, <2>3, Typed DEF Rebudgeted, CapsuleRow
<1>5. TypeOK'
  BY <1>2, <1>3, <1>4 DEF TypeOK
<1>6. DeployedIsCostBasis' /\ CashConserved' /\ NothingSpentAhead'
  BY <1>2, <1>4 DEF DeployedIsCostBasis, CashConserved, NothingSpentAhead, ArenaDriven
<1>7. ~BudgetFixed'
  BY <1>1, <1>2 DEF BudgetFixed
<1>8. LimitsAsCreated' /\ BookDayIsLast' /\ DayCountersMatchBookDay' /\ PnlCoversSpend'
  BY <1>7 DEF LimitsAsCreated, BookDayIsLast, DayCountersMatchBookDay, PnlCoversSpend
<1> QED
  BY <1>5, <1>6, <1>8

(* At midnight only the date changes, and nothing was spent on the new day. *)
LEMMA MidnightStep ==
    ASSUME LedgerInv, Midnight
    PROVE  LedgerInv'
<1> USE DEF LedgerInv
<1>1. /\ binding' = binding /\ capsule' = capsule /\ limits' = limits /\ holdings' = holdings
      /\ fillsOn' = fillsOn /\ spentOn' = spentOn /\ realizedOn' = realizedOn
      /\ paid' = paid /\ proceeds' = proceeds
  BY DEF Midnight, history
<1>2. today' = today + 1 /\ today \in Nat /\ today' \in Days /\ Days \subseteq Nat
  BY LedgerAssumption, Typed DEF Midnight, Days
<1>3. TypeOK'
  BY <1>1, <1>2 DEF TypeOK
<1>4. DeployedIsCostBasis' /\ CashConserved' /\ LimitsAsCreated' /\ DayCountersMatchBookDay'
  BY <1>1 DEF DeployedIsCostBasis, CashConserved, LimitsAsCreated, DayCountersMatchBookDay,
              ArenaDriven, BudgetFixed
<1>5. NothingSpentAhead'
  BY <1>1, <1>2 DEF NothingSpentAhead
<1>6. BookDayIsLast'
  BY <1>1, <1>2, Typed DEF BookDayIsLast, ArenaDriven, BudgetFixed, CapsuleRow, NoDate
<1>7. PnlCoversSpend'
  <2>1. spentOn[today] \in Nat /\ spentOn[today'] = 0 /\ capsule.daily_pnl \in Int
    BY <1>2, Typed DEF NothingSpentAhead, TypeOK
  <2> QED
    BY <1>1, <2>1 DEF PnlCoversSpend, ArenaDriven, BudgetFixed
<1> QED
  BY <1>3, <1>4, <1>5, <1>6, <1>7

LEMMA LedgerStep == LedgerInv /\ [Next]_vars => LedgerInv'
<1> SUFFICES ASSUME LedgerInv, [Next]_vars
             PROVE  LedgerInv'
  OBVIOUS
<1>1. CASE UNCHANGED vars
  BY <1>1 DEF vars, history, LedgerInv, TypeOK, DeployedIsCostBasis, CashConserved,
              LimitsAsCreated, NothingSpentAhead, BookDayIsLast, DayCountersMatchBookDay,
              PnlCoversSpend, ArenaDriven, BudgetFixed
<1>2. CASE Next
  BY <1>2, ApiStep, ArenaEntryStep, ArenaExitStep, ArenaRefusedStep, BudgetStep, MidnightStep
  DEF Next
<1> QED
  BY <1>1, <1>2

(* Every behaviour keeps the invariant. *)
LEMMA Ledger == Spec => []LedgerInv
BY LedgerInit, LedgerStep, PTL DEF Spec

-----------------------------------------------------------------------------
(* What follows. *)

(* Every variable keeps its type: in particular neither the capital columns, the
   open quantity nor the trade count of the capsule row ever go negative. *)
THEOREM TypeCorrect == Spec => []TypeOK
BY Ledger, PTL DEF LedgerInv

(* The capital the capsule reports as deployed is the cost basis of what it
   holds, over any sequence of buys, sells and oversells, entries and exits of
   the arena, and budget changes: the clamp of applyFillToCapsule on it never acts. *)
THEOREM CostBasisDeployed == Spec => []DeployedIsCostBasis
BY Ledger, PTL DEF LedgerInv

(* Cumulative pnl plus what was paid is what was received plus the cost still
   tied up, for a capsule the arena does not drive: applyFillToCapsule neither
   makes nor loses money, the remainder of a division included. *)
THEOREM CashIsConserved == Spec => []CashConserved
BY Ledger, PTL DEF LedgerInv

(* trades_today and daily_pnl are the fills and the realized pnl of the book
   day, however many days passed without a fill. *)
THEOREM DayCountersMatch == Spec => []DayCountersMatchBookDay
BY Ledger, PTL DEF LedgerInv

(* With what refreshCapsuleRealtime writes to daily_pnl, the daily-loss limit
   stops the arena: no fill happens on a day whose fills already total it. *)
THEOREM Brakes == Spec => SpendBrake
<1> DEFINE Brake == ArenaDriven /\ BudgetFixed /\ spentOn' # spentOn /\ limits.max_daily_loss > 0
                       => spentOn[today] < limits.max_daily_loss
<1>1. LedgerInv /\ [Next]_vars => Brake
  <2> SUFFICES ASSUME LedgerInv, [Next]_vars, ArenaDriven, BudgetFixed,
                      spentOn' # spentOn, limits.max_daily_loss > 0
               PROVE  spentOn[today] < limits.max_daily_loss
    OBVIOUS
  <2>1. PICK o : CheckOrder(limits, capsule, o, NeverTraded)
    BY OneSource DEF Next, vars, history, ApiOrder, ArenaEntry, ArenaExit, ArenaRefused,
                     ApplyRiskBudget, Midnight, ArenaDriven, BudgetFixed, LedgerInv, TypeOK
  <2>2. ~(capsule.daily_pnl <= -limits.max_daily_loss)
    BY <2>1 DEF CheckOrder, PastLossLimit
  <2>3. capsule.daily_pnl <= -spentOn[today]
    BY DEF LedgerInv, PnlCoversSpend
  <2>4. /\ capsule.daily_pnl \in Int /\ spentOn[today] \in Nat
        /\ limits.max_daily_loss \in Int
    BY Typed, LedgerAssumption DEF LedgerInv, TypeOK, LimitsAsCreated
  <2> QED
    BY <2>2, <2>3, <2>4
<1> QED
  BY <1>1, Ledger, PTL DEF Spec, SpendBrake

-----------------------------------------------------------------------------
(***************************************************************************)
(* max_position_pct.  The gate counts a BUY as size * price, which is what *)
(* the simulator books.  Polymarket and Coinbase book its size as USD, so  *)
(* that there an order may pass by what the gate leaves out of it.         *)
(***************************************************************************)
Overs == {0} \cup {Uncounted(o) : o \in DollarBuys}

Limited == limits.max_position_pct > 0 /\ Allocated > 0

\* A deployed capital within the limit, and the uncounted part of one order.
Within(deployed) ==
    \E over \in Overs :
        100 * PriceScale * deployed
           <= PriceScale * limits.max_position_pct * Allocated + 100 * over

\* The inductive part: the capital is the one the capsule began with.
PctInv ==
    BudgetFixed => /\ capsule.capital_allocated = Allocated
                   /\ Limited => Within(capsule.capital_deployed)

(* What is left out of an order is a number. *)
LEMMA OversTyped == ASSUME TypeOK PROVE Overs \subseteq Int
<1>1. ASSUME NEW o \in DollarBuys
      PROVE  o.size \in Nat /\ o.price \in Nat
  BY <1>1, LedgerAssumption DEF TypeOK, DollarBuys, ArenaOrder, Smaller
<1>2. ASSUME NEW o \in DollarBuys
      PROVE  Uncounted(o) \in Int
  BY <1>1, PriceScaleAssumption DEF Uncounted
<1> QED
  BY <1>2 DEF Overs

(* An order whose counted part fits under the limit fits with what is left out. *)
LEMMA OrderFits ==
    ASSUME NEW s \in Nat \ {0}, NEW d \in Nat, NEW usd \in Nat, NEW x \in Int,
           NEW k \in Int, NEW a \in Nat, NEW over \in Int,
           ~(100 * (s * d + x) > k * a * s), s * usd <= x + over
    PROVE  100 * s * (d + usd) <= s * k * a + 100 * over
<1>1. PICK D \in Int, U \in Int, L \in Int : D = s * d /\ U = s * usd /\ L = k * a * s
  OBVIOUS
<1>2. 100 * s * (d + usd) = 100 * D + 100 * U
  BY <1>1
<1>3. s * k * a = L
  BY <1>1
<1>4. 100 * (D + x) <= L /\ U <= x + over
  BY <1>1
<1> QED
  BY <1>2, <1>3, <1>4

(* A fill that is not a buy, or one that fits. *)
LEMMA PctAfterFill ==
    ASSUME TypeOK, DeployedIsCostBasis, LimitsAsCreated, BudgetFixed, PctInv, Limited,
           NEW fill, fill.qty \in Nat, fill.usd \in Nat,
           NEW r, r.capital_deployed = ApplyFill(capsule, fill, today).capital_deployed,
           fill.side # "BUY" \/ Within(capsule.capital_deployed + fill.usd)
    PROVE  Within(r.capital_deployed)
<1>1. /\ r.capital_deployed = capsule.capital_deployed + CostAdded(capsule, fill)
      /\ capsule.capital_deployed \in Nat
  BY Typed, CapsuleAfterFill DEF DeployedIsCostBasis
<1>2. CASE fill.side # "BUY"
  <2>1. PICK cost \in Nat : cost = CostClosed(capsule, fill.qty)
    BY Typed, CostClosedBounded DEF DeployedIsCostBasis
  <2>2. PICK d \in Nat : d = capsule.capital_deployed /\ r.capital_deployed = d - cost
    BY <1>1, <1>2, <2>1 DEF CostAdded
  <2>3. PICK over \in Overs :
           100 * PriceScale * d <= PriceScale * limits.max_position_pct * Allocated + 100 * over
    BY <2>2 DEF PctInv, Within
  <2>4. PICK L \in Int : L = PriceScale * limits.max_position_pct * Allocated + 100 * over
    <3>1. limits.max_position_pct \in Int /\ Allocated \in Nat /\ over \in Int
      BY LedgerAssumption, OversTyped DEF LimitsAsCreated, TypeOK
    <3> QED
      BY <3>1, PriceScaleAssumption
  <2>5. 100 * PriceScale * (d - cost) <= 100 * PriceScale * d
    <3>1. PICK s \in Nat : s = 100 * PriceScale
      BY PriceScaleAssumption
    <3>2. s * (d - cost) = s * d - s * cost /\ s * cost \in Nat /\ s * d \in Nat
      OBVIOUS
    <3> QED
      BY <3>1, <3>2
  <2>6. 100 * PriceScale * (d - cost) \in Int /\ 100 * PriceScale * d \in Int
    BY PriceScaleAssumption
  <2>7. 100 * PriceScale * (d - cost) <= L
    BY <2>3, <2>4, <2>5, <2>6
  <2> QED
    BY <2>2, <2>4, <2>7 DEF Within
<1>3. CASE fill.side = "BUY"
  <2>1. r.capital_deployed = capsule.capital_deployed + fill.usd
    BY <1>1, <1>3 DEF CostAdded
  <2> QED
    BY <1>3, <2>1
<1> QED
  BY <1>2, <1>3

(* A buy that the gate lets through fits, if what is left out of it is at most an over. *)
LEMMA GatedBuyFits ==
    ASSUME TypeOK, LimitsAsCreated, BudgetFixed, PctInv, Limited,
           NEW o, o.side = "BUY", o.size \in Nat, o.price \in Nat \ {0},
           ~OverPositionPct(limits, capsule, o),
           NEW usd \in Nat, NEW over \in Overs, PriceScale * usd <= o.size * o.price + over
    PROVE  Within(capsule.capital_deployed + usd)
<1>1. /\ limits.max_position_pct \in Int /\ Allocated \in Nat /\ over \in Int
      /\ capsule.capital_deployed \in Nat
  BY LedgerAssumption, OversTyped, Typed DEF LimitsAsCreated, TypeOK
<1>2. ~(100 * (PriceScale * capsule.capital_deployed + o.size * o.price)
          > limits.max_position_pct * Allocated * PriceScale)
  BY DEF OverPositionPct, PctInv, Limited
<1>3. PICK x \in Int : x = o.size * o.price
  OBVIOUS
<1>4. 100 * PriceScale * (capsule.capital_deployed + usd)
        <= PriceScale * limits.max_position_pct * Allocated + 100 * over
  BY <1>1, <1>2, <1>3, PriceScaleAssumption, OrderFits
<1> QED
  BY <1>4 DEF Within

(* A client's buy: nothing is left out of it on the simulator. *)
LEMMA ApiBuyFits ==
    ASSUME TypeOK, LimitsAsCreated, BudgetFixed, PctInv, Limited,
           NEW o \in binding.orders, o.side = "BUY", ~OverPositionPct(limits, capsule, o)
    PROVE  Within(capsule.capital_deployed + UsdEquivalent(o))
<1>1. o.size \in Nat /\ o.price \in Nat \ {0}
  BY LedgerAssumption DEF TypeOK
<1>2. CASE o.venue = "sim"
  <2>1. PICK x \in Nat : x = o.size * o.price
    BY <1>1
  <2>2. UsdEquivalent(o) = x \div PriceScale
    BY <1>2, <2>1 DEF UsdEquivalent
  <2>3. x \div PriceScale \in Nat /\ PriceScale * (x \div PriceScale) <= x + 0
    BY PriceScaleAssumption
  <2>4. 0 \in Overs
    BY DEF Overs
  <2> QED
    BY <1>1, <2>1, <2>2, <2>3, <2>4, GatedBuyFits
<1>3. CASE o.venue # "sim"
  <2>1. UsdEquivalent(o) = o.size
    BY <1>3 DEF UsdEquivalent
  <2>2. Uncounted(o) \in Overs
    BY <1>3 DEF Overs, DollarBuys
  <2>3. PriceScale * o.size <= o.size * o.price + Uncounted(o)
    BY <1>1, PriceScaleAssumption DEF Uncounted
  <2> QED
    BY <1>1, <2>1, <2>2, <2>3, GatedBuyFits
<1> QED
  BY <1>2, <1>3

(* A part of a factor leaves out no more than the whole, or nothing. *)
LEMMA PartLeavesOutLess ==
    ASSUME NEW n \in Nat, NEW m \in Nat, n <= m, NEW s \in Nat, NEW p \in Nat
    PROVE  s * n <= n * p + m * (s - p) \/ s * n <= n * p + 0
<1>1. CASE s >= p
  <2>1. PICK u \in Nat, v \in Nat : s = p + u /\ m = n + v
    BY <1>1
  <2>2. s * n = n * p + n * u /\ m * (s - p) = n * u + v * u /\ v * u \in Nat
    BY <2>1
  <2>3. n * p \in Nat /\ n * u \in Nat
    OBVIOUS
  <2> QED
    BY <2>2, <2>3
<1>2. CASE s < p
  <2>1. PICK u \in Nat : p = s + u
    BY <1>2
  <2>2. n * p = s * n + n * u /\ n * u \in Nat /\ s * n \in Nat
    BY <2>1
  <2> QED
    BY <2>2
<1> QED
  BY <1>1, <1>2

(* An entry of the arena that buys. *)
LEMMA EntryFits ==
    ASSUME TypeOK, LimitsAsCreated, BudgetFixed, PctInv, Limited,
           NEW sig \in binding.signals, sig.side = "BUY",
           ~OverPositionPct(limits, capsule,
                            ArenaOrder(sig.symbol, sig.side, EntrySize(sig), sig.price))
    PROVE  Within(capsule.capital_deployed + EntrySize(sig))
<1> DEFINE o == ArenaOrder(sig.symbol, sig.side, EntrySize(sig), sig.price)
           full == ArenaOrder(sig.symbol, "BUY", Smaller(sig.size_usd, MaxTradeUsd), sig.price)
<1>1. PICK n \in Nat, m \in Nat :
         n = EntrySize(sig) /\ m = Smaller(sig.size_usd, MaxTradeUsd) /\ n <= m
  <2>1. sig.size_usd \in Nat /\ MaxTradeUsd \in Nat /\ capsule.capital_available \in Nat
    BY LedgerAssumption, Typed DEF TypeOK
  <2> QED
    BY <2>1 DEF EntrySize, Smaller
<1>2. sig.price \in Nat \ {0} /\ PriceScale \in Nat
  BY LedgerAssumption, PriceScaleAssumption DEF TypeOK
<1>3. o.side = "BUY" /\ o.size = n /\ o.price = sig.price
  BY <1>1 DEF ArenaOrder
<1>4. Uncounted(full) \in Overs /\ 0 \in Overs
  BY DEF Overs, DollarBuys
<1>5. Uncounted(full) = m * (PriceScale - sig.price)
  BY <1>1 DEF Uncounted, ArenaOrder
<1>6. \E over \in Overs : PriceScale * n <= n * sig.price + over
  BY <1>1, <1>2, <1>4, <1>5, PartLeavesOutLess
<1>7. ~OverPositionPct(limits, capsule, o)
  OBVIOUS
<1> HIDE DEF o
<1> QED
  BY <1>1, <1>2, <1>3, <1>6, <1>7, GatedBuyFits

LEMMA PctInit == Init => PctInv
<1> SUFFICES ASSUME Init
             PROVE  /\ capsule.capital_allocated = Allocated
                    /\ Limited => Within(capsule.capital_deployed)
  BY DEF PctInv
<1>1. capsule.capital_allocated = Allocated /\ capsule.capital_deployed = 0
  BY DEF Init, NewCapsule
<1>2. ASSUME Limited
      PROVE  Within(0)
  <2>1. limits.max_position_pct \in Nat /\ Allocated \in Nat /\ PriceScale \in Nat
    BY <1>2, LedgerAssumption, PriceScaleAssumption DEF Init, Limited
  <2>2. PriceScale * limits.max_position_pct * Allocated >= 0
    BY <2>1
  <2>3. 100 * PriceScale * 0 <= PriceScale * limits.max_position_pct * Allocated + 100 * 0
    BY <2>1, <2>2
  <2> QED
    BY <2>3 DEF Within, Overs
<1> QED
  BY <1>1, <1>2

(* What matters to the bound does not move with the rest. *)
LEMMA PctFrame ==
    ASSUME binding' = binding, limits' = limits, BudgetFixed,
           capsule'.capital_allocated = Allocated,
           Limited => Within(capsule'.capital_deployed)
    PROVE  PctInv'
<1>1. Overs' = Overs
  BY DEF Overs, DollarBuys
<1>2. Limited' = Limited
  BY DEF Limited
<1> QED
  BY <1>1, <1>2 DEF PctInv, Within

LEMMA PctStep ==
    ASSUME LedgerInv, PctInv, [Next]_vars
    PROVE  PctInv'
<1> SUFFICES ASSUME BudgetFixed
             PROVE  PctInv'
  BY DEF PctInv, BudgetFixed, Next, vars, history, ApiOrder, ArenaEntry, ArenaExit, ArenaFill,
         ArenaRefused, ApplyRiskBudget, Midnight, Book
<1> USE DEF LedgerInv
<1>1. /\ binding \in Bindings /\ capsule.capital_allocated = Allocated
      /\ Limited => Within(capsule.capital_deployed)
  BY DEF TypeOK, PctInv
<1>2. ASSUME NEW o \in binding.orders, ApiOrder(o)
      PROVE  PctInv'
  <2> DEFINE fill == FillOf(o)
  <2>1. /\ fill.qty \in Nat /\ fill.usd \in Nat
        /\ fill.side = o.side /\ fill.usd = UsdEquivalent(o)
    BY <1>1, LedgerAssumption, FillOfType DEF FillOf
  <2>2. /\ capsule' = ApplyFill(capsule, fill, today)
        /\ binding' = binding /\ limits' = limits
        /\ ~OverPositionPct(limits, capsule, o)
    BY <1>2 DEF ApiOrder, Book, CheckOrder
  <2>3. capsule'.capital_allocated = Allocated
    BY <1>1, <2>1, <2>2, Typed, ApplyFillColumns
  <2>4. Limited /\ o.side = "BUY" => Within(capsule.capital_deployed + fill.usd)
    BY <2>1, <2>2, ApiBuyFits
  <2> HIDE DEF fill
  <2>5. Limited => Within(capsule'.capital_deployed)
    BY <2>1, <2>2, <2>4, PctAfterFill
  <2> QED
    BY <2>2, <2>3, <2>5, PctFrame
<1>3. ASSUME NEW fill, NEW bought, NEW pnl \in AgentPnls, ArenaFill(fill, bought, pnl),
             fill.qty \in Nat, fill.usd \in Nat,
             Limited => fill.side # "BUY" \/ Within(capsule.capital_deployed + fill.usd)
      PROVE  PctInv'
  <2> DEFINE filled == ApplyFill(capsule, fill, today)
             spent == spentOn[today] + fill.usd
  <2>1. /\ capsule' = Refreshed(filled, pnl, spent)
        /\ binding' = binding /\ limits' = limits
    BY <1>3 DEF ArenaFill, Book
  <2>2. filled \in CapsuleRow /\ filled.capital_allocated = Allocated
    BY <1>1, <1>3, Typed, CapsuleAfterFill, ApplyFillColumns
  <2>3. pnl \in Int /\ spent \in Nat
    BY <1>3, LedgerAssumption, Typed DEF TypeOK
  <2> HIDE DEF spent
  <2>4. /\ capsule'.capital_allocated = Allocated
        /\ capsule'.capital_deployed = filled.capital_deployed
    BY <2>1, <2>2, <2>3, RefreshedColumns
  <2>5. Limited => Within(capsule'.capital_deployed)
    BY <1>3, <2>4, PctAfterFill
  <2> QED
    BY <2>1, <2>4, <2>5, PctFrame
<1>4. ASSUME NEW sig \in binding.signals, NEW pnl \in AgentPnls, ArenaEntry(sig, pnl)
      PROVE  PctInv'
  <2> DEFINE size == EntrySize(sig)
             fill == [side |-> sig.side, qty |-> size, usd |-> size]
  <2>1. ArenaFill(fill, TRUE, pnl)
    BY <1>4 DEF ArenaEntry
  <2>2. ~OverPositionPct(limits, capsule, ArenaOrder(sig.symbol, sig.side, size, sig.price))
    BY <1>4 DEF ArenaEntry, CheckOrder
  <2>3. size \in Nat
    BY EntrySizeType
  <2>4. Limited => fill.side # "BUY" \/ Within(capsule.capital_deployed + fill.usd)
    BY <2>2, EntryFits
  <2>5. fill.qty \in Nat /\ fill.usd \in Nat
    BY <2>3
  <2> HIDE DEF fill
  <2> QED
    BY <1>3, <2>1, <2>4, <2>5
<1>5. ASSUME NEW token \in Tokens, NEW price \in ExitPrices, NEW pnl \in AgentPnls,
             ArenaExit(token, price, pnl)
      PROVE  PctInv'
  <2> DEFINE order == ArenaOrder(token, "SELL", holdings[token], price)
             fill == FillOf(order)
  <2>1. ArenaFill(fill, FALSE, pnl)
    BY <1>5 DEF ArenaExit
  <2>2. order.size \in Nat /\ order.price \in Nat /\ order.side = "SELL"
    BY LedgerAssumption DEF ArenaOrder, TypeOK
  <2> HIDE DEF order
  <2>3. fill.qty \in Nat /\ fill.usd \in Nat /\ fill.side = "SELL"
    BY <2>2, FillOfType DEF FillOf
  <2> HIDE DEF fill
  <2> QED
    BY <1>3, <2>1, <2>3
<1>6. ASSUME NEW pnl \in AgentPnls, ArenaRefused(pnl)
      PROVE  PctInv'
  <2>1. pnl \in Int /\ spentOn[today] \in Nat
    BY LedgerAssumption, Typed DEF TypeOK
  <2>2. /\ capsule'.capital_allocated = capsule.capital_allocated
        /\ capsule'.capital_deployed = capsule.capital_deployed
    BY <1>6, <2>1, Typed, RefreshedColumns DEF ArenaRefused
  <2>3. binding' = binding /\ limits' = limits
    BY <1>6 DEF ArenaRefused
  <2> QED
    BY <1>1, <2>2, <2>3, PctFrame
<1>7. CASE Midnight \/ UNCHANGED vars
  <2>1. binding' = binding /\ limits' = limits /\ capsule' = capsule
    BY <1>7 DEF Midnight, vars
  <2> QED
    BY <1>1, <2>1, PctFrame
<1> QED
  BY <1>2, <1>4, <1>5, <1>6, <1>7 DEF Next, BudgetFixed

(* Whatever the sequence of orders, and whoever sends them, a capsule has never
   more deployed than max_position_pct of its capital and the part of a single
   buy on a real venue that the gate does not count; on the simulator, where
   there is none, never more than max_position_pct. *)
THEOREM PctBounds == Spec => []PctOvershootBounded
<1>1. Init => LedgerInv /\ PctInv
  BY LedgerInit, PctInit
<1>2. (LedgerInv /\ PctInv) /\ [Next]_vars => (LedgerInv /\ PctInv)'
  BY LedgerStep, PctStep
<1>3. PctInv => PctOvershootBounded
  BY DEF PctInv, PctOvershootBounded, Limited, Within, Overs
<1> QED
  BY <1>1, <1>2, <1>3, PTL DEF Spec
=============================================================================
