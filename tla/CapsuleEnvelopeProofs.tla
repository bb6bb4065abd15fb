------------------------- MODULE CapsuleEnvelopeProofs -------------------------
(***************************************************************************)
(* What one fill does to a capsule row, column by column: the lemmas that  *)
(* the proofs about ExecutionRouter and CapsuleLedger share.               *)
(***************************************************************************)
EXTENDS CapsuleEnvelope, TLAPS

(* What a filled order was worth is a natural number. *)
LEMMA FillOfType ==
    ASSUME NEW o, o.size \in Nat, o.price \in Nat
    PROVE  FillOf(o).qty \in Nat /\ FillOf(o).usd \in Nat
<1>1. PriceScale \in Nat \ {0}
  BY PriceScaleAssumption
<1>2. ASSUME NEW a \in Nat, NEW b \in Nat
      PROVE  a * b \in Nat
  BY <1>2
<1>3. ASSUME NEW a \in Nat, NEW b \in Nat \ {0}
      PROVE  a \div b \in Nat
  BY <1>3
<1>4. o.size * o.price \in Nat
  BY <1>2
<1>5. (o.size * o.price) \div PriceScale \in Nat
  BY <1>1, <1>3, <1>4
<1> QED
  BY <1>5 DEF FillOf, UsdEquivalent

(* A clamped number is a natural number. *)
LEMMA AtLeastZeroType == \A n \in Int : AtLeastZero(n) \in Nat
BY DEF AtLeastZero

(* The three branches of the journal keep a capsule row a capsule row. *)
LEMMA RollDayType ==
    ASSUME NEW c \in CapsuleRow, NEW today \in Nat
    PROVE  RollDay(c, today) \in CapsuleRow
<1>1. ASSUME NEW d \in Nat \cup {NoDate}, NEW pnl \in Int, NEW n \in Nat
      PROVE  /\ [c EXCEPT !.daily_pnl_reset_date = d] \in CapsuleRow
             /\ [c EXCEPT !.daily_pnl_reset_date = d, !.daily_pnl = pnl, !.trades_today = n]
                    \in CapsuleRow
  BY DEF CapsuleRow
<1>2. today \in Nat \cup {NoDate} /\ 0 \in Int /\ 0 \in Nat
  OBVIOUS
<1>3. /\ [c EXCEPT !.daily_pnl_reset_date = today] \in CapsuleRow
      /\ [c EXCEPT !.daily_pnl_reset_date = today, !.daily_pnl = 0, !.trades_today = 0]
             \in CapsuleRow
  BY <1>1, <1>2, Zenon
<1> QED
  BY <1>3, Zenon DEF RollDay

LEMMA BoughtType ==
    ASSUME NEW c \in CapsuleRow, NEW fill, fill.qty \in Nat, fill.usd \in Nat
    PROVE  Bought(c, fill) \in CapsuleRow
<1>1. /\ c.open_position_qty + fill.qty \in Nat
      /\ c.open_position_cost + fill.usd \in Int
      /\ AtLeastZero(c.capital_deployed + fill.usd) \in Nat
      /\ (IF c.open_position_qty = 0 THEN c.open_positions + 1 ELSE c.open_positions) \in Nat
  BY AtLeastZeroType DEF CapsuleRow
<1> QED
  BY <1>1 DEF Bought, CapsuleRow

LEMMA CostClosedType ==
    ASSUME NEW c \in CapsuleRow, NEW qty \in Nat
    PROVE  CostClosed(c, qty) \in Int
<1>1. c.open_position_qty \in Nat /\ c.open_position_cost \in Int
  BY DEF CapsuleRow
<1>2. Smaller(qty, c.open_position_qty) \in Nat
  BY <1>1 DEF Smaller
<1>3. c.open_position_cost * Smaller(qty, c.open_position_qty) \in Int
  BY <1>1, <1>2
<1>4. ASSUME NEW a \in Int, NEW b \in Nat \ {0}
      PROVE  a \div b \in Int
  BY <1>4
<1> QED
  BY <1>1, <1>3, <1>4 DEF CostClosed

LEMMA SoldType ==
    ASSUME NEW c \in CapsuleRow, NEW fill, fill.qty \in Nat, fill.usd \in Nat
    PROVE  Sold(c, fill) \in CapsuleRow
<1> DEFINE cost == CostClosed(c, fill.qty)
           leftOver == c.open_position_qty - Smaller(fill.qty, c.open_position_qty)
<1>1. cost \in Int
  BY CostClosedType
<1>2. leftOver \in Nat
  BY DEF CapsuleRow, Smaller
<1> HIDE DEF cost, leftOver
<1>3. /\ c.open_position_cost - cost \in Int
      /\ AtLeastZero(c.capital_deployed - cost) \in Nat
      /\ (IF leftOver = 0 THEN AtLeastZero(c.open_positions - 1) ELSE c.open_positions) \in Nat
      /\ c.current_pnl + (fill.usd - cost) \in Int
      /\ c.daily_pnl + (fill.usd - cost) \in Int
  BY <1>1, AtLeastZeroType DEF CapsuleRow
<1>4. [c EXCEPT !.open_position_qty  = leftOver,
                !.open_position_cost = @ - cost,
                !.capital_deployed   = AtLeastZero(@ - cost),
                !.open_positions     = IF leftOver = 0 THEN AtLeastZero(@ - 1) ELSE @,
                !.current_pnl        = @ + (fill.usd - cost),
                !.daily_pnl          = @ + (fill.usd - cost)] \in CapsuleRow
  BY <1>2, <1>3 DEF CapsuleRow
<1> QED
  BY <1>4 DEF Sold, cost, leftOver

LEMMA ApplyFillType ==
    ASSUME NEW c \in CapsuleRow, NEW fill, NEW today \in Nat,
           fill.qty \in Nat, fill.usd \in Nat
    PROVE  ApplyFill(c, fill, today) \in CapsuleRow
<1> DEFINE rolled == RollDay(c, today)
           moved == IF fill.side = "BUY" THEN Bought(rolled, fill) ELSE Sold(rolled, fill)
<1>1. rolled \in CapsuleRow
  BY RollDayType
<1>2. moved \in CapsuleRow
  BY <1>1, BoughtType, SoldType
<1> HIDE DEF moved
<1>3. /\ moved.trades_today + 1 \in Nat
      /\ AtLeastZero(c.capital_allocated - moved.capital_deployed) \in Nat
  BY <1>2, AtLeastZeroType DEF CapsuleRow
<1>4. [moved EXCEPT !.trades_today      = @ + 1,
                    !.capital_available = AtLeastZero(c.capital_allocated - moved.capital_deployed)]
          \in CapsuleRow
  BY <1>2, <1>3 DEF CapsuleRow
<1> QED
  BY <1>4 DEF ApplyFill, moved

-----------------------------------------------------------------------------
(* The columns of a row after a fill. *)

(* The proportional share of a cost is between nothing and all of it. *)
LEMMA ShareOf ==
    ASSUME NEW cost \in Nat, NEW qty \in Nat \ {0}, NEW part \in 0..qty
    PROVE  (cost * part) \div qty \in 0..cost
<1> DEFINE p == cost * part
           d == p \div qty
<1>1. p \in Nat
  BY DEF p
<1>2. p <= cost * qty
  BY DEF p
<1> HIDE DEF p
<1>3. d \in Nat /\ qty * d <= p
  BY <1>1
<1>4. d <= cost
  <2>1. SUFFICES ASSUME d >= cost + 1
                 PROVE  FALSE
    BY <1>3
  <2> HIDE DEF d
  <2>2. qty * d >= qty * (cost + 1)
    BY <1>3, <2>1
  <2>3. qty * (cost + 1) = cost * qty + qty
    OBVIOUS
  <2> QED
    BY <1>1, <1>2, <1>3, <2>2, <2>3
<1> QED
  BY <1>3, <1>4 DEF p

(* Selling releases a part of the cost basis, never more than there is. *)
LEMMA CostClosedBounded ==
    ASSUME NEW c \in CapsuleRow, NEW qty \in Nat, c.open_position_cost \in Nat
    PROVE  CostClosed(c, qty) \in 0..c.open_position_cost
<1>1. c.open_position_qty \in Nat
  BY DEF CapsuleRow
<1>2. Smaller(qty, c.open_position_qty) \in 0..c.open_position_qty
  BY <1>1 DEF Smaller
<1> QED
  BY <1>1, <1>2, ShareOf DEF CostClosed

\* What a fill adds to the pnl of a capsule.
Gain(c, fill) == IF fill.side = "BUY" THEN 0 ELSE fill.usd - CostClosed(c, fill.qty)

\* What a fill adds to the cost basis of a capsule.
CostAdded(c, fill) == IF fill.side = "BUY" THEN fill.usd ELSE -CostClosed(c, fill.qty)

\* Whether the capsule's book day is over: NoDate means it never had one.
DayOver(c, today) == c.daily_pnl_reset_date \notin {NoDate, today}

(* Rolling the day touches the counters of the day and nothing else. *)
LEMMA RollDayColumns ==
    ASSUME NEW c \in CapsuleRow, NEW today \in Nat
    PROVE  LET r == RollDay(c, today)
           IN  /\ r.daily_pnl_reset_date = today
               /\ r.trades_today = (IF DayOver(c, today) THEN 0 ELSE c.trades_today)
               /\ r.daily_pnl = (IF DayOver(c, today) THEN 0 ELSE c.daily_pnl)
               /\ r.current_pnl = c.current_pnl
               /\ r.capital_allocated = c.capital_allocated
               /\ r.capital_deployed = c.capital_deployed
               /\ r.open_position_qty = c.open_position_qty
               /\ r.open_position_cost = c.open_position_cost
BY DEF RollDay, DayOver, CapsuleRow

(* What applyFillToCapsule makes of each column the proofs speak of. *)
LEMMA ApplyFillColumns ==
    ASSUME NEW c \in CapsuleRow, NEW fill, NEW today \in Nat,
           fill.qty \in Nat, fill.usd \in Nat
    PROVE  LET r == ApplyFill(c, fill, today)
           IN  /\ r.daily_pnl_reset_date = today
               /\ r.trades_today = (IF DayOver(c, today) THEN 0 ELSE c.trades_today) + 1
               /\ r.daily_pnl = (IF DayOver(c, today) THEN 0 ELSE c.daily_pnl) + Gain(c, fill)
               /\ r.current_pnl = c.current_pnl + Gain(c, fill)
               /\ r.capital_allocated = c.capital_allocated
               /\ r.capital_deployed = AtLeastZero(c.capital_deployed + CostAdded(c, fill))
               /\ r.open_position_cost = c.open_position_cost + CostAdded(c, fill)
<1> DEFINE rolled == RollDay(c, today)
           moved == IF fill.side = "BUY" THEN Bought(rolled, fill) ELSE Sold(rolled, fill)
           r == ApplyFill(c, fill, today)
           cost == CostClosed(c, fill.qty)
<1>1. rolled \in CapsuleRow
  BY RollDayType
<1>2. CostClosed(rolled, fill.qty) = cost
  BY RollDayColumns DEF CostClosed
<1>3. cost \in Int
  BY CostClosedType
<1>4. /\ moved.daily_pnl_reset_date = rolled.daily_pnl_reset_date
      /\ moved.trades_today = rolled.trades_today
      /\ moved.daily_pnl = rolled.daily_pnl + Gain(c, fill)
      /\ moved.current_pnl = rolled.current_pnl + Gain(c, fill)
      /\ moved.capital_allocated = rolled.capital_allocated
      /\ moved.capital_deployed = AtLeastZero(rolled.capital_deployed + CostAdded(c, fill))
      /\ moved.open_position_cost = rolled.open_position_cost + CostAdded(c, fill)
  <2> HIDE DEF rolled, cost
  <2>1. CASE fill.side = "BUY"
    <3>1. moved = Bought(rolled, fill)
      BY <2>1
    <3> QED
      BY <1>1, <2>1, <3>1 DEF Bought, CapsuleRow, Gain, CostAdded
  <2>2. CASE fill.side # "BUY"
    <3>1. moved = Sold(rolled, fill)
      BY <2>2
    <3>2. Gain(c, fill) = fill.usd - cost /\ CostAdded(c, fill) = -cost
      BY <2>2 DEF Gain, CostAdded, cost
    <3>3. /\ moved.daily_pnl_reset_date = rolled.daily_pnl_reset_date
          /\ moved.trades_today = rolled.trades_today
          /\ moved.capital_allocated = rolled.capital_allocated
      BY <1>1, <3>1 DEF Sold, CapsuleRow
    <3>4. /\ moved.daily_pnl = rolled.daily_pnl + (fill.usd - cost)
          /\ moved.current_pnl = rolled.current_pnl + (fill.usd - cost)
      BY <1>1, <1>2, <3>1 DEF Sold, CapsuleRow
    <3>5. /\ moved.capital_deployed = AtLeastZero(rolled.capital_deployed - cost)
          /\ moved.open_position_cost = rolled.open_position_cost - cost
      BY <1>1, <1>2, <3>1 DEF Sold, CapsuleRow
    <3>6. /\ rolled.capital_deployed - cost = rolled.capital_deployed + (-cost)
          /\ rolled.open_position_cost - cost = rolled.open_position_cost + (-cost)
      BY <1>1, <1>3 DEF CapsuleRow
    <3> QED
      BY <3>2, <3>3, <3>4, <3>5, <3>6
  <2> QED
    BY <2>1, <2>2
<1>5. moved \in CapsuleRow
  BY <1>1, BoughtType, SoldType
<1> HIDE DEF moved
<1>6. /\ r.daily_pnl_reset_date = moved.daily_pnl_reset_date
      /\ r.trades_today = moved.trades_today + 1
      /\ r.daily_pnl = moved.daily_pnl
      /\ r.current_pnl = moved.current_pnl
      /\ r.capital_allocated = moved.capital_allocated
      /\ r.capital_deployed = moved.capital_deployed
      /\ r.open_position_cost = moved.open_position_cost
  BY <1>5 DEF ApplyFill, CapsuleRow, moved
<1> HIDE DEF rolled, r
<1> QED
  BY <1>4, <1>6, RollDayColumns DEF rolled, r
=============================================================================
