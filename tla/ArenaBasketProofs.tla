--------------------------- MODULE ArenaBasketProofs ---------------------------
(***************************************************************************)
(* Theorems about ArenaBasket, for any agents, tick processes, markets,    *)
(* quotes and stakes, and any number of deaths.                            *)
(***************************************************************************)
EXTENDS ArenaBasket, FiniteSums, SequenceTheorems, TLAPS

-----------------------------------------------------------------------------
(* Money. *)

(* A quotient of integers is an integer, whatever the sign of the divisor. *)
LEMMA PartType ==
    ASSUME NEW n \in Int, NEW d \in Int, d # 0
    PROVE  Part(n, d) \in Int
<1>1. CASE d < 0
  <2>1. PICK k \in Int, e \in Int : k = -n /\ e = -d /\ e > 0
    BY <1>1
  <2>2. k \div e \in Int
    BY <2>1
  <2> QED
    BY <1>1, <2>1, <2>2 DEF Part
<1>2. CASE ~(d < 0)
  <2>1. d > 0
    BY <1>2
  <2>2. n \div d \in Int
    BY <2>1
  <2> QED
    BY <1>2, <2>2 DEF Part
<1> QED
  BY <1>1, <1>2

(* A multiple of the divisor bounds the quotient from below. *)
LEMMA PartAtLeast ==
    ASSUME NEW n \in Int, NEW d \in Int, d > 0, NEW k \in Int, k * d <= n
    PROVE  Part(n, d) >= k
<1>1. Part(n, d) = n \div d
  BY DEF Part
<1>2. PICK q \in Int, r \in Int : q = n \div d /\ n = d * q + r /\ 0 <= r /\ r < d
  BY ONLY n \in Int, d \in Int, d > 0
<1>3. k * d < (q + 1) * d
  BY <1>2
<1>4. k < q + 1
  BY ONLY <1>3, k \in Int, q \in Int, d \in Int, d > 0
<1> QED
  BY <1>1, <1>2, <1>4

(* What the prices of a position divide by is never 0. *)
LEMMA Divisors ==
    ASSUME BasketAssumption, NEW pos \in Position
    PROVE  pos.px \in Nat /\ pos.px > 0 /\ Unit - pos.px \in Int /\ Unit - pos.px # 0
           /\ (pos.m \in Binaries => Unit - pos.px > 0)
<1>1. pos.px \in EntryAt[pos.m] /\ pos.px \in Nat /\ pos.m \in Markets
  BY DEF Position
<1>2. CASE pos.m \in Binaries
  <2>1. pos.px \in 1..(Unit - 1)
    BY <1>1, <1>2 DEF BasketAssumption
  <2> QED
    BY <1>1, <2>1 DEF BasketAssumption
<1>3. CASE pos.m \in Spots
  <2>1. pos.px > Unit
    BY <1>1, <1>3 DEF BasketAssumption
  <2>2. pos.m \notin Binaries
    BY <1>3 DEF BasketAssumption
  <2> QED
    BY <1>1, <2>1, <2>2 DEF BasketAssumption
<1> QED
  BY <1>1, <1>2, <1>3 DEF Markets

(* Gains, fees, payouts and fills are amounts. *)
LEMMA AmountTypes ==
    ASSUME BasketAssumption, NEW pos \in Position
    PROVE  /\ \A px \in Int : Gain(pos, px) \in Int
           /\ FeeOn(pos.m, pos.size) \in Int
           /\ Payout(pos) \in Int /\ Filled(pos) \in Int
<1>1. /\ pos.px \in Int /\ pos.px # 0 /\ Unit - pos.px \in Int /\ Unit - pos.px # 0
      /\ pos.size \in Int /\ pos.paid \in Int /\ pos.shares \in Int /\ Unit \in Int /\ FeeBps \in Int
  BY Divisors DEF Position, BasketAssumption
<1>2. ASSUME NEW px \in Int
      PROVE  Gain(pos, px) \in Int
  <2>1. pos.size * (px - pos.px) \in Int /\ pos.size * (pos.px - px) \in Int
    BY <1>1
  <2> QED
    BY <1>1, <2>1, PartType DEF Gain
<1>3. FeeOn(pos.m, pos.size) \in Int
  BY <1>1, PartType DEF FeeOn
<1>4. Payout(pos) \in Int /\ Filled(pos) \in Int
  <2>1. pos.paid * Unit \in Int
    BY <1>1
  <2>2. Part(pos.paid * Unit, pos.px) \in Int /\ Part(pos.paid * Unit, Unit - pos.px) \in Int
    BY <1>1, <2>1, PartType
  <2> QED
    BY <1>1, <2>2 DEF Payout, Filled
<1> QED
  BY <1>2, <1>3, <1>4

-----------------------------------------------------------------------------
(* Baskets. *)

(* Where a basket's position on a market is. *)
LEMMA IndexOfHeld ==
    ASSUME NEW r, r.pos \in Basket, NEW m
    PROVE  /\ Holds(r, m) <=> m \in HeldMarkets(r)
           /\ Holds(r, m) => IndexOf(r, m) \in DOMAIN r.pos /\ r.pos[IndexOf(r, m)].m = m
<1> DEFINE I == {i \in 1..Len(r.pos) : r.pos[i].m = m}
<1>1. IndexOf(r, m) = IF I # {} THEN Min(I) ELSE 0
  BY DEF IndexOf, SelectInSeq
<1>2. r.pos \in Seq(Position) /\ DOMAIN r.pos = 1..Len(r.pos) /\ Len(r.pos) \in Nat
  BY DEF Basket
<1>3. I # {} => Min(I) \in I
  <2>1. IsFiniteSet(I) /\ \A i \in I : i \in Int
    <3>1. IsFiniteSet(1..Len(r.pos)) /\ I \subseteq 1..Len(r.pos)
      BY <1>2, FS_Interval
    <3> QED
      BY <3>1, FS_Subset
  <2> HIDE DEF I
  <2> QED
    BY <2>1, MinOfFinite
<1>4. I # {} <=> m \in HeldMarkets(r)
  BY <1>2 DEF HeldMarkets
<1>5. \A i \in I : i \in DOMAIN r.pos /\ i # 0 /\ r.pos[i].m = m
  BY <1>2
<1> HIDE DEF I
<1>6. Holds(r, m) <=> I # {}
  BY <1>1, <1>3, <1>5 DEF Holds
<1> QED
  BY <1>1, <1>3, <1>4, <1>5, <1>6

(* A position removed: the others stay, in their order. *)
LEMMA Removed ==
    ASSUME NEW S, NEW s \in Seq(S), NEW i \in 1..Len(s)
    PROVE  /\ RemoveAt(s, i) \in Seq(S) /\ Len(RemoveAt(s, i)) = Len(s) - 1
           /\ \A j \in 1..(Len(s) - 1) :
                 RemoveAt(s, i)[j] = IF j < i THEN s[j] ELSE s[j + 1]
<1>1. /\ SubSeq(s, 1, i - 1) \in Seq(S) /\ Len(SubSeq(s, 1, i - 1)) = i - 1
      /\ \A j \in 1..(i - 1) : SubSeq(s, 1, i - 1)[j] = s[j]
  OBVIOUS
<1>2. /\ SubSeq(s, i + 1, Len(s)) \in Seq(S) /\ Len(SubSeq(s, i + 1, Len(s))) = Len(s) - i
      /\ \A j \in 1..(Len(s) - i) : SubSeq(s, i + 1, Len(s))[j] = s[i + j]
  OBVIOUS
<1> DEFINE a == SubSeq(s, 1, i - 1)
           b == SubSeq(s, i + 1, Len(s))
<1>3. a \in Seq(S) /\ b \in Seq(S) /\ Len(a) = i - 1 /\ Len(b) = Len(s) - i
  BY <1>1, <1>2
<1>4. RemoveAt(s, i) = a \o b
  BY DEF RemoveAt
<1> HIDE DEF a, b
<1>5. /\ a \o b \in Seq(S) /\ Len(a \o b) = Len(a) + Len(b)
      /\ \A j \in 1..(Len(a) + Len(b)) :
            (a \o b)[j] = IF j <= Len(a) THEN a[j] ELSE b[j - Len(a)]
  BY <1>3, ConcatProperties
<1>6. i \in Int /\ Len(s) \in Nat /\ 1 <= i /\ i <= Len(s)
  OBVIOUS
<1>7. ASSUME NEW j \in 1..(Len(s) - 1)
      PROVE  RemoveAt(s, i)[j] = IF j < i THEN s[j] ELSE s[j + 1]
  <2>1. CASE j < i
    <3>1. j \in 1..(i - 1) /\ j <= Len(a) /\ j \in 1..(Len(a) + Len(b))
      BY <1>3, <1>6, <2>1
    <3> QED
      BY <1>1, <1>4, <1>5, <2>1, <3>1 DEF a
  <2>2. CASE ~(j < i)
    <3>1. j - (i - 1) \in 1..(Len(s) - i) /\ ~(j <= Len(a)) /\ j \in 1..(Len(a) + Len(b))
      BY <1>3, <1>6, <2>2
    <3>2. (a \o b)[j] = b[j - (i - 1)]
      BY <1>3, <1>5, <3>1
    <3>3. i + (j - (i - 1)) = j + 1
      BY <1>6
    <3> QED
      BY <1>2, <1>4, <2>2, <3>1, <3>2, <3>3 DEF b
  <2> QED
    BY <2>1, <2>2
<1> QED
  BY <1>3, <1>4, <1>5, <1>6, <1>7

(* A basket without one of its positions. *)
LEMMA BasketRemoved ==
    ASSUME NEW s \in Basket, NEW k \in DOMAIN s
    PROVE  /\ RemoveAt(s, k) \in Basket
           /\ \A x : (\E i \in DOMAIN RemoveAt(s, k) : RemoveAt(s, k)[i] = x)
                       <=> (\E i \in DOMAIN s : s[i] = x) /\ x # s[k]
<1>1. /\ s \in Seq(Position) /\ DOMAIN s = 1..Len(s) /\ Len(s) \in Nat
      /\ \A i, j \in DOMAIN s : s[i].m = s[j].m => i = j
  BY DEF Basket
<1>2. k \in 1..Len(s) /\ k \in Int
  BY <1>1
<1>0. PICK t : t = RemoveAt(s, k)
  OBVIOUS
<1>3. /\ t \in Seq(Position) /\ Len(t) = Len(s) - 1
      /\ \A j \in 1..(Len(s) - 1) : t[j] = IF j < k THEN s[j] ELSE s[j + 1]
  <2>1. s \in Seq(Position) /\ k \in 1..Len(s)
    BY <1>1, <1>2
  <2> QED
    BY <1>0, <2>1, Removed
<1>4. DOMAIN t = 1..(Len(s) - 1)
  BY <1>1, <1>3
<1>5. ASSUME NEW j \in DOMAIN t
      PROVE  \E i \in DOMAIN s : i # k /\ t[j] = s[i] /\ i = IF j < k THEN j ELSE j + 1
  <2>1. (IF j < k THEN j ELSE j + 1) \in DOMAIN s /\ (IF j < k THEN j ELSE j + 1) # k
    BY <1>1, <1>2, <1>4
  <2> QED
    BY <1>3, <1>4, <2>1
<1>6. ASSUME NEW i \in DOMAIN s, i # k
      PROVE  \E j \in DOMAIN t : t[j] = s[i]
  <2>1. CASE i < k
    <3>1. i \in DOMAIN t
      BY <1>1, <1>2, <1>4, <2>1
    <3> QED
      BY <1>3, <1>4, <2>1, <3>1
  <2>2. CASE ~(i < k)
    <3>1. i - 1 \in DOMAIN t /\ ~(i - 1 < k) /\ (i - 1) + 1 = i
      BY <1>1, <1>2, <1>4, <1>6, <2>2
    <3> QED
      BY <1>3, <1>4, <3>1
  <2> QED
    BY <2>1, <2>2
<1>7. ASSUME NEW i \in DOMAIN t, NEW j \in DOMAIN t, t[i].m = t[j].m
      PROVE  i = j
  <2>1. PICK x \in DOMAIN s : t[i] = s[x] /\ x = IF i < k THEN i ELSE i + 1
    BY <1>5
  <2>2. PICK y \in DOMAIN s : t[j] = s[y] /\ y = IF j < k THEN j ELSE j + 1
    BY <1>5
  <2>3. x = y
    BY <1>1, <1>7, <2>1, <2>2
  <2> QED
    BY <1>1, <1>2, <1>4, <2>1, <2>2, <2>3
<1>8. t \in Basket
  BY <1>3, <1>7 DEF Basket
<1>9. \A i \in DOMAIN s : i # k => s[i] # s[k]
  BY <1>1, <1>2
<1>10. ASSUME NEW x
       PROVE  (\E i \in DOMAIN t : t[i] = x) <=> (\E i \in DOMAIN s : s[i] = x) /\ x # s[k]
  BY <1>5, <1>6, <1>9
<1> QED
  BY <1>0, <1>8, <1>10

(* A position is the one on its market. *)
LEMMA PositionIs ==
    ASSUME NEW r, r.pos \in Basket
    PROVE  /\ \A i \in DOMAIN r.pos : Holds(r, r.pos[i].m) /\ PositionOn(r, r.pos[i].m) = r.pos[i]
           /\ \A m \in HeldMarkets(r) : /\ PositionOn(r, m) \in Position /\ PositionOn(r, m).m = m
                                        /\ \E i \in DOMAIN r.pos : PositionOn(r, m) = r.pos[i]
<1>1. /\ r.pos \in Seq(Position)
      /\ \A i, j \in DOMAIN r.pos : r.pos[i].m = r.pos[j].m => i = j
  BY DEF Basket
<1>2. ASSUME NEW i \in DOMAIN r.pos
      PROVE  Holds(r, r.pos[i].m) /\ PositionOn(r, r.pos[i].m) = r.pos[i]
  <2>1. Holds(r, r.pos[i].m)
    BY IndexOfHeld DEF HeldMarkets
  <2>2. IndexOf(r, r.pos[i].m) \in DOMAIN r.pos /\ r.pos[IndexOf(r, r.pos[i].m)].m = r.pos[i].m
    BY <2>1, IndexOfHeld
  <2> QED
    BY <1>1, <2>1, <2>2 DEF PositionOn
<1>3. \A i \in DOMAIN r.pos : r.pos[i] \in Position
  BY <1>1
<1> QED
  BY <1>2, <1>3 DEF HeldMarkets

Positions(r) == {r.pos[i] : i \in DOMAIN r.pos}

(* A row without its position on m. *)
LEMMA RowExited ==
    ASSUME NEW r \in Row, NEW m, Holds(r, m), NEW back \in Int, NEW realized \in Int,
           NEW q, q = Exited(r, m, back, realized)
    PROVE  /\ q \in Row
           /\ q.cash = r.cash + back /\ q.realized = r.realized + realized
           /\ q.trades = r.trades + 1 /\ q.entries = r.entries
           /\ q.wins = IF realized > 0 THEN r.wins + 1 ELSE r.wins
           /\ Positions(q) = Positions(r) \ {PositionOn(r, m)} /\ PositionOn(r, m) \in Positions(r)
           /\ HeldMarkets(q) = HeldMarkets(r) \ {m} /\ m \in HeldMarkets(r)
           /\ \A x \in HeldMarkets(q) : PositionOn(q, x) = PositionOn(r, x)
<1>1. /\ r.cash \in Int /\ r.pos \in Basket /\ r.realized \in Int /\ r.trades \in Nat
      /\ r.wins \in Nat /\ r.wins <= r.trades /\ r.entries \in 0..MaxEntries
      /\ r = [cash |-> r.cash, pos |-> r.pos, realized |-> r.realized, trades |-> r.trades,
              wins |-> r.wins, entries |-> r.entries]
  BY DEF Row
<1>2. IndexOf(r, m) \in DOMAIN r.pos /\ m \in HeldMarkets(r) /\ PositionOn(r, m).m = m
  BY <1>1, IndexOfHeld DEF PositionOn
<1>3. q = [cash |-> r.cash + back, pos |-> RemoveAt(r.pos, IndexOf(r, m)),
           realized |-> r.realized + realized, trades |-> r.trades + 1,
           wins |-> IF realized > 0 THEN r.wins + 1 ELSE r.wins, entries |-> r.entries]
  BY <1>1 DEF Exited
<1>4. q.pos \in Basket /\ q.pos = RemoveAt(r.pos, IndexOf(r, m))
  BY <1>1, <1>2, <1>3, BasketRemoved
<1>5. \A x : (\E i \in DOMAIN q.pos : q.pos[i] = x)
               <=> (\E i \in DOMAIN r.pos : r.pos[i] = x) /\ x # PositionOn(r, m)
  <2>1. PICK s \in Basket : s = r.pos
    BY <1>1
  <2>4. PICK k \in DOMAIN s : k = IndexOf(r, m)
    BY <1>2, <2>1
  <2>2. \A x : (\E i \in DOMAIN RemoveAt(s, k) : RemoveAt(s, k)[i] = x)
                 <=> (\E i \in DOMAIN s : s[i] = x) /\ x # s[k]
    BY BasketRemoved
  <2>3. PositionOn(r, m) = s[k] /\ q.pos = RemoveAt(s, k)
    BY <1>4, <2>1, <2>4 DEF PositionOn
  <2> QED
    BY <2>1, <2>2, <2>3
<1>6. q \in Row
  BY <1>1, <1>3, <1>4 DEF Row
<1>7. ASSUME NEW x
      PROVE  x \in HeldMarkets(q) <=> x \in HeldMarkets(r) \ {m}
  <2>1. ASSUME NEW i \in DOMAIN r.pos, r.pos[i].m = m
        PROVE  r.pos[i] = PositionOn(r, m)
    BY <1>1, <2>1, PositionIs
  <2>2. ASSUME x \in HeldMarkets(q)
        PROVE  x \in HeldMarkets(r) \ {m}
    <3>1. PICK i \in DOMAIN q.pos : q.pos[i].m = x
      BY <2>2 DEF HeldMarkets
    <3>2. PICK j \in DOMAIN r.pos : r.pos[j] = q.pos[i] /\ q.pos[i] # PositionOn(r, m)
      BY <1>5
    <3> QED
      BY <2>1, <3>1, <3>2 DEF HeldMarkets
  <2>3. ASSUME x \in HeldMarkets(r), x # m
        PROVE  x \in HeldMarkets(q)
    <3>1. PICK i \in DOMAIN r.pos : r.pos[i].m = x
      BY <2>3 DEF HeldMarkets
    <3>2. PICK j \in DOMAIN q.pos : q.pos[j] = r.pos[i]
      BY <1>2, <1>5, <2>3, <3>1
    <3> QED
      BY <3>1, <3>2 DEF HeldMarkets
  <2> QED
    BY <2>2, <2>3
<1>8. ASSUME NEW x \in HeldMarkets(q)
      PROVE  PositionOn(q, x) = PositionOn(r, x)
  <2>1. PICK i \in DOMAIN q.pos : q.pos[i].m = x
    BY DEF HeldMarkets
  <2>2. PICK j \in DOMAIN r.pos : r.pos[j] = q.pos[i]
    BY <1>5
  <2>3. PositionOn(q, x) = q.pos[i] /\ PositionOn(r, x) = r.pos[j]
    BY <1>1, <1>4, <2>1, <2>2, PositionIs
  <2> QED
    BY <2>2, <2>3
<1>9. /\ q.cash = r.cash + back /\ q.realized = r.realized + realized
      /\ q.trades = r.trades + 1 /\ q.entries = r.entries
      /\ q.wins = IF realized > 0 THEN r.wins + 1 ELSE r.wins
  BY <1>3
<1>10. Positions(q) = Positions(r) \ {PositionOn(r, m)}
  BY <1>5 DEF Positions
<1>11. PositionOn(r, m) \in Positions(r)
  BY <1>2 DEF Positions, PositionOn
<1> QED
  BY <1>2, <1>6, <1>7, <1>8, <1>9, <1>10, <1>11

-----------------------------------------------------------------------------
(* Ways out of a position, and into one. *)

\* What a position on m may be closed at.
Quotes(m) == ExitAt[m] \cup (IF m \in Binaries THEN {0, Unit} ELSE {})

\* A trade closes the position on m: at a quote, or by paying out its shares.
Leaves(r, m, out) ==
    LET pos == PositionOn(r, m)
        t == out.trade
    IN  /\ Holds(r, m) /\ m \in Markets
        /\ t \in Trade /\ t.exit /\ t.id = pos.id /\ t.m = m /\ t.stake = pos.size
        /\ \/ t.gap = 0 /\ \E px \in Quotes(m) : t.realized = Gain(pos, px) - FeeOn(m, pos.size)
           \/ /\ m \in Binaries /\ pos.live
              /\ t.realized = Payout(pos) - pos.paid /\ t.gap = pos.size - pos.paid
        /\ out.row = Exited(r, m, pos.size + t.realized - t.gap, t.realized)

\* A trade opens a position, if there is cash for it and its fee.
Joins(r, pos, out) ==
    LET t == out.trade
    IN  /\ ~Holds(r, pos.m) /\ r.entries < MaxEntries
        /\ pos \in Position /\ pos.id = r.entries + 1 /\ pos.side \in Sides[pos.m]
        /\ pos.size = Least(Stake, r.cash) /\ pos.size + FeeOn(pos.m, pos.size) <= r.cash
        /\ pos.paid = (IF pos.live THEN Least(pos.size, LiveCap) ELSE 0) /\ pos.shares = 0
        /\ t \in Trade /\ ~t.exit /\ t.id = pos.id /\ t.m = pos.m /\ t.stake = pos.size
        /\ out.row = [r EXCEPT !.cash = @ - pos.size - FeeOn(pos.m, pos.size), !.entries = @ + 1,
                               !.pos = Append(@, pos)]

Moves(r, out) == (\E m : Leaves(r, m, out)) \/ (\E pos : Joins(r, pos, out))

(* The position on a market that a typed row holds. *)
LEMMA HeldPosition ==
    ASSUME NEW r \in Row, NEW m, Holds(r, m)
    PROVE  /\ PositionOn(r, m) \in Position /\ PositionOn(r, m).m = m
           /\ m \in HeldMarkets(r) /\ m \in Markets
           /\ \E i \in DOMAIN r.pos : PositionOn(r, m) = r.pos[i]
<1>1. r.pos \in Basket
  BY DEF Row
<1>2. m \in HeldMarkets(r)
  BY <1>1, IndexOfHeld
<1>3. \A pos \in Position : pos.m \in Markets
  BY DEF Position
<1> QED
  BY <1>1, <1>2, <1>3, PositionIs

(* An exit at a quote. *)
LEMMA ExitLeaves ==
    ASSUME BasketAssumption, NEW r \in Row, NEW m, Holds(r, m), NEW px \in Quotes(m),
           px \in Int, NEW live \in BOOLEAN
    PROVE  Leaves(r, m, Exit(r, m, px, live))
<1>1. PICK pos \in Position : pos = PositionOn(r, m)
  BY HeldPosition
<1>2. m \in Markets /\ pos.m = m
  BY <1>1, HeldPosition
<1>3. /\ pos.id \in 1..MaxEntries /\ pos.size \in {n \in Int : n <= Stake} /\ pos.size \in Int
      /\ Gain(pos, px) \in Int /\ FeeOn(m, pos.size) \in Int
  BY <1>2, AmountTypes DEF Position
<1>4. PICK g \in Int : g = Gain(pos, px) - FeeOn(m, pos.size)
  BY <1>3
<1>5. Exit(r, m, px, live) =
        [row |-> Exited(r, m, pos.size + g, g),
         trade |-> [id |-> pos.id, m |-> m, exit |-> TRUE, stake |-> pos.size,
                    realized |-> g, gap |-> 0, live |-> live]]
  BY <1>1, <1>4 DEF Exit
<1>6. pos.size + g - 0 = pos.size + g
  BY <1>3
<1>7. Exit(r, m, px, live).trade \in Trade
  BY <1>2, <1>3, <1>5 DEF Trade
<1> QED
  BY <1>1, <1>2, <1>4, <1>5, <1>6, <1>7 DEF Leaves

(* A settlement. *)
LEMMA SettledLeaves ==
    ASSUME BasketAssumption, NEW r \in Row, NEW m \in Binaries, Holds(r, m)
    PROVE  Leaves(r, m, Settled(r, m))
<1>1. PICK pos \in Position : pos = PositionOn(r, m)
  BY HeldPosition
<1>2. m \in Markets /\ pos.m = m
  BY <1>1, HeldPosition
<1>3. /\ pos.id \in 1..MaxEntries /\ pos.size \in {n \in Int : n <= Stake} /\ pos.size \in Int
      /\ Payout(pos) \in Int /\ pos.paid \in Int
  BY <1>2, AmountTypes DEF Position
<1>4. CASE pos.live
  <2>1. PICK g \in Int, n \in Int : g = Payout(pos) - pos.paid /\ n = pos.size - pos.paid
    BY <1>3
  <2>2. pos.size + g - n = Payout(pos)
    BY <1>3, <2>1
  <2>3. Settled(r, m) =
          [row |-> Exited(r, m, Payout(pos), g),
           trade |-> [id |-> pos.id, m |-> m, exit |-> TRUE, stake |-> pos.size,
                      realized |-> g, gap |-> n, live |-> TRUE]]
    BY <1>1, <1>4, <2>1 DEF Settled, SettledLive
  <2>4. Settled(r, m).trade \in Trade
    BY <1>2, <1>3, <2>3 DEF Trade
  <2> QED
    BY <1>1, <1>2, <1>4, <2>1, <2>2, <2>3, <2>4 DEF Leaves
<1>5. CASE ~pos.live
  <2>1. Outcome(m) \in Quotes(m) /\ Outcome(m) \in Int
    BY DEF Outcome, Quotes, BasketAssumption
  <2>2. Settled(r, m) = Exit(r, m, Outcome(m), FALSE)
    BY <1>1, <1>5 DEF Settled
  <2> QED
    BY <2>1, <2>2, ExitLeaves
<1> QED
  BY <1>4, <1>5

(* The signals of decide(), and their types. *)
LEMMA SignalTypes ==
    ASSUME BasketAssumption, NEW r \in Row, NEW sig \in Signals(r)
    PROVE  /\ sig \in Signal
           /\ sig.exit => Holds(r, sig.m)
           /\ ~sig.exit => /\ ~Holds(r, sig.m) /\ r.entries < MaxEntries
                           /\ sig.id = r.entries + 1 /\ sig.side \in Sides[sig.m]
                           /\ sig.size = Least(Stake, r.cash)
<1>1. r.pos \in Basket /\ r.pos \in Seq(Position) /\ r.cash \in Int /\ r.entries \in 0..MaxEntries
  BY DEF Row, Basket
<1>2. ASSUME sig \in Exits(r)
      PROVE  sig.exit /\ Holds(r, sig.m) /\ sig \in Signal
  <2>1. PICK i \in DOMAIN r.pos :
           sig = [exit |-> TRUE, id |-> r.pos[i].id, m |-> r.pos[i].m, side |-> r.pos[i].side,
                  size |-> r.pos[i].size]
    BY <1>2 DEF Exits, ToSet
  <2>2. r.pos[i] \in Position /\ Holds(r, r.pos[i].m)
    BY <1>1, PositionIs
  <2> QED
    BY <2>1, <2>2 DEF Signal, Position
<1>3. ASSUME sig \in Entries(r, {m \in Markets : ~Holds(r, m)})
      PROVE  /\ ~sig.exit /\ ~Holds(r, sig.m) /\ r.entries < MaxEntries
             /\ sig.id = r.entries + 1 /\ sig.side \in Sides[sig.m]
             /\ sig.size = Least(Stake, r.cash) /\ sig \in Signal
  <2>4. PICK m \in Markets : \E side \in Sides[m] :
           /\ ~Holds(r, m) /\ r.entries < MaxEntries
           /\ sig = [exit |-> FALSE, id |-> r.entries + 1, m |-> m, side |-> side,
                     size |-> Least(Stake, r.cash)]
    BY <1>3 DEF Entries
  <2>1. PICK side \in Sides[m] :
           /\ ~Holds(r, m) /\ r.entries < MaxEntries
           /\ sig = [exit |-> FALSE, id |-> r.entries + 1, m |-> m, side |-> side,
                     size |-> Least(Stake, r.cash)]
    BY <2>4
  <2>2. Least(Stake, r.cash) \in {n \in Int : n <= Stake}
    BY <1>1 DEF Least, BasketAssumption
  <2>3. r.entries + 1 \in 1..MaxEntries /\ side \in {"BUY", "SELL"}
    BY <1>1, <2>1 DEF BasketAssumption
  <2> QED
    BY <2>1, <2>2, <2>3 DEF Signal
<1> QED
  BY <1>2, <1>3 DEF Signals

(* An entry. *)
LEMMA EnteredJoins ==
    ASSUME BasketAssumption, NEW r \in Row, NEW sig \in Signals(r), ~sig.exit,
           NEW px \in EntryAt[sig.m], px \in Nat, NEW live \in BOOLEAN,
           ~(sig.size + FeeOn(sig.m, sig.size) > r.cash)
    PROVE  Joins(r, NewPosition(sig, px, live), Entered(r, sig, px, live))
<1>1. /\ sig \in Signal /\ ~Holds(r, sig.m) /\ r.entries < MaxEntries
      /\ sig.id = r.entries + 1 /\ sig.side \in Sides[sig.m] /\ sig.size = Least(Stake, r.cash)
  BY SignalTypes
<1>2. /\ sig.id \in 1..MaxEntries /\ sig.m \in Markets /\ sig.side \in {"BUY", "SELL"}
      /\ sig.size \in Int /\ sig.size <= Stake
  BY <1>1 DEF Signal
<1>3. PICK paid \in Int : paid <= LiveCap /\ paid = IF live THEN Least(sig.size, LiveCap) ELSE 0
  BY <1>2 DEF Least, BasketAssumption
<1>4. PICK pos : pos = [id |-> sig.id, m |-> sig.m, side |-> sig.side, size |-> sig.size,
                        px |-> px, live |-> live, paid |-> paid, shares |-> 0]
  OBVIOUS
<1>5. pos \in Position
  BY <1>2, <1>3, <1>4 DEF Position
<1>6. pos = NewPosition(sig, px, live)
  BY <1>3, <1>4 DEF NewPosition
<1>7. PICK t : t = [id |-> sig.id, m |-> sig.m, exit |-> FALSE, stake |-> sig.size,
                    realized |-> 0, gap |-> 0, live |-> live]
  OBVIOUS
<1>8. t \in Trade
  BY <1>2, <1>7 DEF Trade
<1>9. Entered(r, sig, px, live) =
        [row |-> [r EXCEPT !.cash = @ - sig.size - FeeOn(sig.m, sig.size), !.entries = @ + 1,
                           !.pos = Append(@, pos)],
         trade |-> t]
  BY <1>6, <1>7 DEF Entered
<1>10. FeeOn(sig.m, sig.size) \in Int /\ r.cash \in Int
  <2>1. FeeOn(pos.m, pos.size) \in Int
    BY <1>5, AmountTypes
  <2> QED
    BY <1>4, <2>1 DEF Row
<1>11. sig.size + FeeOn(sig.m, sig.size) <= r.cash
  BY <1>2, <1>10
<1>12. PICK out : out = Entered(r, sig, px, live)
  OBVIOUS
<1>13. /\ pos.id = sig.id /\ pos.m = sig.m /\ pos.side = sig.side /\ pos.size = sig.size
       /\ pos.live = live /\ pos.paid = paid /\ pos.shares = 0
  BY <1>4
<1>14. /\ out.trade = t /\ ~t.exit /\ t.id = sig.id /\ t.m = sig.m /\ t.stake = sig.size
       /\ out.row = [r EXCEPT !.cash = @ - pos.size - FeeOn(pos.m, pos.size), !.entries = @ + 1,
                              !.pos = Append(@, pos)]
  BY <1>7, <1>9, <1>12, <1>13
<1>15. Joins(r, pos, out)
  BY <1>1, <1>3, <1>5, <1>8, <1>11, <1>13, <1>14 DEF Joins
<1> QED
  BY <1>6, <1>12, <1>15

\* r with pos, paid for with its fee n.
GrownBy(r, pos, n, q) ==
    /\ q \in Row
    /\ q.cash = r.cash - pos.size - n /\ q.realized = r.realized
    /\ q.trades = r.trades /\ q.wins = r.wins /\ q.entries = r.entries + 1
    /\ Positions(q) = Positions(r) \cup {pos}
    /\ HeldMarkets(q) = HeldMarkets(r) \cup {pos.m} /\ pos.m \notin HeldMarkets(r)
    /\ PositionOn(q, pos.m) = pos
    /\ \A x \in HeldMarkets(r) : PositionOn(q, x) = PositionOn(r, x)

(* A row with one more position. *)
LEMMA RowEntered ==
    ASSUME BasketAssumption, NEW r \in Row, NEW pos \in Position, ~Holds(r, pos.m),
           r.entries < MaxEntries, NEW n \in Int,
           NEW q, q = [cash |-> r.cash - pos.size - n, pos |-> Append(r.pos, pos),
                       realized |-> r.realized, trades |-> r.trades, wins |-> r.wins,
                       entries |-> r.entries + 1]
    PROVE  GrownBy(r, pos, n, q)
<1>1. /\ r.cash \in Int /\ r.pos \in Basket /\ r.realized \in Int /\ r.trades \in Nat
      /\ r.wins \in Nat /\ r.wins <= r.trades /\ r.entries \in 0..MaxEntries
      /\ r = [cash |-> r.cash, pos |-> r.pos, realized |-> r.realized, trades |-> r.trades,
              wins |-> r.wins, entries |-> r.entries]
  BY DEF Row
<1>2. pos.m \notin HeldMarkets(r)
  BY <1>1, IndexOfHeld
<1>3. q = [cash |-> r.cash - pos.size - n, pos |-> Append(r.pos, pos), realized |-> r.realized,
           trades |-> r.trades, wins |-> r.wins, entries |-> r.entries + 1]
  OBVIOUS
<1>4. /\ r.pos \in Seq(Position) /\ Len(r.pos) \in Nat /\ DOMAIN r.pos = 1..Len(r.pos)
      /\ \A i, j \in DOMAIN r.pos : r.pos[i].m = r.pos[j].m => i = j
  BY <1>1 DEF Basket
<1>5. /\ q.pos \in Seq(Position) /\ DOMAIN q.pos = 1..(Len(r.pos) + 1)
      /\ \A i \in 1..Len(r.pos) : q.pos[i] = r.pos[i]
      /\ q.pos[Len(r.pos) + 1] = pos
  BY <1>3, <1>4, AppendProperties
<1>6. \A i \in DOMAIN q.pos : i \in DOMAIN r.pos \/ i = Len(r.pos) + 1
  BY <1>4, <1>5
<1>7. Len(r.pos) + 1 \in DOMAIN q.pos /\ \A i \in DOMAIN r.pos : i \in DOMAIN q.pos
  BY <1>4, <1>5
<1>8. \A i \in DOMAIN r.pos : r.pos[i].m # pos.m /\ q.pos[i] = r.pos[i]
  BY <1>2, <1>4, <1>5 DEF HeldMarkets
<1>9. q.pos \in Basket
  <2>1. ASSUME NEW i \in DOMAIN q.pos, NEW j \in DOMAIN q.pos, q.pos[i].m = q.pos[j].m
        PROVE  i = j
    BY <1>4, <1>5, <1>6, <1>8, <2>1
  <2> QED
    BY <1>5, <2>1 DEF Basket
<1>10. q \in Row
  <2>1. q.entries \in 0..MaxEntries /\ q.cash \in Int
    <3>1. MaxEntries \in Nat /\ pos.size \in Int
      BY DEF BasketAssumption, Position
    <3>2. q.entries = r.entries + 1 /\ q.cash = r.cash - pos.size - n
      BY <1>3
    <3>3. r.entries \in 0..MaxEntries /\ r.cash \in Int /\ r.entries < MaxEntries
      BY ONLY <1>1, r.entries < MaxEntries
    <3>4. r.entries + 1 \in 0..MaxEntries
      BY ONLY <3>1, <3>3
    <3>5. r.cash - pos.size - n \in Int
      BY ONLY <3>1, <3>3, n \in Int
    <3> QED
      BY ONLY <3>2, <3>3, <3>4, <3>5
  <2> QED
    BY <1>1, <1>3, <1>9, <2>1 DEF Row
<1>11. \A x : (\E i \in DOMAIN q.pos : q.pos[i] = x)
                <=> (\E i \in DOMAIN r.pos : r.pos[i] = x) \/ x = pos
  BY <1>5, <1>6, <1>7, <1>8
<1>12. HeldMarkets(q) = HeldMarkets(r) \cup {pos.m}
  <2>1. \A x : (\E i \in DOMAIN q.pos : q.pos[i].m = x)
                 <=> (\E i \in DOMAIN r.pos : r.pos[i].m = x) \/ x = pos.m
    BY ONLY <1>5, <1>6, <1>7, <1>8
  <2> QED
    BY ONLY <2>1 DEF HeldMarkets
<1>13. PositionOn(q, pos.m) = pos
  <2>1. PICK k \in DOMAIN q.pos : q.pos[k] = pos
    BY <1>5, <1>7
  <2>2. PositionOn(q, q.pos[k].m) = q.pos[k]
    BY ONLY k \in DOMAIN q.pos, <1>9, PositionIs
  <2> QED
    BY <2>1, <2>2
<1>14. ASSUME NEW x \in HeldMarkets(r)
       PROVE  PositionOn(q, x) = PositionOn(r, x)
  <2>1. PICK i \in DOMAIN r.pos : r.pos[i].m = x
    BY DEF HeldMarkets
  <2>2. q.pos[i] = r.pos[i] /\ i \in DOMAIN q.pos
    BY <1>7, <1>8, <2>1
  <2>3. PositionOn(q, q.pos[i].m) = q.pos[i]
    BY <1>9, <2>2, PositionIs
  <2>4. PositionOn(r, r.pos[i].m) = r.pos[i]
    BY <1>1, PositionIs
  <2> QED
    BY <2>1, <2>2, <2>3, <2>4
<1>15. /\ q.cash = r.cash - pos.size - n /\ q.realized = r.realized
       /\ q.trades = r.trades /\ q.wins = r.wins /\ q.entries = r.entries + 1
  BY <1>3
<1>16. Positions(q) = Positions(r) \cup {pos}
  <2>1. ASSUME NEW x
        PROVE  x \in Positions(q) <=> x \in Positions(r) \cup {pos}
    BY ONLY <1>11 DEF Positions
  <2> QED
    BY <2>1
<1> QED
  BY <1>2, <1>10, <1>12, <1>13, <1>14, <1>15, <1>16 DEF GrownBy

\* What is left of r without its position on m, and with the trade's money.
LeftBy(r, m, t, q) ==
    /\ q \in Row
    /\ q.cash = r.cash + (PositionOn(r, m).size + t.realized - t.gap)
    /\ q.realized = r.realized + t.realized /\ q.trades = r.trades + 1 /\ q.entries = r.entries
    /\ q.wins = IF t.realized > 0 THEN r.wins + 1 ELSE r.wins
    /\ Positions(q) = Positions(r) \ {PositionOn(r, m)} /\ PositionOn(r, m) \in Positions(r)
    /\ HeldMarkets(q) = HeldMarkets(r) \ {m} /\ m \in HeldMarkets(r)
    /\ \A x \in HeldMarkets(q) : PositionOn(q, x) = PositionOn(r, x)

(* A way out takes the position out, and its money in. *)
LEMMA LeavesRow ==
    ASSUME NEW r \in Row, NEW m, NEW out, Leaves(r, m, out), NEW q, q = out.row
    PROVE  LeftBy(r, m, out.trade, q) /\ out.trade \in Trade
<1>1. Holds(r, m) /\ out.trade \in Trade
      /\ q = Exited(r, m, PositionOn(r, m).size + out.trade.realized - out.trade.gap,
                    out.trade.realized)
  BY DEF Leaves
<1>2. PositionOn(r, m) \in Position
  BY <1>1, HeldPosition
<1>3. out.trade.realized \in Int
      /\ PositionOn(r, m).size + out.trade.realized - out.trade.gap \in Int
  BY <1>1, <1>2 DEF Trade, Position
<1>4. PICK back \in Int : back = PositionOn(r, m).size + out.trade.realized - out.trade.gap
  BY <1>3
<1>5. PICK realized \in Int : realized = out.trade.realized
  BY <1>3
<1>6. q = Exited(r, m, back, realized)
  BY <1>1, <1>4, <1>5
<1>7. /\ q \in Row
      /\ q.cash = r.cash + back /\ q.realized = r.realized + realized
      /\ q.trades = r.trades + 1 /\ q.entries = r.entries
      /\ q.wins = IF realized > 0 THEN r.wins + 1 ELSE r.wins
      /\ Positions(q) = Positions(r) \ {PositionOn(r, m)} /\ PositionOn(r, m) \in Positions(r)
      /\ HeldMarkets(q) = HeldMarkets(r) \ {m} /\ m \in HeldMarkets(r)
      /\ \A x \in HeldMarkets(q) : PositionOn(q, x) = PositionOn(r, x)
  BY <1>1, <1>6, RowExited
<1> QED
  BY <1>1, <1>4, <1>5, <1>7 DEF LeftBy

(* A way in adds the position. *)
LEMMA JoinsRow ==
    ASSUME BasketAssumption, NEW r \in Row, NEW pos, NEW out, Joins(r, pos, out), NEW q, q = out.row
    PROVE  GrownBy(r, pos, FeeOn(pos.m, pos.size), q) /\ out.trade \in Trade /\ pos \in Position
<1>1. pos \in Position /\ ~Holds(r, pos.m) /\ r.entries < MaxEntries /\ out.trade \in Trade
      /\ q = [r EXCEPT !.cash = @ - pos.size - FeeOn(pos.m, pos.size), !.entries = @ + 1,
                       !.pos = Append(@, pos)]
  BY DEF Joins
<1>2. PICK n \in Int : n = FeeOn(pos.m, pos.size)
  BY <1>1, AmountTypes
<1>3. q = [cash |-> r.cash - pos.size - n, pos |-> Append(r.pos, pos),
           realized |-> r.realized, trades |-> r.trades, wins |-> r.wins,
           entries |-> r.entries + 1]
  <2>1. r = [cash |-> r.cash, pos |-> r.pos, realized |-> r.realized, trades |-> r.trades,
             wins |-> r.wins, entries |-> r.entries]
    BY DEF Row
  <2> QED
    BY <1>1, <1>2, <2>1
<1>4. GrownBy(r, pos, n, q)
  BY <1>1, <1>3, RowEntered
<1> QED
  BY <1>1, <1>2, <1>4

(* Whatever moves a row gives a row and a trade. *)
LEMMA MovesType ==
    ASSUME BasketAssumption, NEW r \in Row, NEW out, Moves(r, out)
    PROVE  out.row \in Row /\ out.trade \in Trade
<1>1. PICK q : q = out.row
  OBVIOUS
<1>2. ASSUME NEW m, Leaves(r, m, out)
      PROVE  q \in Row /\ out.trade \in Trade
  <2>1. LeftBy(r, m, out.trade, q) /\ out.trade \in Trade
    BY <1>1, <1>2, LeavesRow
  <2> QED
    BY <2>1 DEF LeftBy
<1>3. ASSUME NEW pos, Joins(r, pos, out)
      PROVE  q \in Row /\ out.trade \in Trade
  <2>1. GrownBy(r, pos, FeeOn(pos.m, pos.size), q) /\ out.trade \in Trade
    BY <1>1, <1>3, JoinsRow
  <2> QED
    BY <2>1 DEF GrownBy
<1> QED
  BY <1>1, <1>2, <1>3 DEF Moves

-----------------------------------------------------------------------------
(* What a process may be at. *)

TickState(s) == s \in {Idle} \cup Resolves \/ GoesThrough(s) \/ Awaits(s) \/ Persists(s)

\* The holders of a settled binary hold it on their copies.
Closes(s) == s.pc = "close" => \A b \in DOMAIN s.todo : Holds(s.todo[b], s.m)

\* An order that is out was decided on the copy it will be booked on, and a row
\* about to be persisted is not gone through again.
Local(s) ==
    /\ TickState(s)
    /\ s.pc = "await" => DOMAIN s.todo # {} /\ s.sig \in Signals(s.todo[At(s.todo)])
    /\ s.pc = "persist" => s.a \notin DOMAIN s.then.todo /\ Closes(s.then)
    /\ Closes(s)

Basic ==
    /\ TypeOK
    /\ proc = [p \in Procs \cup {Rec} |-> proc[p]]
    /\ \A p \in Procs : Local(proc[p])

(* The fields of a state, by where the process is. *)
LEMMA Shapes ==
    ASSUME NEW s, TickState(s)
    PROVE  /\ s.pc \in {"idle", "resolve", "close", "decide", "await", "seal", "persist"}
           /\ s.pc = "idle" => s = Idle
           /\ s.pc = "resolve" => s.pending \subseteq Binaries
           /\ s.pc = "close" =>
                 /\ Copies(s.todo) /\ s.m \in Binaries /\ s.then \in Resolves
                 /\ s = [pc |-> "close", m |-> s.m, then |-> s.then, todo |-> s.todo]
           /\ s.pc = "decide" => Copies(s.todo) /\ s = [pc |-> "decide", todo |-> s.todo]
           /\ s.pc = "seal" => /\ Copies(s.todo) /\ s.cull \subseteq Agents
                               /\ s = [pc |-> "seal", todo |-> s.todo, cull |-> s.cull]
           /\ s.pc = "await" => Awaits(s) /\ Copies(s.todo)
           /\ s.pc = "persist" =>
                 /\ Persists(s) /\ GoesThrough(s.then)
                 /\ s.a \in Agents /\ s.new \in Row /\ s.traded \in BOOLEAN /\ s.left \in Seq(Markets)
                 /\ s = [pc |-> "persist", a |-> s.a, new |-> s.new, traded |-> s.traded,
                         left |-> s.left, then |-> s.then]
<1>1. CASE s \in {Idle} \cup Resolves
  BY <1>1 DEF Idle, Resolves
<1>2. CASE GoesThrough(s)
  BY <1>2 DEF GoesThrough
<1>3. CASE Awaits(s)
  BY <1>3 DEF Awaits
<1>4. CASE Persists(s)
  <2>1. s \in [pc : {"persist"}, a : Agents, new : Row, traded : BOOLEAN,
               left : Seq(Markets), then : {s.then}]
    BY <1>4 DEF Persists
  <2> QED
    BY <1>4, <2>1 DEF Persists
<1> QED
  BY <1>1, <1>2, <1>3, <1>4 DEF TickState

(* The loops over copies. *)
LEMMA Loops ==
    ASSUME NEW todo, Copies(todo)
    PROVE  /\ GoesThrough([pc |-> "decide", todo |-> todo])
           /\ \A cull \in SUBSET Agents :
                 GoesThrough([pc |-> "seal", todo |-> todo, cull |-> cull])
           /\ \A m \in Binaries, then \in Resolves :
                 GoesThrough([pc |-> "close", m |-> m, then |-> then, todo |-> todo])
<1>1. GoesThrough([pc |-> "decide", todo |-> todo])
  BY DEF GoesThrough
<1>2. ASSUME NEW cull \in SUBSET Agents
      PROVE  GoesThrough([pc |-> "seal", todo |-> todo, cull |-> cull])
  BY DEF GoesThrough
<1>3. ASSUME NEW m \in Binaries, NEW then \in Resolves
      PROVE  GoesThrough([pc |-> "close", m |-> m, then |-> then, todo |-> todo])
  BY DEF GoesThrough
<1> QED
  BY <1>1, <1>2, <1>3

(* The agent a loop is at, and those after it. *)
LEMMA LoopStep ==
    ASSUME BasketAssumption, NEW todo, Copies(todo), DOMAIN todo # {}
    PROVE  /\ At(todo) \in DOMAIN todo /\ At(todo) \in Agents /\ todo[At(todo)] \in Row
           /\ DOMAIN Rest(todo) = DOMAIN todo \ {At(todo)}
           /\ \A b \in DOMAIN Rest(todo) : Rest(todo)[b] = todo[b]
           /\ Copies(Rest(todo))
<1>1. DOMAIN todo \subseteq Agents /\ \A a \in DOMAIN todo : todo[a] \in Row
  BY DEF Copies
<1>2. IsFiniteSet(DOMAIN todo) /\ \A a \in DOMAIN todo : a \in Int
  <2>1. Agents \subseteq Nat /\ IsFiniteSet(Agents)
    BY DEF BasketAssumption
  <2>2. IsFiniteSet(DOMAIN todo)
    <3>1. PICK T \in SUBSET Agents : T = DOMAIN todo
      BY <1>1
    <3>2. IsFiniteSet(T)
      BY <2>1, FS_Subset
    <3> QED
      BY <3>1, <3>2
  <2>3. ASSUME NEW a \in DOMAIN todo
        PROVE  a \in Int
    <3>1. a \in Agents
      BY <1>1
    <3>2. Agents \subseteq Int
      BY <2>1
    <3> QED
      BY <3>1, <3>2, Zenon
  <2> QED
    BY <2>2, <2>3
<1>3. At(todo) \in DOMAIN todo
  BY <1>2, MinOfFinite DEF At
<1>4. /\ DOMAIN Rest(todo) = DOMAIN todo \ {At(todo)}
      /\ \A b \in DOMAIN Rest(todo) : Rest(todo)[b] = todo[b]
  BY DEF Rest, Restrict
<1> QED
  BY <1>1, <1>3, <1>4 DEF Copies

(* Rows as they are read. *)
LEMMA Loaded ==
    ASSUME TypeOK, NEW S \in SUBSET Agents
    PROVE  /\ Copies(Restrict(row, S)) /\ DOMAIN Restrict(row, S) = S
           /\ \A b \in S : Restrict(row, S)[b] = row[b]
BY DEF Copies, Restrict, TypeOK

-----------------------------------------------------------------------------
(* The copies of rows that a process works on. *)

NoCopies == [a \in {} |-> 0]

TodoOf(s) ==
    IF s.pc \in {"close", "decide", "await", "seal"} THEN s.todo
    ELSE IF s.pc = "persist" THEN s.then.todo ELSE NoCopies

Has(s, a) == a \in DOMAIN TodoOf(s) \/ (s.pc = "persist" /\ s.a = a)
Copy(s, a) == IF s.pc = "persist" /\ s.a = a THEN s.new ELSE TodoOf(s)[a]

\* A trade of a is in the log, and its row is about to be persisted.
Traded(s, a) == s.pc = "persist" /\ s.a = a /\ s.traded

(* What a process has copies of, by where it is. *)
LEMMA Held ==
    ASSUME NEW s, TickState(s), NEW b
    PROVE  /\ s.pc \in {"idle", "resolve"} => ~Has(s, b)
           /\ s.pc \in {"close", "decide", "await", "seal"} =>
                 (Has(s, b) <=> b \in DOMAIN s.todo) /\ Copy(s, b) = s.todo[b]
           /\ s.pc = "persist" =>
                 /\ Has(s, b) <=> b = s.a \/ b \in DOMAIN s.then.todo
                 /\ Copy(s, b) = IF b = s.a THEN s.new ELSE s.then.todo[b]
           /\ Traded(s, b) => s.pc = "persist" /\ b = s.a
           /\ Has(s, b) => b \in Agents /\ Copy(s, b) \in Row
<1>1. s.pc \in {"idle", "resolve"} => ~Has(s, b)
  BY DEF Has, TodoOf, NoCopies
<1>2. s.pc \in {"close", "decide", "await", "seal"} =>
         (Has(s, b) <=> b \in DOMAIN s.todo) /\ Copy(s, b) = s.todo[b]
  BY DEF Has, TodoOf, Copy
<1>3. s.pc = "persist" =>
         /\ Has(s, b) <=> b = s.a \/ b \in DOMAIN s.then.todo
         /\ Copy(s, b) = IF b = s.a THEN s.new ELSE s.then.todo[b]
  BY DEF Has, TodoOf, Copy
<1>4. Traded(s, b) => s.pc = "persist" /\ b = s.a
  BY DEF Traded
<1>5. s.pc \in {"close", "decide", "await", "seal"} => Copies(s.todo)
  BY Shapes
<1>6. s.pc = "persist" => s.a \in Agents /\ s.new \in Row /\ Copies(s.then.todo)
  BY Shapes DEF GoesThrough
<1>7. s.pc \in {"idle", "resolve", "close", "decide", "await", "seal", "persist"}
  BY Shapes
<1>8. Has(s, b) => b \in Agents /\ Copy(s, b) \in Row
  BY <1>1, <1>2, <1>3, <1>5, <1>6, <1>7 DEF Copies
<1> QED
  BY <1>1, <1>2, <1>3, <1>4, <1>8

\* The agent a loop is at is taken out of it, to be persisted.
Takes(s, t) ==
    /\ s.pc \in {"close", "decide", "await", "seal"} /\ DOMAIN s.todo # {}
    /\ t.new \in Row /\ t.traded \in BOOLEAN /\ t.left \in Seq(Markets)
    /\ GoesThrough(t.then) /\ t.then.todo = Rest(s.todo) /\ Closes(t.then)
    /\ t = Writing(At(s.todo), t.new, t.traded, t.left, t.then)

(* It is the agent's only copy, and the others are kept. *)
LEMMA Taken ==
    ASSUME BasketAssumption, NEW s, TickState(s), NEW t, Takes(s, t),
           NEW a, a = At(s.todo)
    PROVE  /\ Local(t) /\ a \in Agents /\ Has(s, a) /\ Copy(s, a) = s.todo[a] /\ s.todo[a] \in Row
           /\ Has(t, a) /\ Copy(t, a) = t.new
           /\ \A b : Has(t, b) => Has(s, b) /\ (b # a => Copy(t, b) = Copy(s, b))
           /\ \A b : (Traded(t, b) <=> b = a /\ t.traded) /\ ~Traded(s, b)
<1> DEFINE todo == s.todo
<1>0. /\ s.pc \in {"close", "decide", "await", "seal"} /\ DOMAIN todo # {}
      /\ t.new \in Row /\ t.traded \in BOOLEAN /\ t.left \in Seq(Markets)
      /\ GoesThrough(t.then) /\ t.then.todo = Rest(todo) /\ Closes(t.then)
      /\ t = Writing(a, t.new, t.traded, t.left, t.then)
      /\ t.pc = "persist" /\ t.a = a
  BY DEF Takes, Writing
<1>1. Copies(todo)
  BY <1>0, Shapes
<1>2. /\ a \in DOMAIN todo /\ a \in Agents /\ todo[a] \in Row
      /\ DOMAIN Rest(todo) = DOMAIN todo \ {a}
      /\ \A b \in DOMAIN Rest(todo) : Rest(todo)[b] = todo[b]
  <2>1. DOMAIN todo # {} /\ a = At(todo)
    BY <1>0
  <2> HIDE DEF todo
  <2> QED
    BY ONLY BasketAssumption, <1>1, <2>1, LoopStep
<1>3. t \in [pc : {"persist"}, a : Agents, new : Row, traded : BOOLEAN,
             left : Seq(Markets), then : {t.then}]
  BY <1>0, <1>2 DEF Writing
<1>4. Persists(t)
  BY <1>0, <1>3 DEF Persists
<1>5. TickState(t) /\ Local(t)
  <2>1. TickState(t)
    BY ONLY <1>4 DEF TickState
  <2>2. t.then.pc = "close" => \A b \in DOMAIN t.then.todo : Holds(t.then.todo[b], t.then.m)
    BY ONLY <1>0 DEF Closes
  <2> QED
    BY <1>0, <1>2, <2>1, <2>2 DEF Local, Closes
<1>6. Has(s, a) /\ Copy(s, a) = todo[a] /\ Has(t, a) /\ Copy(t, a) = t.new
  BY <1>0, <1>2, <1>5, Held
<1>7. ASSUME NEW b
      PROVE  /\ Has(t, b) => Has(s, b) /\ (b # a => Copy(t, b) = Copy(s, b))
             /\ (Traded(t, b) <=> b = a /\ t.traded) /\ ~Traded(s, b)
  BY <1>0, <1>2, <1>5, Held DEF Traded
<1> QED
  BY <1>2, <1>5, <1>6, <1>7

-----------------------------------------------------------------------------
(* The kinds of steps of a tick. *)

\* p is at t, after it has read the rows of R.  Nothing is written.
Moved(p, t, R) ==
    /\ \A b : Has(t, b) =>
          IF b \in R THEN Copy(t, b) = row[b]
          ELSE Has(proc[p], b) /\ Copy(t, b) = Copy(proc[p], b)
    /\ \A b : (Traded(t, b) <=> Traded(proc[p], b)) /\ (b \in R => ~Traded(t, b))
    /\ stale' = [stale EXCEPT ![p] = @ \ R]
    /\ UNCHANGED <<row, log, torn>>

\* p moves its copy of a, and inserts the trade.
Recorded(p, t, a, out) ==
    /\ a \in Agents /\ Has(proc[p], a) /\ Moves(Copy(proc[p], a), out)
    /\ Has(t, a) /\ Copy(t, a) = out.row
    /\ \A b : Has(t, b) => Has(proc[p], b) /\ (b # a => Copy(t, b) = Copy(proc[p], b))
    /\ \A b : /\ Traded(t, b) <=> b = a
              /\ Traded(proc[p], b) => b = a
    /\ Insert(a, out.trade)
    /\ UNCHANGED <<row, torn, stale>>

\* p writes its copy of a.
Wrote(p, t, a) ==
    /\ a \in Agents /\ Has(proc[p], a) /\ Write(p, a, Copy(proc[p], a))
    /\ \A b : Has(t, b) => b # a /\ Has(proc[p], b) /\ Copy(t, b) = Copy(proc[p], b)
    /\ \A b : ~Traded(t, b) /\ (Traded(proc[p], b) => b = a)

\* p dies, between an insert and a write or while an order is out.
Died(p, t) ==
    /\ t = Idle /\ \E S \in SUBSET Agents : Tear(S) /\ \A b : Traded(proc[p], b) => b \in S
    /\ stale' = [stale EXCEPT ![p] = {}]
    /\ UNCHANGED row

Progress(p, t) ==
    /\ Local(t) /\ proc' = [proc EXCEPT ![p] = t]
    /\ \/ \E R \in SUBSET Agents : Moved(p, t, R)
       \/ \E a, out : Recorded(p, t, a, out)
       \/ \E a : Wrote(p, t, a)
       \/ Died(p, t)

(* A process that has no copies, or the ones it had, has moved. *)
LEMMA Steps ==
    ASSUME TypeOK, NEW p \in Procs, Local(proc[p]), NEW t, Local(t),
           proc[p].pc # "persist", t.pc # "persist",
           \A b : ~Has(t, b) \/ (Has(proc[p], b) /\ Copy(t, b) = Copy(proc[p], b)),
           UNCHANGED <<row, log, torn, stale>>
    PROVE  Moved(p, t, {})
<1>1. stale[p] \ {} = stale[p] /\ stale \in [Procs \cup {Rec} -> SUBSET Agents]
  BY DEF TypeOK
<1>2. stale' = [stale EXCEPT ![p] = @ \ {}]
  BY <1>1
<1>3. \A b : ~Traded(t, b) /\ ~Traded(proc[p], b)
  BY DEF Traded
<1> QED
  BY <1>2, <1>3 DEF Moved

(* A trade out or in is recorded from a loop. *)
LEMMA RecordedFromLoop ==
    ASSUME BasketAssumption, Basic, NEW p \in Procs,
           NEW s, s = proc[p], s.pc \in {"close", "decide", "await", "seal"},
           NEW todo, todo = s.todo, DOMAIN todo # {}, NEW a, a = At(todo),
           NEW out, Moves(todo[a], out), NEW then, GoesThrough(then), then.todo = Rest(todo),
           Closes(then), Record(p, a, out, then), UNCHANGED <<row, torn, stale>>
    PROVE  \E t : Progress(p, t)
<1>1. TickState(s)
  BY DEF Basic, Local
<1>2. Copies(todo)
  BY <1>1, Shapes
<1>3. out.row \in Row
  BY <1>2, LoopStep, MovesType
<1>4. PICK t : t = Writing(a, out.row, TRUE, <<>>, then)
  OBVIOUS
<1>5. t.new = out.row /\ t.traded = TRUE
  BY <1>4 DEF Writing
<1>10. Takes(s, t)
  <2>1. <<>> \in Seq(Markets)
    OBVIOUS
  <2> QED
    BY <1>3, <1>4, <2>1 DEF Takes, Writing
<1>11. /\ Local(t) /\ a \in Agents /\ Has(s, a) /\ Copy(s, a) = s.todo[a]
       /\ Has(t, a) /\ Copy(t, a) = t.new
       /\ \A b : Has(t, b) => Has(s, b) /\ (b # a => Copy(t, b) = Copy(s, b))
       /\ \A b : (Traded(t, b) <=> b = a /\ t.traded) /\ ~Traded(s, b)
  BY <1>1, <1>10, Taken
<1>6. /\ Copy(t, a) = out.row
      /\ \A b : (Traded(t, b) <=> b = a /\ TRUE) /\ ~Traded(s, b)
  BY <1>5, <1>11
<1>7. proc' = [proc EXCEPT ![p] = t] /\ Insert(a, out.trade)
  BY <1>4 DEF Record, Goto
<1>8. Recorded(p, t, a, out)
  BY <1>6, <1>7, <1>11 DEF Recorded
<1> QED
  BY <1>7, <1>8, <1>11 DEF Progress

(* A copy is about to be persisted as it is. *)
LEMMA HeldFromLoop ==
    ASSUME BasketAssumption, Basic, NEW p \in Procs,
           NEW s, s = proc[p], s.pc \in {"close", "decide", "await", "seal"},
           NEW todo, todo = s.todo, DOMAIN todo # {}, NEW a, a = At(todo),
           NEW then, GoesThrough(then), then.todo = Rest(todo), Closes(then), NEW left \in Seq(Markets),
           Goto(p, Writing(a, todo[a], FALSE, left, then)), UNCHANGED <<row, log, torn, stale>>
    PROVE  \E t : Progress(p, t)
<1>1. TickState(s)
  BY DEF Basic, Local
<1>2. Copies(todo)
  BY <1>1, Shapes
<1>3. todo[a] \in Row
  BY <1>2, LoopStep
<1>4. PICK t : t = Writing(a, todo[a], FALSE, left, then)
  OBVIOUS
<1>5. t.new = todo[a] /\ t.traded = FALSE
  BY <1>4 DEF Writing
<1>10. Takes(s, t)
  <2>1. left \in Seq(Markets)
    OBVIOUS
  <2> QED
    BY <1>3, <1>4, <2>1 DEF Takes, Writing
<1>11. /\ Local(t) /\ a \in Agents /\ Has(s, a) /\ Copy(s, a) = s.todo[a]
       /\ Has(t, a) /\ Copy(t, a) = t.new
       /\ \A b : Has(t, b) => Has(s, b) /\ (b # a => Copy(t, b) = Copy(s, b))
       /\ \A b : (Traded(t, b) <=> b = a /\ t.traded) /\ ~Traded(s, b)
  BY <1>1, <1>10, Taken
<1>6. /\ Copy(t, a) = todo[a]
      /\ \A b : (Traded(t, b) <=> b = a /\ FALSE) /\ ~Traded(s, b)
  BY <1>5, <1>11
<1>7. proc' = [proc EXCEPT ![p] = t]
  BY <1>4 DEF Goto
<1>8. stale' = [stale EXCEPT ![p] = @ \ {}]
  BY DEF Basic, TypeOK
<1>9. Moved(p, t, {})
  BY <1>6, <1>8, <1>11 DEF Moved
<1> QED
  BY <1>7, <1>9, <1>11 DEF Progress

(* Rows are read into a loop. *)
LEMMA Reads ==
    ASSUME Basic, NEW p \in Procs, proc[p].pc # "persist", NEW t, TickState(t),
           t.pc \in {"close", "decide", "seal"}, Closes(t), NEW R \in SUBSET Agents,
           t.todo = Restrict(row, R), Read(p, R), Goto(p, t), UNCHANGED <<row, log, torn>>
    PROVE  Progress(p, t)
<1>1. \A b : /\ ~Traded(t, b) /\ ~Traded(proc[p], b)
  BY DEF Traded
<1>2. DOMAIN t.todo = R /\ \A b \in R : t.todo[b] = row[b]
  BY Loaded DEF Basic
<1>3. \A b : Has(t, b) => b \in R /\ Copy(t, b) = row[b]
  BY <1>2, Held
<1>4. Moved(p, t, R)
  BY <1>1, <1>3 DEF Moved, Read
<1>5. Local(t)
  BY DEF Local
<1> QED
  BY <1>4, <1>5 DEF Progress, Goto

(* No row is read or written. *)
LEMMA Walks ==
    ASSUME Basic, NEW p \in Procs, proc[p].pc # "persist", NEW t, TickState(t),
           t.pc \in {"idle", "resolve"},
           \A b : ~Has(t, b) \/ (Has(proc[p], b) /\ Copy(t, b) = Copy(proc[p], b)),
           Goto(p, t), UNCHANGED <<row, log, torn, stale>>
    PROVE  Progress(p, t)
<1>1. Local(t) /\ Local(proc[p]) /\ TypeOK
  BY DEF Local, Basic, Closes
<1>2. Moved(p, t, {})
  BY <1>1, Steps
<1> QED
  BY <1>1, <1>2 DEF Progress, Goto

(* A process that is done forgets what it missed. *)
LEMMA Ends ==
    ASSUME Basic, NEW p \in Procs, proc[p].pc # "persist", Done(p), UNCHANGED <<row, log, torn>>
    PROVE  Progress(p, Idle)
<1>1. \A b : /\ ~Traded(Idle, b) /\ ~Traded(proc[p], b)
  BY DEF Traded, Idle
<1>2. TickState(Idle) /\ Idle.pc = "idle"
  BY DEF TickState, Idle
<1>3. \A b : ~Has(Idle, b)
  BY <1>2, Held
<1>4. stale' = [stale EXCEPT ![p] = @ \ stale[p]] /\ stale[p] \in SUBSET Agents
  <2>1. stale[p] \ stale[p] = {} /\ stale[p] \in SUBSET Agents
    BY DEF Basic, TypeOK
  <2> QED
    BY <2>1 DEF Done
<1>5. Moved(p, Idle, stale[p])
  BY <1>1, <1>3, <1>4 DEF Moved
<1>6. Local(Idle)
  BY <1>2 DEF Local, Closes
<1> QED
  BY <1>4, <1>5, <1>6 DEF Progress, Done, Goto

(* A tick starts, and lists the binaries that are due (binary-resolver.ts). *)
LEMMA TickStartStep ==
    ASSUME BasketAssumption, Basic, NEW p \in Procs, TickStart(p)
    PROVE  \E t : Progress(p, t)
<1>1. PICK t : t = [pc |-> "resolve", pending |-> Pending]
  OBVIOUS
<1>2. TickState(t) /\ t.pc = "resolve"
  BY <1>1 DEF TickState, Resolves, Pending
<1>3. \A b : ~Has(t, b)
  BY <1>2, Held
<1>4. proc[p].pc # "persist" /\ Goto(p, t) /\ UNCHANGED <<row, log, torn, stale>>
  BY <1>1 DEF TickStart
<1> QED
  BY <1>2, <1>3, <1>4, Walks

(* An expired binary is skipped, or its holders are read. *)
LEMMA ResolveStep ==
    ASSUME BasketAssumption, Basic, NEW p \in Procs, Resolve(p)
    PROVE  \E t : Progress(p, t)
<1>1. proc[p].pc = "resolve" /\ UNCHANGED <<row, log, torn>>
  BY DEF Resolve
<1>2. proc[p].pending \subseteq Binaries
  BY <1>1, Shapes DEF Basic, Local
<1>3. PICK m \in proc[p].pending :
        LET rest == [pc |-> "resolve", pending |-> proc[p].pending \ {m}]
        IN IF binary[m] = "expired"
           THEN Goto(p, rest) /\ UNCHANGED <<binary, stale>>
           ELSE /\ binary' = [binary EXCEPT ![m] = "settled"]
                /\ Read(p, Holders(m))
                /\ Goto(p, [pc |-> "close", m |-> m, then |-> rest,
                            todo |-> Restrict(row, Holders(m))])
  BY DEF Resolve
<1>4. PICK rest : rest = [pc |-> "resolve", pending |-> proc[p].pending \ {m}]
  OBVIOUS
<1>5. rest \in Resolves /\ TickState(rest) /\ rest.pc = "resolve"
  BY <1>2, <1>4 DEF Resolves, TickState
<1>6. CASE binary[m] = "expired"
  <2>1. Goto(p, rest) /\ UNCHANGED stale
    BY <1>3, <1>4, <1>6
  <2>2. \A b : ~Has(rest, b)
    BY <1>5, Held
  <2> QED
    BY <1>1, <1>5, <2>1, <2>2, Walks
<1>7. CASE binary[m] # "expired"
  <2>1. PICK R \in SUBSET Agents : R = Holders(m)
    BY DEF Holders
  <2>2. PICK t : t = [pc |-> "close", m |-> m, then |-> rest, todo |-> Restrict(row, R)]
    OBVIOUS
  <2>3. Read(p, R) /\ Goto(p, t)
    BY <1>3, <1>4, <1>7, <2>1, <2>2
  <2>4. TickState(t)
    <3>1. Copies(Restrict(row, R)) /\ m \in Binaries
      BY <1>2, Loaded DEF Basic
    <3>2. GoesThrough([pc |-> "close", m |-> m, then |-> rest, todo |-> Restrict(row, R)])
      BY <1>5, <3>1, Loops
    <3> QED
      BY <2>2, <3>2 DEF TickState
  <2>5. t.pc = "close" /\ t.todo = Restrict(row, R)
    BY <2>2
  <2>6. Closes(t)
    <3>1. DOMAIN t.todo = R /\ \A b \in R : t.todo[b] = row[b]
      BY <2>5, Loaded DEF Basic
    <3>2. \A b \in R : Holds(row[b], m)
      BY <2>1 DEF Holders
    <3>3. t.m = m
      BY <2>2
    <3> QED
      BY <3>1, <3>2, <3>3 DEF Closes
  <2> QED
    BY <1>1, <2>3, <2>4, <2>5, <2>6, Reads
<1> QED
  BY <1>6, <1>7

(* Settlement closes a position of the next holder, or leaves its copy as it is. *)
LEMMA CloseStep ==
    ASSUME BasketAssumption, Basic, NEW p \in Procs, Close(p)
    PROVE  \E t : Progress(p, t)
<1>1. proc[p].pc = "close" /\ UNCHANGED <<row, torn, stale>>
  BY DEF Close
<1>2. TickState(proc[p])
  BY DEF Basic, Local
<1>3. PICK s : s = proc[p]
  OBVIOUS
<1>4. PICK todo : todo = s.todo
  OBVIOUS
<1>5. /\ Copies(todo) /\ s.m \in Binaries /\ s.then \in Resolves
      /\ s = [pc |-> "close", m |-> s.m, then |-> s.then, todo |-> todo]
  BY <1>1, <1>2, <1>3, <1>4, Shapes
<1>6. CASE DOMAIN todo = {}
  <2>1. Goto(p, s.then) /\ UNCHANGED log
    BY <1>3, <1>4, <1>6 DEF Close
  <2>2. TickState(s.then) /\ s.then.pc = "resolve"
    BY <1>5 DEF TickState, Resolves
  <2>3. \A b : ~Has(s.then, b)
    BY <2>2, Held
  <2> QED
    BY <1>1, <2>1, <2>2, <2>3, Walks
<1>7. CASE DOMAIN todo # {}
  <2>1. PICK a : a = At(todo)
    OBVIOUS
  <2>2. PICK then : then = [s EXCEPT !.todo = Rest(@)]
    OBVIOUS
  <2>3. Record(p, a, Settled(todo[a], s.m), then)
    BY <1>3, <1>4, <1>7, <2>1, <2>2 DEF Close
  <2>4. then = [pc |-> "close", m |-> s.m, then |-> s.then, todo |-> Rest(todo)]
    BY <1>5, <2>2
  <2>5. Copies(Rest(todo)) /\ todo[a] \in Row
    BY <1>5, <1>7, <2>1, LoopStep
  <2>6. GoesThrough(then) /\ then.todo = Rest(todo)
    BY <1>5, <2>4, <2>5, Loops
  <2>7. Closes(s)
    BY <1>3 DEF Basic, Local
  <2>8. Holds(todo[a], s.m) /\ Closes(then)
    <3>1. \A b \in DOMAIN todo : Holds(todo[b], s.m)
      BY <1>1, <1>3, <1>4, <2>7 DEF Closes
    <3>2. /\ a \in DOMAIN todo
          /\ \A b \in DOMAIN Rest(todo) : b \in DOMAIN todo /\ Rest(todo)[b] = todo[b]
      BY <1>5, <1>7, <2>1, LoopStep
    <3>3. then.m = s.m
      BY <2>4
    <3> QED
      BY <2>6, <3>1, <3>2, <3>3 DEF Closes
  <2>9. Moves(todo[a], Settled(todo[a], s.m))
    BY <1>5, <2>5, <2>8, SettledLeaves DEF Moves
  <2>10. PICK out : out = Settled(todo[a], s.m)
    OBVIOUS
  <2> QED
    BY <1>1, <1>3, <1>4, <1>7, <2>1, <2>3, <2>6, <2>8, <2>9, <2>10, RecordedFromLoop
<1> QED
  BY <1>6, <1>7

(* A tick loads the rows of all agents that are alive. *)
LEMMA LoadStep ==
    ASSUME BasketAssumption, Basic, NEW p \in Procs, Load(p)
    PROVE  \E t : Progress(p, t)
<1>1. PICK t : t = Deciding(Restrict(row, alive))
  OBVIOUS
<1>2. t = [pc |-> "decide", todo |-> Restrict(row, alive)]
  BY <1>1 DEF Deciding
<1>3. alive \in SUBSET Agents /\ Copies(Restrict(row, alive))
  BY Loaded DEF Basic, TypeOK
<1>4. TickState(t) /\ Closes(t) /\ t.pc = "decide" /\ t.todo = Restrict(row, alive)
  BY <1>2, <1>3, Loops DEF TickState, Closes
<1>5. proc[p].pc # "persist" /\ Read(p, alive) /\ Goto(p, t) /\ UNCHANGED <<row, log, torn>>
  BY <1>1 DEF Load
<1> QED
  BY <1>3, <1>4, <1>5, Reads

\* The quotes a signal is filled at.
QuotesOf(sig) == IF sig.exit THEN ExitAt[sig.m] ELSE EntryAt[sig.m]

(* Quotes are integers. *)
LEMMA QuoteTypes ==
    ASSUME BasketAssumption, NEW m \in Markets
    PROVE  EntryAt[m] \subseteq Nat /\ ExitAt[m] \subseteq Nat
<1>1. CASE m \in Binaries
  <2>1. EntryAt[m] \cup ExitAt[m] \subseteq 1..(Unit - 1)
    BY <1>1 DEF BasketAssumption
  <2>2. \A x \in 1..(Unit - 1) : x \in Nat
    BY DEF BasketAssumption
  <2> QED
    BY <2>1, <2>2
<1>2. CASE m \in Spots
  BY <1>2 DEF BasketAssumption
<1> QED
  BY <1>1, <1>2 DEF Markets

(* applySignal. *)
LEMMA ExecutedStep ==
    ASSUME BasketAssumption, Basic, NEW p \in Procs,
           NEW s, s = proc[p], s.pc \in {"decide", "await"},
           NEW todo, todo = s.todo, DOMAIN todo # {}, NEW a, a = At(todo),
           NEW sig \in Signals(todo[a]), NEW px \in QuotesOf(sig), NEW live \in BOOLEAN,
           Executed(p, sig, px, live), UNCHANGED <<row, torn, stale>>
    PROVE  \E t : Progress(p, t)
<1>1. TickState(s) /\ Copies(todo)
  BY Shapes DEF Basic, Local
<1>2. PICK r \in Row : r = todo[a]
  BY <1>1, LoopStep
<1>3. Copies(Rest(todo))
  BY <1>1, LoopStep
<1>4. PICK then : then = Deciding(Rest(todo))
  OBVIOUS
<1>5. GoesThrough(then) /\ Closes(then) /\ then.todo = Rest(todo)
  BY <1>3, <1>4, Loops DEF Deciding, Closes
<1>6. /\ sig \in Signal /\ sig.m \in Markets
      /\ sig.exit => Holds(r, sig.m)
  BY <1>2, SignalTypes DEF Signal
<1>7. px \in Nat /\ px \in Int
  BY <1>6, QuoteTypes DEF QuotesOf
<1>8. CASE ~sig.exit /\ sig.size + FeeOn(sig.m, sig.size) > r.cash
  <2>1. Goto(p, Writing(a, todo[a], FALSE, <<>>, then)) /\ UNCHANGED log
    BY <1>2, <1>4, <1>8 DEF Executed, Hold
  <2>2. <<>> \in Seq(Markets)
    OBVIOUS
  <2> QED
    BY <1>5, <2>1, <2>2, HeldFromLoop
<1>9. CASE ~(~sig.exit /\ sig.size + FeeOn(sig.m, sig.size) > r.cash)
  <2>1. PICK out : out = IF sig.exit THEN Exit(r, sig.m, px, live) ELSE Entered(r, sig, px, live)
    OBVIOUS
  <2>2. Record(p, a, out, then)
    BY <1>2, <1>4, <1>9, <2>1 DEF Executed
  <2>3. Moves(r, out)
    <3>1. CASE sig.exit
      <4>1. px \in Quotes(sig.m)
        BY <3>1 DEF QuotesOf, Quotes
      <4>2. Leaves(r, sig.m, Exit(r, sig.m, px, live))
        BY <1>6, <1>7, <3>1, <4>1, ExitLeaves
      <4> QED
        BY <2>1, <3>1, <4>2 DEF Moves
    <3>2. CASE ~sig.exit
      <4>1. sig \in Signals(r) /\ px \in EntryAt[sig.m]
        BY <1>2, <3>2 DEF QuotesOf
      <4>2. Joins(r, NewPosition(sig, px, live), Entered(r, sig, px, live))
        BY <1>7, <1>9, <3>2, <4>1, EnteredJoins
      <4> QED
        BY <2>1, <3>2, <4>2 DEF Moves
    <3> QED
      BY <3>1, <3>2
  <2> QED
    BY <1>2, <1>5, <2>2, <2>3, RecordedFromLoop
<1> QED
  BY <1>8, <1>9

(* The next agent decides: nothing, a trade on paper, or an order whose answer is awaited. *)
LEMMA DecideStep ==
    ASSUME BasketAssumption, Basic, NEW p \in Procs, Decide(p)
    PROVE  \E t : Progress(p, t)
<1>1. PICK s : s = proc[p]
  OBVIOUS
<1>2. PICK todo : todo = s.todo
  OBVIOUS
<1>3. PICK a : a = At(todo)
  OBVIOUS
<1>4. s.pc = "decide" /\ DOMAIN todo # {} /\ UNCHANGED <<row, torn, stale>>
  BY <1>1, <1>2 DEF Decide
<1>5. TickState(s) /\ Copies(todo)
  BY <1>1, <1>2, <1>4, Shapes DEF Basic, Local
<1>6. CASE Hold(p, a, todo[a], Deciding(Rest(todo)))
  <2>1. PICK then : then = Deciding(Rest(todo))
    OBVIOUS
  <2>2. Copies(Rest(todo))
    BY <1>3, <1>4, <1>5, LoopStep
  <2>3. GoesThrough(then) /\ Closes(then) /\ then.todo = Rest(todo)
    BY <2>1, <2>2, Loops DEF Deciding, Closes
  <2>4. Goto(p, Writing(a, todo[a], FALSE, <<>>, then)) /\ UNCHANGED log
    BY <1>6, <2>1 DEF Hold
  <2>5. <<>> \in Seq(Markets)
    OBVIOUS
  <2> QED
    BY <1>1, <1>2, <1>3, <1>4, <2>3, <2>4, <2>5, HeldFromLoop
<1>7. ASSUME NEW sig \in Signals(todo[a]), NEW px \in QuotesOf(sig),
             Goto(p, [pc |-> "await", todo |-> todo, sig |-> sig, px |-> px]), UNCHANGED log
      PROVE  \E t : Progress(p, t)
  <2>1. PICK t : t = [pc |-> "await", todo |-> todo, sig |-> sig, px |-> px]
    OBVIOUS
  <2>2. todo[a] \in Row
    BY <1>3, <1>4, <1>5, LoopStep
  <2>3. sig \in Signal
    BY <2>2, SignalTypes
  <2>4. px \in Nat
    BY <2>3, QuoteTypes DEF QuotesOf, Signal
  <2>5. t.pc = "await" /\ t.todo = todo /\ t.sig = sig /\ t.px = px
    BY <2>1
  <2>6. Awaits(t)
    BY <1>5, <2>1, <2>3, <2>4, <2>5 DEF Awaits, QuotesOf
  <2>7. TickState(t) /\ Local(t)
    BY <1>3, <1>4, <2>5, <2>6 DEF TickState, Local, Closes
  <2>8. \A b : Has(t, b) => Has(s, b) /\ Copy(t, b) = Copy(s, b)
    BY <1>2, <1>4, <1>5, <2>5, <2>7, Held
  <2>9. Local(s) /\ TypeOK
    BY <1>1 DEF Basic
  <2>10. Moved(p, t, {})
    BY <1>1, <1>4, <1>7, <2>5, <2>7, <2>8, <2>9, Steps
  <2>11. proc' = [proc EXCEPT ![p] = t]
    BY <1>7, <2>1 DEF Goto
  <2> QED
    BY <2>7, <2>10, <2>11 DEF Progress
<1>8. ASSUME NEW sig \in Signals(todo[a]), NEW px \in QuotesOf(sig),
             Executed(p, sig, px, FALSE)
      PROVE  \E t : Progress(p, t)
  BY <1>1, <1>2, <1>3, <1>4, <1>8, ExecutedStep
<1> QED
  <2>1. \/ Hold(p, a, todo[a], Deciding(Rest(todo)))
        \/ \E sig \in Signals(todo[a]) : \E px \in QuotesOf(sig) :
              \/ Goto(p, [pc |-> "await", todo |-> todo, sig |-> sig, px |-> px]) /\ UNCHANGED log
              \/ Executed(p, sig, px, FALSE)
    BY <1>1, <1>2, <1>3 DEF Decide, QuotesOf
  <2> QED
    BY <1>6, <1>7, <1>8, <2>1

(* The answer to a live order is handled like a trade on paper, at the price awaited. *)
LEMMA AnswerStep ==
    ASSUME BasketAssumption, Basic, NEW p \in Procs, Answer(p)
    PROVE  \E t : Progress(p, t)
<1>1. PICK s : s = proc[p]
  OBVIOUS
<1>2. s.pc = "await" /\ Executed(p, s.sig, s.px, TRUE) /\ UNCHANGED <<row, torn, stale>>
  BY <1>1 DEF Answer
<1>3. DOMAIN s.todo # {} /\ s.sig \in Signals(s.todo[At(s.todo)]) /\ TickState(s)
  BY <1>1, <1>2 DEF Basic, Local
<1>4. s.px \in QuotesOf(s.sig)
  BY <1>2, <1>3, Shapes DEF Awaits, QuotesOf
<1> QED
  BY <1>1, <1>2, <1>3, <1>4, ExecutedStep

(* A row is written back, and the tick goes on to the next agent. *)
LEMMA PersistStep ==
    ASSUME BasketAssumption, Basic, NEW p \in Procs, Persist(p)
    PROVE  \E t : Progress(p, t)
<1>1. PICK s : s = proc[p]
  OBVIOUS
<1>2. s.pc = "persist" /\ Write(p, s.a, s.new) /\ Goto(p, s.then)
  BY <1>1 DEF Persist
<1>3. Local(s) /\ TickState(s)
  BY <1>1 DEF Basic, Local
<1>4. /\ GoesThrough(s.then) /\ s.a \in Agents /\ s.new \in Row
      /\ s.a \notin DOMAIN s.then.todo /\ Closes(s.then)
  BY <1>2, <1>3, Shapes DEF Local
<1>5. PICK t : t = s.then
  OBVIOUS
<1>6. TickState(t) /\ t.pc \in {"close", "decide", "seal"} /\ Local(t)
  BY <1>4, <1>5 DEF TickState, GoesThrough, Local
<1>7. Has(s, s.a) /\ Copy(s, s.a) = s.new
  BY <1>2, <1>3, Held
<1>8. \A b : Has(t, b) => b # s.a /\ Has(s, b) /\ Copy(t, b) = Copy(s, b)
  BY <1>2, <1>3, <1>4, <1>5, <1>6, Held
<1>9. \A b : ~Traded(t, b) /\ (Traded(s, b) => b = s.a)
  BY <1>6 DEF Traded
<1>10. Wrote(p, t, s.a)
  BY <1>1, <1>2, <1>4, <1>7, <1>8, <1>9 DEF Wrote
<1> QED
  BY <1>2, <1>5, <1>6, <1>10 DEF Progress, Goto

(* A tick is over. *)
LEMMA TickEndStep ==
    ASSUME BasketAssumption, Basic, NEW p \in Procs, TickEnd(p)
    PROVE  \E t : Progress(p, t)
BY Ends DEF TickEnd

(* A seal reads the rows of the agents it culls. *)
LEMMA SealStartStep ==
    ASSUME BasketAssumption, Basic, NEW p \in Procs, SealStart(p)
    PROVE  \E t : Progress(p, t)
<1>1. PICK C \in SUBSET alive :
        Read(p, C) /\ Goto(p, [pc |-> "seal", todo |-> Restrict(row, C), cull |-> C])
  BY DEF SealStart
<1>2. PICK t : t = [pc |-> "seal", todo |-> Restrict(row, C), cull |-> C]
  OBVIOUS
<1>3. C \in SUBSET Agents
  BY DEF Basic, TypeOK
<1>4. Copies(Restrict(row, C))
  BY <1>3, Loaded DEF Basic
<1>5. TickState(t) /\ Closes(t) /\ t.pc = "seal" /\ t.todo = Restrict(row, C)
  BY <1>2, <1>3, <1>4, Loops DEF TickState, Closes
<1>6. proc[p].pc # "persist" /\ Goto(p, t) /\ UNCHANGED <<row, log, torn>>
  BY <1>1, <1>2 DEF SealStart
<1> QED
  BY <1>1, <1>3, <1>5, <1>6, Reads

(* A seal is over. *)
LEMMA SealEndStep ==
    ASSUME BasketAssumption, Basic, NEW p \in Procs, SealEnd(p)
    PROVE  \E t : Progress(p, t)
BY Ends DEF SealEnd

(* A seal takes the next culled agent: what its basket is worth, or nothing to realize. *)
LEMMA RealizeStep ==
    ASSUME BasketAssumption, Basic, NEW p \in Procs, Realize(p)
    PROVE  \E t : Progress(p, t)
<1>1. PICK s : s = proc[p]
  OBVIOUS
<1>2. PICK todo : todo = s.todo
  OBVIOUS
<1>3. PICK a : a = At(todo)
  OBVIOUS
<1>4. s.pc = "seal" /\ DOMAIN todo # {} /\ UNCHANGED <<row, log, torn, stale>>
  BY <1>1, <1>2 DEF Realize
<1>5. /\ TickState(s) /\ Copies(todo) /\ s.cull \subseteq Agents
      /\ s = [pc |-> "seal", todo |-> todo, cull |-> s.cull]
  BY <1>1, <1>2, <1>4, Shapes DEF Basic, Local
<1>6. PICK rest : rest = [s EXCEPT !.todo = Rest(@)]
  OBVIOUS
<1>7. rest = [pc |-> "seal", todo |-> Rest(todo), cull |-> s.cull]
  BY <1>5, <1>6
<1>8. /\ todo[a] \in Row /\ Copies(Rest(todo))
      /\ \A b \in DOMAIN Rest(todo) : b \in DOMAIN todo /\ Rest(todo)[b] = todo[b]
  BY <1>3, <1>4, <1>5, LoopStep
<1>9. GoesThrough(rest) /\ Closes(rest) /\ rest.todo = Rest(todo) /\ rest.pc = "seal"
  BY <1>5, <1>7, <1>8, Loops DEF Closes
<1>10. CASE todo[a].pos = <<>>
  <2>1. Goto(p, rest)
    BY <1>1, <1>2, <1>3, <1>6, <1>10 DEF Realize
  <2>2. TickState(rest) /\ Local(rest)
    BY <1>9 DEF TickState, Local
  <2>3. \A b : Has(rest, b) => Has(s, b) /\ Copy(rest, b) = Copy(s, b)
    BY <1>2, <1>4, <1>5, <1>8, <1>9, <2>2, Held
  <2>4. Local(s) /\ TypeOK
    BY <1>1 DEF Basic
  <2>5. Moved(p, rest, {})
    BY <1>1, <1>4, <1>9, <2>2, <2>3, <2>4, Steps
  <2> QED
    BY <2>1, <2>2, <2>5 DEF Progress, Goto
<1>11. CASE todo[a].pos # <<>>
  <2>1. PICK left : left = [i \in DOMAIN todo[a].pos |-> todo[a].pos[i].m]
    OBVIOUS
  <2>2. left \in Seq(Markets)
    <3>1. PICK r \in Seq(Position) : r = todo[a].pos
      BY <1>8 DEF Row, Basket
    <3>4. Len(r) \in Nat /\ DOMAIN r = 1..Len(r) /\ \A i \in 1..Len(r) : r[i] \in Position
      OBVIOUS
    <3>5. \A pos \in Position : pos.m \in Markets
      BY DEF Position
    <3>2. Len(r) \in Nat /\ DOMAIN r = 1..Len(r) /\ \A i \in 1..Len(r) : r[i].m \in Markets
      BY <3>4, <3>5
    <3>3. left = [i \in 1..Len(r) |-> r[i].m]
      BY <2>1, <3>1, <3>2
    <3> QED
      BY <3>2, <3>3, IsASeq
  <2>3. Goto(p, Writing(a, todo[a], FALSE, left, rest))
    BY <1>1, <1>2, <1>3, <1>6, <1>11, <2>1 DEF Realize
  <2> QED
    BY <1>1, <1>2, <1>3, <1>4, <1>9, <2>2, <2>3, HeldFromLoop
<1> QED
  BY <1>10, <1>11

(* One insert per closed position, before the emptied row is written. *)
LEMMA RealizeOneStep ==
    ASSUME BasketAssumption, Basic, NEW p \in Procs, RealizeOne(p)
    PROVE  \E t : Progress(p, t)
<1>1. PICK s : s = proc[p]
  OBVIOUS
<1>2. s.pc = "persist" /\ s.left # <<>> /\ UNCHANGED <<row, torn, stale>>
  BY <1>1 DEF RealizeOne
<1>3. Local(s) /\ TickState(s) /\ TypeOK
  BY <1>1 DEF Basic, Local
<1>4. /\ GoesThrough(s.then) /\ s.a \in Agents /\ s.new \in Row /\ s.traded \in BOOLEAN
      /\ s.left \in Seq(Markets)
      /\ s = [pc |-> "persist", a |-> s.a, new |-> s.new, traded |-> s.traded,
              left |-> s.left, then |-> s.then]
      /\ s.a \notin DOMAIN s.then.todo /\ Closes(s.then)
  BY <1>2, <1>3, Shapes DEF Local
<1>5. PICK m : m = Head(s.left)
  OBVIOUS
<1>6. PICK rest : rest = [s EXCEPT !.left = Tail(@)]
  OBVIOUS
<1>7. rest = [pc |-> "persist", a |-> s.a, new |-> s.new, traded |-> s.traded,
              left |-> Tail(s.left), then |-> s.then]
  <2>1. PICK a, new, traded, left, then :
           s = [pc |-> "persist", a |-> a, new |-> new, traded |-> traded, left |-> left,
                then |-> then]
    BY <1>4
  <2>2. rest = [pc |-> "persist", a |-> a, new |-> new, traded |-> traded, left |-> Tail(left),
                then |-> then]
    BY ONLY <1>6, <2>1
  <2> QED
    BY ONLY <2>1, <2>2
<1>8. Tail(s.left) \in Seq(Markets)
  BY <1>2, <1>4
<1>9. ASSUME Goto(p, rest), UNCHANGED log
      PROVE  \E t : Progress(p, t)
  <2>1. rest \in [pc : {"persist"}, a : Agents, new : Row, traded : BOOLEAN,
                  left : Seq(Markets), then : {rest.then}]
    BY <1>4, <1>7, <1>8
  <2>2. Persists(rest)
    BY <1>4, <1>7, <2>1 DEF Persists
  <2>3. TickState(rest) /\ Local(rest)
    BY <1>4, <1>7, <2>2 DEF TickState, Local, Closes
  <2>4. \A b : Has(rest, b) => Has(s, b) /\ Copy(rest, b) = Copy(s, b)
    BY <1>2, <1>3, <1>7, <2>3, Held
  <2>5. \A b : Traded(rest, b) <=> Traded(s, b)
    BY <1>2, <1>7 DEF Traded
  <2>6. stale' = [stale EXCEPT ![p] = @ \ {}]
    BY <1>2 DEF Basic, TypeOK
  <2>7. Moved(p, rest, {})
    BY <1>1, <1>2, <1>9, <2>4, <2>5, <2>6 DEF Moved
  <2> QED
    BY <1>9, <2>3, <2>7 DEF Progress, Goto
<1>10. ASSUME Holds(s.new, m), NEW px \in Closings(m),
              NEW out, out = Exit(s.new, m, px, FALSE), Insert(s.a, out.trade),
              NEW t, t = [rest EXCEPT !.new = out.row, !.traded = TRUE], Goto(p, t)
       PROVE  \E u : Progress(p, u)
  <2>1. m \in Markets
    BY <1>4, <1>10, HeldPosition
  <2>2. px \in Int /\ px \in Quotes(m)
    <3>1. CASE m \in Spots
      <4>1. px \in ExitAt[m]
        BY <1>10, <3>1 DEF Closings
      <4> QED
        BY <2>1, <4>1, QuoteTypes DEF Quotes
    <3>2. CASE m \notin Spots
      <4>1. m \in Binaries /\ px = Outcome(m)
        BY <1>10, <2>1, <3>2 DEF Closings, Markets
      <4> QED
        BY <4>1 DEF Outcome, Quotes, BasketAssumption
    <3> QED
      BY <3>1, <3>2
  <2>3. Leaves(s.new, m, out)
    <3>1. PICK r \in Row : r = s.new
      BY <1>4
    <3>2. Leaves(r, m, Exit(r, m, px, FALSE))
      BY <1>10, <2>2, <3>1, ExitLeaves
    <3> QED
      BY <1>10, <3>1, <3>2
  <2>4. Moves(s.new, out)
    BY <2>3 DEF Moves
  <2>5. out.row \in Row
    BY <1>4, <2>4, MovesType
  <2>6. t = [pc |-> "persist", a |-> s.a, new |-> out.row, traded |-> TRUE,
             left |-> Tail(s.left), then |-> s.then]
    BY <1>7, <1>10
  <2>7. Persists(t)
    <3>1. t \in [pc : {"persist"}, a : Agents, new : Row, traded : BOOLEAN,
                 left : Seq(Markets), then : {t.then}]
      BY <1>4, <1>8, <2>5, <2>6
    <3> QED
      BY <1>4, <2>6, <3>1 DEF Persists
  <2>8. TickState(t) /\ Local(t)
    BY <1>4, <2>6, <2>7 DEF TickState, Local, Closes
  <2>9. Has(s, s.a) /\ Copy(s, s.a) = s.new /\ Has(t, s.a) /\ Copy(t, s.a) = out.row
    BY <1>2, <1>3, <2>6, <2>8, Held
  <2>10. \A b : Has(t, b) => Has(s, b) /\ (b # s.a => Copy(t, b) = Copy(s, b))
    BY <1>2, <1>3, <2>6, <2>8, Held
  <2>11. \A b : (Traded(t, b) <=> b = s.a) /\ (Traded(s, b) => b = s.a)
    BY <2>6 DEF Traded
  <2>12. Recorded(p, t, s.a, out)
    BY <1>1, <1>2, <1>4, <1>10, <2>4, <2>9, <2>10, <2>11 DEF Recorded
  <2> QED
    BY <1>10, <2>8, <2>12 DEF Progress, Goto
<1> QED
  <2>1. \/ Goto(p, rest) /\ UNCHANGED log
        \/ /\ Holds(s.new, m)
           /\ \E px \in Closings(m) :
                /\ Insert(s.a, Exit(s.new, m, px, FALSE).trade)
                /\ Goto(p, [rest EXCEPT !.new = Exit(s.new, m, px, FALSE).row, !.traded = TRUE])
    BY <1>1, <1>5, <1>6 DEF RealizeOne
  <2> QED
    BY <1>9, <1>10, <2>1

(* A process dies: what it had inserted and not written back is torn. *)
LEMMA CrashStep ==
    ASSUME BasketAssumption, Basic, NEW p \in Procs, Crash(p)
    PROVE  \E t : Progress(p, t)
<1>1. PICK s : s = proc[p]
  OBVIOUS
<1>2. Tear(HalfDone(p)) /\ Done(p) /\ UNCHANGED row
  BY DEF Crash
<1>3. TickState(s) /\ Local(s)
  BY <1>1 DEF Basic, Local
<1>4. HalfDone(p) \in SUBSET Agents
  <2>1. CASE s.pc = "persist"
    BY <1>1, <1>3, <2>1, Shapes DEF HalfDone
  <2>2. CASE s.pc = "await"
    <3>1. Copies(s.todo) /\ DOMAIN s.todo # {}
      BY <1>3, <2>2, Shapes DEF Local
    <3>2. At(s.todo) \in Agents
      BY <3>1, LoopStep
    <3> QED
      BY <1>1, <2>2, <3>2 DEF HalfDone
  <2>3. CASE s.pc \notin {"persist", "await"}
    BY <1>1, <2>3 DEF HalfDone
  <2> QED
    BY <2>1, <2>2, <2>3
<1>5. \A b : Traded(s, b) => b \in HalfDone(p)
  BY <1>1 DEF Traded, HalfDone
<1>6. Local(Idle)
  BY DEF Local, TickState, Idle, Closes
<1>7. Died(p, Idle)
  BY <1>1, <1>2, <1>4, <1>5 DEF Died, Done
<1> QED
  BY <1>2, <1>6, <1>7 DEF Progress, Done, Goto

(* Whatever a tick does is one of the four. *)
LEMMA TickSteps ==
    ASSUME BasketAssumption, Basic, NEW p \in Procs, Tick(p) \/ Crash(p)
    PROVE  \E t : Progress(p, t)
BY TickStartStep, ResolveStep, CloseStep, LoadStep, DecideStep, AnswerStep, PersistStep,
   TickEndStep, SealStartStep, RealizeStep, RealizeOneStep, SealEndStep, CrashStep DEF Tick

-----------------------------------------------------------------------------
(* Types. *)

\* What the rows, the log and the histories are.
Stored ==
    /\ row \in [Agents -> Row] /\ log \in [Agents -> Seq(Trade)] /\ torn \subseteq Agents
    /\ stale \in [Procs \cup {Rec} -> SUBSET Agents]

(* A write stores a row; a death, nothing. *)
LEMMA TearTypes ==
    ASSUME log \in [Agents -> Seq(Trade)], torn \subseteq Agents, NEW S \in SUBSET Agents, Tear(S)
    PROVE  log' \in [Agents -> Seq(Trade)] /\ torn' \subseteq Agents
<1>1. <<>> \in Seq(Trade)
  OBVIOUS
<1>2. log' = [a \in Agents |-> IF a \in S THEN <<>> ELSE log[a]] /\ torn' = torn \cup S
  BY DEF Tear
<1>3. \A a \in Agents : log[a] \in Seq(Trade)
  OBVIOUS
<1> QED
  BY <1>1, <1>2, <1>3

(* A write of a whole row keeps the tables typed. *)
LEMMA WriteTypes ==
    ASSUME Stored, NEW p \in Procs \cup {Rec}, NEW a \in Agents, NEW new \in Row, Write(p, a, new)
    PROVE  Stored'
<1>1. row' \in [Agents -> Row]
  BY DEF Write, Stored
<1>2. (IF a \in stale[p] THEN {a} ELSE {}) \in SUBSET Agents
  OBVIOUS
<1>3. log' \in [Agents -> Seq(Trade)] /\ torn' \subseteq Agents
  BY <1>2, TearTypes DEF Write, Stored
<1>4. stale' \in [Procs \cup {Rec} -> SUBSET Agents]
  <2>1. stale \in [Procs \cup {Rec} -> SUBSET Agents] /\ DOMAIN stale = Procs \cup {Rec}
    BY DEF Stored
  <2>2. \A q \in DOMAIN stale : stale[q] \subseteq Agents
    BY <2>1
  <2>3. stale' = [q \in DOMAIN stale |->
                    IF q = p THEN stale[p] \ {a}
                    ELSE IF proc[q] # Idle THEN stale[q] \cup {a}
                    ELSE stale[q]]
    BY DEF Write
  <2>4. \A q \in DOMAIN stale : (IF q = p THEN stale[p] \ {a}
                    ELSE IF proc[q] # Idle THEN stale[q] \cup {a}
                    ELSE stale[q]) \in SUBSET Agents
    BY <2>2
  <2> QED
    BY <2>1, <2>3, <2>4
<1> QED
  BY <1>1, <1>3, <1>4 DEF Stored

(* A trade is inserted into the log. *)
LEMMA InsertTypes ==
    ASSUME log \in [Agents -> Seq(Trade)], NEW a \in Agents, NEW trade \in Trade, Insert(a, trade)
    PROVE  log' \in [Agents -> Seq(Trade)]
<1>1. log[a] \in Seq(Trade) /\ Append(log[a], trade) \in Seq(Trade)
  OBVIOUS
<1> QED
  BY <1>1 DEF Insert

(* Each of the four kinds of step keeps the tables typed. *)
LEMMA ProgressTypes ==
    ASSUME BasketAssumption, Basic, NEW p \in Procs, NEW t, Progress(p, t)
    PROVE  Stored'
<1>0. Stored /\ TickState(proc[p])
  BY DEF Basic, TypeOK, Stored, Local
<1>1. ASSUME NEW R, Moved(p, t, R)
      PROVE  Stored'
  <2>1. UNCHANGED <<row, log, torn>> /\ stale' = [stale EXCEPT ![p] = @ \ R]
    BY <1>1 DEF Moved
  <2>2. stale[p] \ R \in SUBSET Agents
    BY <1>0 DEF Stored
  <2>3. stale' \in [Procs \cup {Rec} -> SUBSET Agents]
    BY <1>0, <2>1, <2>2 DEF Stored
  <2> QED
    BY <1>0, <2>1, <2>3 DEF Stored
<1>2. ASSUME NEW a, NEW out, Recorded(p, t, a, out)
      PROVE  Stored'
  <2>1. a \in Agents /\ Has(proc[p], a) /\ Moves(Copy(proc[p], a), out) /\ Insert(a, out.trade)
        /\ UNCHANGED <<row, torn, stale>>
    BY <1>2 DEF Recorded
  <2>2. Copy(proc[p], a) \in Row
    BY <1>0, <2>1, Held
  <2>3. out.trade \in Trade
    BY <2>1, <2>2, MovesType
  <2>4. log' \in [Agents -> Seq(Trade)]
    BY <1>0, <2>1, <2>3, InsertTypes DEF Stored
  <2> QED
    BY <1>0, <2>1, <2>4 DEF Stored
<1>3. ASSUME NEW a, Wrote(p, t, a)
      PROVE  Stored'
  <2>1. a \in Agents /\ Has(proc[p], a) /\ Write(p, a, Copy(proc[p], a))
    BY <1>3 DEF Wrote
  <2>2. Copy(proc[p], a) \in Row
    BY <1>0, <2>1, Held
  <2> QED
    BY <1>0, <2>1, <2>2, WriteTypes
<1>4. ASSUME Died(p, t)
      PROVE  Stored'
  <2>1. PICK S \in SUBSET Agents : Tear(S)
    BY <1>4 DEF Died
  <2>2. log' \in [Agents -> Seq(Trade)] /\ torn' \subseteq Agents
    BY <1>0, <2>1, TearTypes DEF Stored
  <2>3. row' = row /\ stale' = [stale EXCEPT ![p] = {}]
    BY <1>4 DEF Died
  <2>4. stale' \in [Procs \cup {Rec} -> SUBSET Agents]
    BY <1>0, <2>3 DEF Stored
  <2> QED
    BY <1>0, <2>2, <2>3, <2>4 DEF Stored
<1> QED
  BY <1>1, <1>2, <1>3, <1>4 DEF Progress

(* A live position without a fill. *)
LEMMA UnreconciledTypes ==
    ASSUME BasketAssumption, TypeOK, NEW u \in Unreconciled
    PROVE  /\ u \in [a : Agents, at : Nat \ {0}, shares : Int, paid : {n \in Int : n <= LiveCap}]
           /\ u.a \in alive /\ u.at \in DOMAIN row[u.a].pos
           /\ LET pos == row[u.a].pos[u.at]
              IN pos.live /\ u.shares = Filled(pos) /\ u.paid = pos.paid
<1>1. PICK a \in alive : u \in
        {[a |-> a, at |-> i, shares |-> Filled(row[a].pos[i]), paid |-> row[a].pos[i].paid] :
              i \in {j \in DOMAIN row[a].pos : LET pos == row[a].pos[j] IN
                        pos.live /\ pos.shares = 0 /\ pos.m \in Binaries}}
  BY DEF Unreconciled
<1>2. PICK i \in DOMAIN row[a].pos :
        /\ row[a].pos[i].live
        /\ u = [a |-> a, at |-> i, shares |-> Filled(row[a].pos[i]), paid |-> row[a].pos[i].paid]
  BY <1>1
<1>3. a \in Agents /\ row[a] \in Row
  BY DEF TypeOK
<1>4. row[a].pos \in Seq(Position)
  BY <1>3 DEF Row, Basket
<1>5. PICK pos \in Position : pos = row[a].pos[i]
  BY <1>4
<1>6. i \in Nat \ {0}
  BY <1>4
<1>7. Filled(pos) \in Int /\ pos.paid \in {n \in Int : n <= LiveCap}
  BY AmountTypes DEF Position
<1> QED
  BY <1>2, <1>3, <1>5, <1>6, <1>7

\* A live order whose fill is found, as it was listed.
Unrec == [a : Agents, at : Nat \ {0}, shares : Int, paid : {n \in Int : n <= LiveCap}]

\* f is s with the fill u.
Refilled(s, u, f) ==
    /\ u.at \in DOMAIN s /\ DOMAIN f = DOMAIN s
    /\ \A i \in DOMAIN s : i # u.at => f[i] = s[i]
    /\ f[u.at] = [s[u.at] EXCEPT !.shares = u.shares, !.paid = u.paid]

(* A fill written to a place of a basket changes that position's shares and what
   was paid for it, and nothing else. *)
LEMMA FillTypes ==
    ASSUME BasketAssumption, NEW s \in Basket, NEW u \in Unrec, u.at <= Len(s),
           NEW f, f = FillAt(s, u)
    PROVE  f \in Basket /\ Refilled(s, u, f)
<1>1. s \in Seq(Position) /\ \A i, j \in DOMAIN s : s[i].m = s[j].m => i = j
  BY DEF Basket
<1>2. u.at \in Nat \ {0} /\ u.shares \in Int /\ u.paid \in {n \in Int : n <= LiveCap}
  BY DEF Unrec
<1>3. u.at \in DOMAIN s /\ u.at \in 1..Len(s)
  BY <1>1, <1>2
<1>4. PICK k \in DOMAIN s : k = u.at
  BY <1>3
<1>5. PICK pos \in Position : pos = s[k]
  BY <1>1
<1>6. PICK new : new = [pos EXCEPT !.shares = u.shares, !.paid = u.paid]
  OBVIOUS
<1>7. pos = [id |-> pos.id, m |-> pos.m, side |-> pos.side, size |-> pos.size, px |-> pos.px,
             live |-> pos.live, paid |-> pos.paid, shares |-> pos.shares]
  BY DEF Position
<1>8. new = [id |-> pos.id, m |-> pos.m, side |-> pos.side, size |-> pos.size, px |-> pos.px,
             live |-> pos.live, paid |-> u.paid, shares |-> u.shares]
  BY <1>6, <1>7
<1>9. new \in Position /\ new.m = pos.m
  BY <1>2, <1>8 DEF Position
<1>10. f = [s EXCEPT ![k] = new]
  BY <1>4, <1>5, <1>6 DEF FillAt, Fill
<1>11. f \in Seq(Position) /\ DOMAIN f = DOMAIN s
  BY <1>1, <1>4, <1>9, <1>10
<1>12. f[k] = new /\ \A i \in DOMAIN s : i # k => f[i] = s[i]
  BY <1>10
<1>13. \A i \in DOMAIN s : f[i].m = s[i].m
  BY <1>5, <1>9, <1>12
<1>14. f \in Basket
  BY <1>1, <1>11, <1>13 DEF Basket
<1> QED
  BY <1>3, <1>4, <1>5, <1>6, <1>11, <1>12, <1>14 DEF Refilled

\* What the reconciler may be at.
RecState(t) == t \in {Idle} \cup Listed \cup Fills

(* The fields the reconciler has at each place. *)
LEMMA RecFields ==
    ASSUME NEW s, RecState(s)
    PROVE  /\ s.pc \in {"idle", "listed", "fill"}
           /\ s.pc = "listed" => s.todo \subseteq Unrec /\ s = [pc |-> "listed", todo |-> s.todo]
           /\ s.pc = "fill" => s.a \in Agents /\ s.then \in Listed /\ s.pos \in Basket
                               /\ s.then.todo \subseteq Unrec /\ s.then.pc = "listed"
BY DEF RecState, Idle, Listed, Fills, Unrec

(* The reconciler lists, and reads one basket after the other. *)
LEMMA RecReads ==
    ASSUME BasketAssumption, Basic, RecList \/ RecRead \/ RecEnd
    PROVE  /\ \E t : RecState(t) /\ proc' = [proc EXCEPT ![Rec] = t]
           /\ \E R \in SUBSET Agents : stale' = [stale EXCEPT ![Rec] = @ \ R]
           /\ UNCHANGED <<row, log, torn>>
<1>0. RecState(proc[Rec]) /\ TypeOK /\ stale[Rec] \in SUBSET Agents
  BY DEF Basic, TypeOK, RecState
<1>1. ASSUME RecList
      PROVE  \E t : RecState(t) /\ proc' = [proc EXCEPT ![Rec] = t]
  <2>1. PICK U \in SUBSET Unreconciled : Goto(Rec, [pc |-> "listed", todo |-> U])
    BY <1>1 DEF RecList
  <2>2. U \subseteq Unrec
    BY <1>0, UnreconciledTypes DEF Unrec
  <2>3. RecState([pc |-> "listed", todo |-> U])
    BY <2>2 DEF RecState, Listed, Unrec
  <2> QED
    BY <2>1, <2>3 DEF Goto
<1>2. ASSUME RecRead
      PROVE  \E t : RecState(t) /\ proc' = [proc EXCEPT ![Rec] = t]
  <2>1. PICK s : s = proc[Rec]
    OBVIOUS
  <2>2. s.pc = "listed"
    BY <1>2, <2>1 DEF RecRead
  <2>3. s.todo \subseteq Unrec /\ s = [pc |-> "listed", todo |-> s.todo]
    BY <1>0, <2>1, <2>2, RecFields
  <2>4. PICK u \in s.todo :
           LET rest == [s EXCEPT !.todo = @ \ {u}]
           IN IF u.at > Len(row[u.a].pos) THEN Goto(Rec, rest)
              ELSE Goto(Rec, [pc |-> "fill", a |-> u.a, then |-> rest,
                              pos |-> FillAt(row[u.a].pos, u)])
    BY <1>2, <2>1 DEF RecRead
  <2>5. PICK rest : rest = [s EXCEPT !.todo = @ \ {u}]
    OBVIOUS
  <2>6. rest = [pc |-> "listed", todo |-> s.todo \ {u}]
    BY ONLY <2>3, <2>5
  <2>7. rest \in Listed
    BY <2>3, <2>6 DEF Listed, Unrec
  <2>8. CASE u.at > Len(row[u.a].pos)
    BY <2>4, <2>5, <2>7, <2>8 DEF Goto, RecState
  <2>9. CASE ~(u.at > Len(row[u.a].pos))
    <3>1. u \in Unrec /\ u.a \in Agents /\ u.at \in Nat
      BY <2>3 DEF Unrec
    <3>2. PICK b \in Basket : b = row[u.a].pos
      BY <1>0, <3>1 DEF TypeOK, Row
    <3>3. u.at <= Len(b)
      <4>1. Len(b) \in Nat
        BY DEF Basket
      <4> QED
        BY <2>9, <3>1, <3>2, <4>1
    <3>4. FillAt(b, u) \in Basket
      BY <3>1, <3>3, FillTypes
    <3>5. RecState([pc |-> "fill", a |-> u.a, then |-> rest, pos |-> FillAt(b, u)])
      BY <2>7, <3>1, <3>4 DEF RecState, Fills
    <3> QED
      BY <2>4, <2>5, <2>9, <3>2, <3>5 DEF Goto
  <2> QED
    BY <2>8, <2>9
<1>3. ASSUME RecEnd
      PROVE  \E t : RecState(t) /\ proc' = [proc EXCEPT ![Rec] = t]
  BY <1>3 DEF RecEnd, Done, Goto, RecState
<1>4. ASSUME RecList
      PROVE  \E R \in SUBSET Agents : stale' = [stale EXCEPT ![Rec] = @ \ R]
  BY <1>0, <1>4 DEF RecList, Read, TypeOK
<1>5. ASSUME RecRead
      PROVE  stale' = [stale EXCEPT ![Rec] = @ \ {}]
  BY <1>0, <1>5 DEF RecRead, TypeOK
<1>6. ASSUME RecEnd
      PROVE  stale' = [stale EXCEPT ![Rec] = @ \ stale[Rec]]
  <2>1. stale[Rec] \ stale[Rec] = {}
    OBVIOUS
  <2> QED
    BY <1>6, <2>1 DEF RecEnd, Done
<1>7. \E R \in SUBSET Agents : stale' = [stale EXCEPT ![Rec] = @ \ R]
  BY <1>0, <1>4, <1>5, <1>6
<1>8. UNCHANGED <<row, log, torn>>
  BY DEF RecList, RecRead, RecEnd
<1>9. \E t : RecState(t) /\ proc' = [proc EXCEPT ![Rec] = t]
  BY <1>1, <1>2, <1>3
<1> QED
  BY <1>7, <1>8, <1>9

(* The reconciler writes a basket, over the one in the row. *)
LEMMA RecWrites ==
    ASSUME BasketAssumption, Basic, RecWrite
    PROVE  /\ proc[Rec].pc = "fill" /\ proc[Rec].a \in Agents
           /\ \E new \in Row : /\ new = [row[proc[Rec].a] EXCEPT !.pos = proc[Rec].pos]
                               /\ Write(Rec, proc[Rec].a, new)
           /\ RecState(proc[Rec].then) /\ proc' = [proc EXCEPT ![Rec] = proc[Rec].then]
<1>1. PICK s : s = proc[Rec]
  OBVIOUS
<1>2. RecState(s) /\ s.pc = "fill"
  BY <1>1 DEF RecWrite, Basic, TypeOK, RecState
<1>3. s.a \in Agents /\ s.pos \in Basket /\ s.then \in Listed
  BY <1>2, RecFields
<1>4. PICK r \in Row : r = row[s.a]
  BY <1>3 DEF Basic, TypeOK
<1>5. PICK new : new = [r EXCEPT !.pos = s.pos]
  OBVIOUS
<1>6. new \in Row
  BY <1>3, <1>5 DEF Row
<1>7. Write(Rec, s.a, new) /\ Goto(Rec, s.then)
  BY <1>1, <1>4, <1>5 DEF RecWrite
<1> QED
  BY <1>1, <1>2, <1>3, <1>4, <1>5, <1>6, <1>7 DEF Goto, RecState

(* The reconciler, its death included, stays at a known place and keeps the tables typed. *)
LEMMA RecSteps ==
    ASSUME BasketAssumption, Basic, Reconcile \/ Crash(Rec)
    PROVE  Stored' /\ \E t : RecState(t) /\ proc' = [proc EXCEPT ![Rec] = t]
<1>0. Stored
  BY DEF Basic, TypeOK, Stored
<1>1. CASE RecList \/ RecRead \/ RecEnd
  <2>1. PICK R \in SUBSET Agents : stale' = [stale EXCEPT ![Rec] = @ \ R]
    BY <1>1, RecReads
  <2>2. stale[Rec] \ R \in SUBSET Agents
    BY <1>0 DEF Stored
  <2>3. stale' \in [Procs \cup {Rec} -> SUBSET Agents]
    BY <1>0, <2>1, <2>2 DEF Stored
  <2> QED
    BY <1>0, <1>1, <2>3, RecReads DEF Stored
<1>2. CASE RecWrite
  <2>1. PICK new \in Row : Write(Rec, proc[Rec].a, new)
    BY <1>2, RecWrites
  <2>2. Stored'
    BY <1>0, <1>2, <2>1, RecWrites, WriteTypes
  <2> QED
    BY <1>2, <2>2, RecWrites
<1>3. CASE Crash(Rec)
  <2>1. Tear(HalfDone(Rec)) /\ Done(Rec) /\ UNCHANGED row
    BY <1>3 DEF Crash
  <2>2. proc[Rec].pc \in {"idle", "listed", "fill"}
    BY RecFields DEF Basic, TypeOK, RecState
  <2>3. HalfDone(Rec) \in SUBSET Agents
    BY <2>2 DEF HalfDone
  <2>4. log' \in [Agents -> Seq(Trade)] /\ torn' \subseteq Agents
    BY <1>0, <2>1, <2>3, TearTypes DEF Stored
  <2>5. stale' \in [Procs \cup {Rec} -> SUBSET Agents]
    BY <1>0, <2>1 DEF Stored, Done
  <2>6. RecState(Idle) /\ proc' = [proc EXCEPT ![Rec] = Idle]
    BY <2>1 DEF Done, Goto, RecState
  <2> QED
    BY <1>0, <2>1, <2>4, <2>5, <2>6 DEF Stored
<1> QED
  BY <1>1, <1>2, <1>3 DEF Reconcile

\* Agents, capsules and binaries.
World ==
    /\ alive \subseteq Agents /\ bound \subseteq Agents
    /\ binary \in [Binaries -> {"open", "expired", "due", "settled"}]
    /\ fate \in [Binaries -> BOOLEAN]

(* Who is alive or live, and the fate of each binary, keep their types. *)
LEMMA WorldStep ==
    ASSUME Basic, Next
    PROVE  World'
<1>0. World
  BY DEF Basic, TypeOK, World
<1>1. ASSUME NEW p \in Procs, Resolve(p)
      PROVE  World'
  <2>1. proc[p].pc = "resolve" /\ TickState(proc[p])
    BY <1>1 DEF Resolve, Basic, Local
  <2>2. proc[p].pending \subseteq Binaries
    BY <2>1, Shapes
  <2>3. \E m \in Binaries : \/ UNCHANGED binary
                            \/ binary' = [binary EXCEPT ![m] = "settled"]
    BY <1>1, <2>2 DEF Resolve
  <2>4. binary' \in [Binaries -> {"open", "expired", "due", "settled"}]
    BY <1>0, <2>3 DEF World
  <2> QED
    BY <1>0, <1>1, <2>4 DEF World, Resolve
<1>2. ASSUME NEW p \in Procs, Tick(p), ~Resolve(p), ~SealEnd(p)
      PROVE  UNCHANGED <<alive, bound, binary, fate>>
  BY <1>2 DEF Tick, TickStart, Close, Load, Decide, Answer, Persist, TickEnd, SealStart, Realize,
              RealizeOne
<1>3. ASSUME NEW p \in Procs, SealEnd(p)
      PROVE  World'
  BY <1>0, <1>3 DEF World, SealEnd
<1>4. ASSUME NEW p \in Procs \cup {Rec}, Crash(p)
      PROVE  UNCHANGED <<alive, bound, binary, fate>>
  BY <1>4 DEF Crash
<1>5. ASSUME Reconcile
      PROVE  UNCHANGED <<alive, bound, binary, fate>>
  BY <1>5 DEF Reconcile, RecList, RecRead, RecWrite, RecEnd
<1>6. ASSUME NEW m \in Binaries, Expire(m) \/ Candles(m)
      PROVE  World'
  BY <1>0, <1>6 DEF World, Expire, Candles
<1>7. ASSUME NEW a \in Agents, Switch(a)
      PROVE  World'
  BY <1>0, <1>7 DEF World, Switch
<1>8. UNCHANGED <<alive, bound, binary, fate>> => World'
  BY <1>0 DEF World
<1> QED
  BY <1>1, <1>2, <1>3, <1>4, <1>5, <1>6, <1>7, <1>8 DEF Next

\* The world outside moves on, and no process does.
Outside == \/ \E m \in Binaries : Expire(m) \/ Candles(m)
           \/ \E a \in Agents : Switch(a)
           \/ UNCHANGED vars

(* The system starts in the basic invariant. *)
LEMMA BasicInit == ASSUME BasketAssumption, Init PROVE Basic
<1>1. PICK r : r = [cash |-> Start, pos |-> <<>>, realized |-> 0, trades |-> 0, wins |-> 0,
                    entries |-> 0]
  OBVIOUS
<1>2. r \in Row
  <2>1. <<>> \in Basket
    BY DEF Basket
  <2>2. Start \in Int /\ 0 \in 0..MaxEntries
    BY DEF BasketAssumption
  <2> QED
    BY <1>1, <2>1, <2>2 DEF Row
<1>3. row = [a \in Agents |-> r]
  BY <1>1 DEF Init
<1>4. row \in [Agents -> Row]
  BY <1>2, <1>3
<1>5. log \in [Agents -> Seq(Trade)]
  BY DEF Init
<1>6. TickState(Idle) /\ Local(Idle)
  BY DEF TickState, Local, Idle, Closes
<1>7. proc = [p \in Procs \cup {Rec} |-> Idle]
  BY DEF Init
<1>8. /\ alive \subseteq Agents /\ bound \subseteq Agents /\ torn \subseteq Agents
      /\ binary \in [Binaries -> {"open", "expired", "due", "settled"}]
      /\ fate \in [Binaries -> BOOLEAN]
      /\ stale \in [Procs \cup {Rec} -> SUBSET Agents]
  BY DEF Init
<1>9. TypeOK
  BY <1>4, <1>5, <1>7, <1>8 DEF TypeOK
<1> QED
  BY <1>6, <1>7, <1>9 DEF Basic

(* Every step preserves the basic invariant: types, and what each process may have in hand. *)
LEMMA BasicStep == ASSUME BasketAssumption, Basic, [Next]_vars PROVE Basic'
<1>0. /\ Stored /\ World /\ "reconciler" \notin Procs
      /\ proc = [q \in Procs \cup {Rec} |-> proc[q]]
      /\ RecState(proc[Rec]) /\ \A q \in Procs : Local(proc[q])
  BY DEF Basic, TypeOK, Stored, World, BasketAssumption, RecState
<1>1. ASSUME Stored', World', RecState(proc'[Rec]), \A q \in Procs : Local(proc'[q]),
             proc' = [q \in Procs \cup {Rec} |-> proc'[q]]
      PROVE  Basic'
  <2>1. \A q \in Procs : TickState(proc'[q])
    BY <1>1 DEF Local
  <2>2. TypeOK'
    BY <1>1, <2>1 DEF TypeOK, Stored, World, TickState, RecState
  <2> QED
    BY <1>1, <2>2 DEF Basic
<1>2. ASSUME NEW p \in Procs, Tick(p) \/ Crash(p)
      PROVE  Basic'
  <2>1. PICK t : Progress(p, t)
    BY <1>2, TickSteps
  <2>2. Stored' /\ Local(t) /\ proc' = [proc EXCEPT ![p] = t]
    BY <2>1, ProgressTypes DEF Progress
  <2>3. World'
    BY <1>2, WorldStep DEF Next
  <2>4. p # Rec
    BY <1>0 DEF Rec
  <2>5. proc'[Rec] = proc[Rec] /\ proc' = [q \in Procs \cup {Rec} |-> proc'[q]]
        /\ \A q \in Procs : proc'[q] = IF q = p THEN t ELSE proc[q]
    BY <1>0, <2>2, <2>4
  <2> QED
    BY <1>0, <1>1, <2>2, <2>3, <2>5
<1>3. ASSUME Reconcile \/ Crash(Rec)
      PROVE  Basic'
  <2>1. PICK t : RecState(t) /\ proc' = [proc EXCEPT ![Rec] = t]
    BY <1>3, RecSteps
  <2>2. Stored'
    BY <1>3, RecSteps
  <2>3. World'
    BY <1>3, WorldStep DEF Next
  <2>4. \A q \in Procs : q # Rec
    BY <1>0 DEF Rec
  <2>5. proc'[Rec] = t /\ proc' = [q \in Procs \cup {Rec} |-> proc'[q]]
        /\ \A q \in Procs : proc'[q] = proc[q]
    BY <1>0, <2>1, <2>4
  <2> QED
    BY <1>0, <1>1, <2>1, <2>2, <2>3, <2>5
<1>4. ASSUME Outside
      PROVE  Basic'
  <2>1. UNCHANGED <<row, log, proc, stale, torn>>
    BY <1>4 DEF Outside, Expire, Candles, Switch, vars
  <2>2. World'
    <3>1. CASE UNCHANGED vars
      BY <1>0, <3>1 DEF World, vars
    <3>2. CASE ~UNCHANGED vars
      BY <1>4, <3>2, WorldStep DEF Outside, Next
    <3> QED
      BY <3>1, <3>2
  <2> QED
    BY <1>0, <1>1, <2>1, <2>2 DEF Stored
<1> QED
  BY <1>2, <1>3, <1>4 DEF Next, Outside

(* Rows, copies, trades and processes have their types, for any agents, ticks,
   markets and quotes. *)
THEOREM TypeCorrect == Spec => []TypeOK
<1>1. Basic => TypeOK
  BY DEF Basic
<1> QED
  BY <1>1, BasicInit, BasicStep, BasketAssumption, PTL DEF Spec

-----------------------------------------------------------------------------
(* Copies that nobody overtook are the rows. *)

Current ==
    \A p \in Procs : \A b :
        Has(proc[p], b) /\ b \notin stale[p] /\ ~Traded(proc[p], b) => Copy(proc[p], b) = row[b]

(* What a write changes. *)
LEMMA WriteEffects ==
    ASSUME Stored, NEW p \in Procs \cup {Rec}, NEW a \in Agents, NEW new, Write(p, a, new)
    PROVE  /\ row'[a] = new /\ \A b \in Agents : b # a => row'[b] = row[b]
           /\ stale'[p] = stale[p] \ {a}
           /\ \A q \in Procs \cup {Rec} : q # p =>
                 stale[q] \subseteq stale'[q] /\ (proc[q] # Idle => a \in stale'[q])
                 /\ \A b \in stale'[q] : b \in stale[q] \/ b = a
           /\ torn \subseteq torn' /\ (a \in stale[p] => a \in torn')
           /\ \A b \in torn' : b \in torn \/ (b = a /\ a \in stale[p])
           /\ \A b \in Agents : b \notin torn' => log'[b] = log[b]
<1>1. /\ row \in [Agents -> Row] /\ DOMAIN stale = Procs \cup {Rec} /\ log \in [Agents -> Seq(Trade)]
  BY DEF Stored
<1>2. row' = [row EXCEPT ![a] = new]
  BY DEF Write
<1>3. stale' = [q \in DOMAIN stale |->
                  IF q = p THEN stale[p] \ {a}
                  ELSE IF proc[q] # Idle THEN stale[q] \cup {a}
                  ELSE stale[q]]
  BY DEF Write
<1>4. PICK S : S = (IF a \in stale[p] THEN {a} ELSE {}) /\ Tear(S)
  BY DEF Write
<1>5. torn' = torn \cup S /\ log' = [b \in Agents |-> IF b \in S THEN <<>> ELSE log[b]]
  BY <1>4 DEF Tear
<1>6. row'[a] = new /\ \A b \in Agents : b # a => row'[b] = row[b]
  BY <1>1, <1>2
<1>7. /\ stale'[p] = stale[p] \ {a}
      /\ \A q \in Procs \cup {Rec} : q # p =>
            stale[q] \subseteq stale'[q] /\ (proc[q] # Idle => a \in stale'[q])
            /\ \A b \in stale'[q] : b \in stale[q] \/ b = a
  BY <1>1, <1>3
<1>8. /\ torn \subseteq torn' /\ (a \in stale[p] => a \in torn')
      /\ \A b \in torn' : b \in torn \/ (b = a /\ a \in stale[p])
  BY <1>4, <1>5
<1>9. \A b \in Agents : b \notin torn' => log'[b] = log[b]
  BY <1>5
<1> QED
  BY <1>6, <1>7, <1>8, <1>9

(* A tick that another process' step passes by either misses a write, and knows
   nothing of it, or has what the rows still are. *)
LEMMA Bystander ==
    ASSUME BasketAssumption, Basic, NEW p \in Procs \cup {Rec},
           NEW q \in Procs, q # p, NEW t,
           \/ p \in Procs /\ Progress(p, t)
           \/ p = Rec /\ (Reconcile \/ Crash(Rec))
    PROVE  /\ proc'[q] = proc[q]
           /\ \A b : Has(proc[q], b) /\ b \notin stale'[q] =>
                 b \notin stale[q] /\ row'[b] = row[b]
<1>0. /\ Stored /\ TickState(proc[q]) /\ q # Rec
      /\ DOMAIN stale = Procs \cup {Rec} /\ DOMAIN proc = Procs \cup {Rec}
  BY DEF Basic, TypeOK, Stored, Local, BasketAssumption, Rec
<1>1. proc'[q] = proc[q]
  <2>1. \E u : proc' = [proc EXCEPT ![p] = u]
    BY RecSteps DEF Progress
  <2> QED
    BY <1>0, <2>1
<1>2. ASSUME NEW a \in Agents, NEW new, Write(p, a, new)
      PROVE  \A b : Has(proc[q], b) /\ b \notin stale'[q] => b \notin stale[q] /\ row'[b] = row[b]
  <2>1. \A b : Has(proc[q], b) => b \in Agents /\ proc[q] # Idle
    BY <1>0, Held DEF Idle
  <2>2. /\ stale[q] \subseteq stale'[q] /\ (proc[q] # Idle => a \in stale'[q])
        /\ \A b \in Agents : b # a => row'[b] = row[b]
    BY <1>0, <1>2, WriteEffects
  <2> QED
    BY <2>1, <2>2
<1>3. ASSUME UNCHANGED row, stale'[q] = stale[q]
      PROVE  \A b : Has(proc[q], b) /\ b \notin stale'[q] => b \notin stale[q] /\ row'[b] = row[b]
  BY <1>3
<1>4. ASSUME p \in Procs, Progress(p, t)
      PROVE  \/ \E a \in Agents : \E new : Write(p, a, new)
             \/ UNCHANGED row /\ stale'[q] = stale[q]
  <2>1. ASSUME NEW R, Moved(p, t, R)
        PROVE  UNCHANGED row /\ stale'[q] = stale[q]
    BY <1>0, <2>1 DEF Moved
  <2>2. ASSUME NEW a, NEW out, Recorded(p, t, a, out)
        PROVE  UNCHANGED row /\ stale'[q] = stale[q]
    BY <2>2 DEF Recorded
  <2>3. ASSUME NEW a, Wrote(p, t, a)
        PROVE  \E b \in Agents : \E new : Write(p, b, new)
    BY <2>3 DEF Wrote
  <2>4. ASSUME Died(p, t)
        PROVE  UNCHANGED row /\ stale'[q] = stale[q]
    BY <1>0, <2>4 DEF Died
  <2> QED
    BY <1>4, <2>1, <2>2, <2>3, <2>4 DEF Progress
<1>5. ASSUME p = Rec, Reconcile \/ Crash(Rec)
      PROVE  \/ \E a \in Agents : \E new : Write(p, a, new)
             \/ UNCHANGED row /\ stale'[q] = stale[q]
  <2>1. CASE RecList \/ RecRead \/ RecEnd
    BY <1>0, <2>1, RecReads
  <2>2. CASE RecWrite
    BY <1>5, <2>2, RecWrites
  <2>3. CASE Crash(Rec)
    BY <1>0, <2>3 DEF Crash, Done
  <2> QED
    BY <1>5, <2>1, <2>2, <2>3 DEF Reconcile
<1> QED
  BY <1>1, <1>2, <1>3, <1>4, <1>5

(* A tick's own step. *)
LEMMA CurrentOwn ==
    ASSUME BasketAssumption, Basic, Current, NEW p \in Procs, NEW t, Progress(p, t), NEW b,
           Has(t, b), b \notin stale'[p], ~Traded(t, b)
    PROVE  Copy(t, b) = row'[b]
<1>0. Stored /\ TickState(t) /\ TickState(proc[p]) /\ p \in DOMAIN stale
  BY DEF Basic, TypeOK, Stored, Local, Progress
<1>1. ASSUME NEW R, Moved(p, t, R)
      PROVE  Copy(t, b) = row'[b]
  <2>1. stale'[p] = stale[p] \ R /\ row' = row
    BY <1>0, <1>1 DEF Moved
  <2> QED
    BY <1>1, <2>1 DEF Moved, Current
<1>2. ASSUME NEW a, NEW out, Recorded(p, t, a, out)
      PROVE  Copy(t, b) = row'[b]
  BY <1>2 DEF Recorded, Current
<1>3. ASSUME NEW a, Wrote(p, t, a)
      PROVE  Copy(t, b) = row'[b]
  <2>1. a \in Agents /\ Write(p, a, Copy(proc[p], a)) /\ b # a /\ Has(proc[p], b)
        /\ Copy(t, b) = Copy(proc[p], b) /\ ~Traded(proc[p], b)
    BY <1>3 DEF Wrote
  <2>2. b \in Agents /\ row'[b] = row[b] /\ stale'[p] = stale[p] \ {a}
    BY <1>0, <2>1, Held, WriteEffects
  <2> QED
    BY <2>1, <2>2 DEF Current
<1>4. ASSUME Died(p, t)
      PROVE  FALSE
  <2>1. t.pc = "idle"
    BY <1>4 DEF Died, Idle
  <2> QED
    BY <1>0, <2>1, Held
<1> QED
  BY <1>1, <1>2, <1>3, <1>4 DEF Progress

(* A copy that nobody wrote behind its reader equals the row, until its reader traded on it. *)
LEMMA CurrentStep ==
    ASSUME BasketAssumption, Basic, Current, [Next]_vars
    PROVE  Current'
<1>0. "reconciler" \notin Procs /\ DOMAIN proc = Procs \cup {Rec}
  BY DEF BasketAssumption, Basic
<1>1. ASSUME NEW p \in Procs, Tick(p) \/ Crash(p)
      PROVE  Current'
  <2>1. PICK t : Progress(p, t)
    BY <1>1, TickSteps
  <2>2. proc' = [proc EXCEPT ![p] = t] /\ proc'[p] = t
    BY <1>0, <2>1 DEF Progress
  <2>3. ASSUME NEW q \in Procs, NEW b, Has(proc'[q], b), b \notin stale'[q], ~Traded(proc'[q], b)
        PROVE  Copy(proc'[q], b) = row'[b]
    <3>1. CASE q = p
      BY <2>1, <2>2, <2>3, <3>1, CurrentOwn
    <3>2. CASE q # p
      <4>1. proc'[q] = proc[q] /\ (Has(proc[q], b) /\ b \notin stale'[q] =>
                                       b \notin stale[q] /\ row'[b] = row[b])
        BY <2>1, <3>2, Bystander
      <4> QED
        BY <2>3, <4>1 DEF Current
    <3> QED
      BY <3>1, <3>2
  <2> QED
    BY <2>3 DEF Current
<1>2. ASSUME Reconcile \/ Crash(Rec)
      PROVE  Current'
  <2>1. ASSUME NEW q \in Procs, NEW b, Has(proc'[q], b), b \notin stale'[q], ~Traded(proc'[q], b)
        PROVE  Copy(proc'[q], b) = row'[b]
    <3>1. q # Rec
      BY <1>0 DEF Rec
    <3>2. proc'[q] = proc[q] /\ (Has(proc[q], b) /\ b \notin stale'[q] =>
                                     b \notin stale[q] /\ row'[b] = row[b])
      BY <1>2, <3>1, Bystander
    <3> QED
      BY <2>1, <3>2 DEF Current
  <2> QED
    BY <2>1 DEF Current
<1>3. ASSUME Outside
      PROVE  Current'
  <2>1. UNCHANGED <<row, proc, stale>>
    BY <1>3 DEF Outside, Expire, Candles, Switch, vars
  <2> QED
    BY <2>1 DEF Current
<1> QED
  BY <1>1, <1>2, <1>3 DEF Next, Outside

-----------------------------------------------------------------------------
(* Where rows and copies come from. *)

\* q's copy of b is the row, the copy it had, or that copy moved.
CopyComesFrom(q, b) ==
    \/ Copy(proc'[q], b) = row[b]
    \/ /\ Has(proc[q], b)
       /\ \/ Copy(proc'[q], b) = Copy(proc[q], b)
          \/ \E out : Moves(Copy(proc[q], b), out) /\ Copy(proc'[q], b) = out.row

\* The row of b is what it was, some process' copy, or has the reconciler's basket.
RowComesFrom(b) ==
    \/ row'[b] = row[b]
    \/ \E q \in Procs : Has(proc[q], b) /\ row'[b] = Copy(proc[q], b)
    \/ /\ proc[Rec].pc = "fill" /\ proc[Rec].a = b
       /\ row'[b] = [row[b] EXCEPT !.pos = proc[Rec].pos]
       /\ b \in stale[Rec] => b \in torn'

(* A tick's step. *)
LEMMA ProgressOrigins ==
    ASSUME BasketAssumption, Basic, NEW p \in Procs, NEW t, Progress(p, t), NEW b \in Agents
    PROVE  /\ torn \subseteq torn'
           /\ Has(proc'[p], b) => CopyComesFrom(p, b)
           /\ row'[b] = row[b] \/ (Has(proc[p], b) /\ row'[b] = Copy(proc[p], b))
<1>0. Stored /\ TickState(t) /\ proc'[p] = t
  BY DEF Basic, TypeOK, Stored, Local, Progress
<1>1. ASSUME NEW R, Moved(p, t, R)
      PROVE  UNCHANGED <<row, torn>> /\ (Has(t, b) => CopyComesFrom(p, b))
  BY <1>0, <1>1 DEF Moved, CopyComesFrom
<1>2. ASSUME NEW a, NEW out, Recorded(p, t, a, out)
      PROVE  UNCHANGED <<row, torn>> /\ (Has(t, b) => CopyComesFrom(p, b))
  <2>1. UNCHANGED <<row, torn>> /\ Has(proc[p], a) /\ Moves(Copy(proc[p], a), out)
        /\ Copy(t, a) = out.row
        /\ (Has(t, b) => Has(proc[p], b) /\ (b # a => Copy(t, b) = Copy(proc[p], b)))
    BY <1>2 DEF Recorded
  <2> QED
    BY <1>0, <2>1 DEF CopyComesFrom
<1>3. ASSUME NEW a, Wrote(p, t, a)
      PROVE  /\ torn \subseteq torn'
             /\ Has(t, b) => CopyComesFrom(p, b)
             /\ row'[b] = row[b] \/ (Has(proc[p], b) /\ row'[b] = Copy(proc[p], b))
  <2>1. a \in Agents /\ Has(proc[p], a) /\ Write(p, a, Copy(proc[p], a))
        /\ (Has(t, b) => b # a /\ Has(proc[p], b) /\ Copy(t, b) = Copy(proc[p], b))
    BY <1>3 DEF Wrote
  <2>2. torn \subseteq torn' /\ row'[a] = Copy(proc[p], a) /\ (b # a => row'[b] = row[b])
    BY <1>0, <2>1, WriteEffects
  <2> QED
    BY <1>0, <2>1, <2>2 DEF CopyComesFrom
<1>4. ASSUME Died(p, t)
      PROVE  UNCHANGED row /\ torn \subseteq torn' /\ ~Has(t, b)
  <2>1. t.pc = "idle" /\ UNCHANGED row /\ torn \subseteq torn'
    BY <1>4 DEF Died, Idle, Tear
  <2> QED
    BY <1>0, <2>1, Held
<1> QED
  BY <1>0, <1>1, <1>2, <1>3, <1>4 DEF Progress

(* Where a row or a copy comes from in a step: unchanged, read, traded, written or refilled. *)
LEMMA Origins ==
    ASSUME BasketAssumption, Basic, [Next]_vars, NEW b \in Agents
    PROVE  /\ torn \subseteq torn' /\ RowComesFrom(b)
           /\ \A q \in Procs : Has(proc'[q], b) => CopyComesFrom(q, b)
<1>0. "reconciler" \notin Procs /\ Stored
  BY DEF BasketAssumption, Basic, TypeOK, Stored
<1>1. ASSUME NEW q \in Procs, proc'[q] = proc[q], Has(proc'[q], b)
      PROVE  CopyComesFrom(q, b)
  BY <1>1 DEF CopyComesFrom
<1>2. ASSUME NEW p \in Procs, Tick(p) \/ Crash(p)
      PROVE  /\ torn \subseteq torn' /\ RowComesFrom(b)
             /\ \A q \in Procs : Has(proc'[q], b) => CopyComesFrom(q, b)
  <2>1. PICK t : Progress(p, t)
    BY <1>2, TickSteps
  <2>2. /\ torn \subseteq torn'
        /\ Has(proc'[p], b) => CopyComesFrom(p, b)
        /\ row'[b] = row[b] \/ (Has(proc[p], b) /\ row'[b] = Copy(proc[p], b))
    BY <2>1, ProgressOrigins
  <2>3. \A q \in Procs : q # p => proc'[q] = proc[q]
    BY <2>1 DEF Progress, Basic
  <2> QED
    BY <1>1, <2>2, <2>3 DEF RowComesFrom
<1>3. ASSUME Reconcile \/ Crash(Rec)
      PROVE  /\ torn \subseteq torn' /\ RowComesFrom(b)
             /\ \A q \in Procs : Has(proc'[q], b) => CopyComesFrom(q, b)
  <2>1. \A q \in Procs : proc'[q] = proc[q]
    <3>1. \E t : proc' = [proc EXCEPT ![Rec] = t]
      BY <1>3, RecSteps
    <3> QED
      BY <1>0, <3>1 DEF Basic, Rec
  <2>2. torn \subseteq torn' /\ RowComesFrom(b)
    <3>1. CASE RecList \/ RecRead \/ RecEnd
      BY <3>1, RecReads DEF RowComesFrom
    <3>2. CASE Crash(Rec)
      BY <3>2 DEF Crash, Tear, RowComesFrom
    <3>3. CASE RecWrite
      <4>1. PICK s : s = proc[Rec]
        OBVIOUS
      <4>2. s.pc = "fill" /\ s.a \in Agents
        BY <3>3, <4>1, RecWrites
      <4>3. PICK new : new = [row[s.a] EXCEPT !.pos = s.pos] /\ Write(Rec, s.a, new)
        BY <3>3, <4>1, RecWrites
      <4>4. /\ row'[s.a] = new /\ \A x \in Agents : x # s.a => row'[x] = row[x]
            /\ torn \subseteq torn' /\ (s.a \in stale[Rec] => s.a \in torn')
        BY <1>0, <4>2, <4>3, WriteEffects
      <4>5. CASE b # s.a
        BY <4>4, <4>5 DEF RowComesFrom
      <4>6. CASE b = s.a
        <5>1. row'[b] = [row[b] EXCEPT !.pos = s.pos]
          BY <4>3, <4>4, <4>6
        <5> QED
          BY <4>1, <4>2, <4>4, <4>6, <5>1 DEF RowComesFrom
      <4> QED
        BY <4>4, <4>5, <4>6
    <3> QED
      BY <1>3, <3>1, <3>2, <3>3 DEF Reconcile
  <2> QED
    BY <1>1, <2>1, <2>2
<1>4. ASSUME Outside
      PROVE  UNCHANGED <<row, proc, torn>>
  BY <1>4 DEF Outside, Expire, Candles, Switch, vars
<1>5. UNCHANGED <<row, proc, torn>> => 
             /\ torn \subseteq torn' /\ RowComesFrom(b)
             /\ \A q \in Procs : Has(proc'[q], b) => CopyComesFrom(q, b)
  BY <1>1 DEF RowComesFrom
<1> QED
  BY <1>2, <1>3, <1>4, <1>5 DEF Next, Outside

-----------------------------------------------------------------------------
(* What was paid for live positions, and the fills written to them. *)

SoundPos(pos) ==
    /\ pos.live => pos.paid <= pos.size
    /\ pos.shares # 0 => pos.live /\ pos.shares = Filled(pos)

SoundRow(r) == \A pos \in Positions(r) : SoundPos(pos)

Sound ==
    \A a \in Agents \ torn :
        /\ SoundRow(row[a])
        /\ \A p \in Procs : Has(proc[p], a) => SoundRow(Copy(proc[p], a))

\* A live order as it was listed.
Matching(u, r) ==
    /\ u \in Unrec /\ u.at \in DOMAIN r.pos
    /\ r.pos[u.at].live /\ u.shares = Filled(r.pos[u.at]) /\ u.paid = r.pos[u.at].paid

RecTodo(s) ==
    IF s.pc = "listed" THEN s.todo ELSE IF s.pc = "fill" THEN s.then.todo ELSE {}

\* The orders the reconciler still goes through are those of the baskets that
\* nobody rewrote; so is the basket it is about to write.
RecKept ==
    /\ \A u \in RecTodo(proc[Rec]) : u.a \notin torn \cup stale[Rec] => Matching(u, row[u.a])
    /\ proc[Rec].pc = "fill" /\ proc[Rec].a \notin torn \cup stale[Rec] =>
          \E u : /\ Matching(u, row[proc[Rec].a])
                 /\ proc[Rec].pos = FillAt(row[proc[Rec].a].pos, u)

(* Ways out and in keep the positions sound. *)
LEMMA MovesSound ==
    ASSUME BasketAssumption, NEW r \in Row, SoundRow(r), NEW out, Moves(r, out)
    PROVE  SoundRow(out.row)
<1>1. PICK q : q = out.row
  OBVIOUS
<1>2. ASSUME NEW m, Leaves(r, m, out)
      PROVE  SoundRow(q)
  <2>1. LeftBy(r, m, out.trade, q)
    BY <1>1, <1>2, LeavesRow
  <2> QED
    BY <2>1 DEF SoundRow, LeftBy
<1>3. ASSUME NEW pos, Joins(r, pos, out)
      PROVE  SoundRow(q)
  <2>1. GrownBy(r, pos, FeeOn(pos.m, pos.size), q) /\ pos \in Position
    BY <1>1, <1>3, JoinsRow
  <2>2. pos.paid = (IF pos.live THEN Least(pos.size, LiveCap) ELSE 0) /\ pos.shares = 0
    BY <1>3 DEF Joins
  <2>3. pos.size \in Int /\ LiveCap \in Int
    BY <2>1 DEF Position, BasketAssumption
  <2>4. SoundPos(pos)
    BY <2>2, <2>3 DEF SoundPos, Least
  <2> QED
    BY <2>1, <2>4 DEF SoundRow, GrownBy
<1> QED
  BY <1>1, <1>2, <1>3 DEF Moves

(* A fill written to the position it was found for. *)
LEMMA FillSound ==
    ASSUME BasketAssumption, NEW r \in Row, SoundRow(r), NEW u, Matching(u, r),
           NEW q, q = [r EXCEPT !.pos = FillAt(r.pos, u)]
    PROVE  /\ SoundRow(q)
           /\ \A v : Matching(v, r) => Matching(v, q)
<1>1. PICK s \in Basket : s = r.pos
  BY DEF Row
<1>2. u \in Unrec /\ u.at \in DOMAIN s
  BY <1>1 DEF Matching
<1>3. s \in Seq(Position) /\ DOMAIN s = 1..Len(s) /\ u.at <= Len(s)
  BY <1>2 DEF Basket
<1>4. PICK f : f = FillAt(s, u)
  OBVIOUS
<1>5. /\ DOMAIN f = DOMAIN s
      /\ \A i \in DOMAIN s : i # u.at => f[i] = s[i]
      /\ f[u.at] = [s[u.at] EXCEPT !.shares = u.shares, !.paid = u.paid]
  <2>1. u \in Unrec /\ u.at <= Len(s)
    BY <1>2, <1>3
  <2>2. Refilled(s, u, f)
    BY <1>4, <2>1, FillTypes
  <2> QED
    BY <2>2 DEF Refilled
<1>6. q.pos = f
  <2>1. r = [cash |-> r.cash, pos |-> r.pos, realized |-> r.realized, trades |-> r.trades,
             wins |-> r.wins, entries |-> r.entries]
    BY DEF Row
  <2> QED
    BY <1>1, <1>4, <2>1
<1>7. PICK pos \in Position : pos = s[u.at]
  BY <1>2, <1>3
<1>8. pos.live /\ u.shares = Filled(pos) /\ u.paid = pos.paid
  BY <1>1, <1>7 DEF Matching
<1>9. PICK new : new = f[u.at]
  OBVIOUS
<1>10. /\ new.live = pos.live /\ new.paid = pos.paid /\ new.size = pos.size
       /\ new.shares = u.shares /\ new.side = pos.side /\ new.px = pos.px
  BY <1>5, <1>7, <1>8, <1>9 DEF Position
<1>11. Filled(new) = Filled(pos)
  BY <1>10 DEF Filled
<1>12. SoundPos(pos)
  BY <1>1, <1>2, <1>7 DEF SoundRow, Positions
<1>13. SoundPos(new)
  BY <1>8, <1>10, <1>11, <1>12 DEF SoundPos
<1>14. SoundRow(q)
  <2>1. \A i \in DOMAIN s : SoundPos(s[i])
    BY <1>1 DEF SoundRow, Positions
  <2>2. \A i \in DOMAIN f : SoundPos(f[i])
    BY <1>5, <1>9, <1>13, <2>1
  <2> QED
    BY <1>6, <2>2 DEF SoundRow, Positions
<1>15. ASSUME NEW v, Matching(v, r)
       PROVE  Matching(v, q)
  <2>1. v \in Unrec /\ v.at \in DOMAIN s
        /\ s[v.at].live /\ v.shares = Filled(s[v.at]) /\ v.paid = s[v.at].paid
    BY <1>1, <1>15 DEF Matching
  <2>2. CASE v.at = u.at
    <3>1. v.at \in DOMAIN q.pos /\ q.pos[v.at] = new /\ s[v.at] = pos
      BY <1>2, <1>5, <1>6, <1>7, <1>9, <2>2
    <3>2. new.live /\ v.shares = Filled(new) /\ v.paid = new.paid
      BY <1>10, <1>11, <2>1, <3>1
    <3> QED
      BY <2>1, <3>1, <3>2 DEF Matching
  <2>3. CASE v.at # u.at
    BY <1>5, <1>6, <2>1, <2>3 DEF Matching
  <2> QED
    BY <2>2, <2>3
<1> QED
  BY <1>14, <1>15

(* The reconciler knows of the writes it missed. *)
LEMMA RecBystander ==
    ASSUME BasketAssumption, Basic, NEW p \in Procs, NEW t, Progress(p, t)
    PROVE  /\ proc'[Rec] = proc[Rec] /\ torn \subseteq torn'
           /\ \A b \in Agents : proc[Rec] # Idle /\ b \notin stale'[Rec] =>
                 b \notin stale[Rec] /\ row'[b] = row[b]
<1>0. /\ Stored /\ p # Rec
      /\ DOMAIN stale = Procs \cup {Rec} /\ DOMAIN proc = Procs \cup {Rec}
  BY DEF Basic, TypeOK, Stored, BasketAssumption, Rec
<1>1. proc'[Rec] = proc[Rec]
  BY <1>0 DEF Progress
<1>2. ASSUME NEW R, Moved(p, t, R)
      PROVE  UNCHANGED <<row, torn>> /\ stale'[Rec] = stale[Rec]
  BY <1>0, <1>2 DEF Moved
<1>3. ASSUME NEW a, NEW out, Recorded(p, t, a, out)
      PROVE  UNCHANGED <<row, torn>> /\ stale'[Rec] = stale[Rec]
  BY <1>3 DEF Recorded
<1>4. ASSUME NEW a, Wrote(p, t, a)
      PROVE  /\ torn \subseteq torn'
             /\ \A b \in Agents : proc[Rec] # Idle /\ b \notin stale'[Rec] =>
                   b \notin stale[Rec] /\ row'[b] = row[b]
  <2>1. a \in Agents /\ Write(p, a, Copy(proc[p], a))
    BY <1>4 DEF Wrote
  <2>2. /\ torn \subseteq torn' /\ \A b \in Agents : b # a => row'[b] = row[b]
        /\ stale[Rec] \subseteq stale'[Rec] /\ (proc[Rec] # Idle => a \in stale'[Rec])
    BY <1>0, <2>1, WriteEffects
  <2> QED
    BY <2>2
<1>5. ASSUME Died(p, t)
      PROVE  UNCHANGED row /\ torn \subseteq torn' /\ stale'[Rec] = stale[Rec]
  BY <1>0, <1>5 DEF Died, Tear
<1> QED
  BY <1>1, <1>2, <1>3, <1>4, <1>5 DEF Progress

(* What the reconciler knows of a fill stays true of the position it will write. *)
LEMMA RecKeptStep ==
    ASSUME BasketAssumption, Basic, Sound, RecKept, [Next]_vars
    PROVE  RecKept'
<1>0. PICK s : s = proc[Rec]
  OBVIOUS
<1>1. /\ RecState(s) /\ Stored /\ DOMAIN stale = Procs \cup {Rec} /\ DOMAIN proc = Procs \cup {Rec}
      /\ TypeOK
  BY <1>0 DEF Basic, TypeOK, RecState, Stored
<1>2. \A u \in RecTodo(s) : u.a \in Agents /\ s # Idle
  BY <1>1, RecFields DEF RecTodo, Unrec, Idle
<1>3. ASSUME NEW p \in Procs, Tick(p) \/ Crash(p)
      PROVE  RecKept'
  <2>1. PICK t : Progress(p, t)
    BY <1>3, TickSteps
  <2>2. /\ proc'[Rec] = s /\ torn \subseteq torn'
        /\ \A b \in Agents : s # Idle /\ b \notin stale'[Rec] =>
              b \notin stale[Rec] /\ row'[b] = row[b]
    BY <1>0, <2>1, RecBystander
  <2>3. s.pc = "fill" => s.a \in Agents /\ s # Idle
    BY <1>1, RecFields DEF Idle
  <2>4. ASSUME NEW u \in RecTodo(s), u.a \notin torn' \cup stale'[Rec]
        PROVE  Matching(u, row'[u.a])
    BY <1>0, <1>2, <2>2, <2>4 DEF RecKept
  <2>5. ASSUME s.pc = "fill", s.a \notin torn' \cup stale'[Rec]
        PROVE  \E u : Matching(u, row'[s.a]) /\ s.pos = FillAt(row'[s.a].pos, u)
    <3>1. row'[s.a] = row[s.a] /\ s.a \notin torn \cup stale[Rec]
      BY <2>2, <2>3, <2>5
    <3> QED
      BY <1>0, <2>5, <3>1 DEF RecKept
  <2> QED
    BY <2>2, <2>4, <2>5 DEF RecKept
<1>4. ASSUME RecList
      PROVE  RecKept'
  <2>1. PICK U \in SUBSET Unreconciled :
           Goto(Rec, [pc |-> "listed", todo |-> U]) /\ UNCHANGED row
    BY <1>4 DEF RecList
  <2>2. proc'[Rec] = [pc |-> "listed", todo |-> U]
    BY <1>1, <2>1 DEF Goto
  <2>3. proc'[Rec].pc = "listed" /\ RecTodo(proc'[Rec]) = U
    BY <2>2 DEF RecTodo
  <2>4. \A u \in U : Matching(u, row[u.a])
    BY <1>1, UnreconciledTypes DEF Matching, Unrec
  <2> QED
    BY <2>1, <2>3, <2>4 DEF RecKept
<1>5. ASSUME RecRead
      PROVE  RecKept'
  <2>1. s.pc = "listed" /\ UNCHANGED <<row, torn, stale>>
    BY <1>0, <1>5 DEF RecRead
  <2>2. PICK u \in s.todo :
           LET rest == [s EXCEPT !.todo = @ \ {u}]
           IN IF u.at > Len(row[u.a].pos) THEN Goto(Rec, rest)
              ELSE Goto(Rec, [pc |-> "fill", a |-> u.a, then |-> rest,
                              pos |-> FillAt(row[u.a].pos, u)])
    BY <1>0, <1>5 DEF RecRead
  <2>3. PICK rest : rest = [s EXCEPT !.todo = @ \ {u}]
    OBVIOUS
  <2>4. s = [pc |-> "listed", todo |-> s.todo]
    BY <1>1, <2>1, RecFields
  <2>5. rest.pc = "listed" /\ rest.todo = s.todo \ {u}
    BY <2>3, <2>4
  <2>6. RecTodo(s) = s.todo /\ u \in RecTodo(s)
    BY <2>1 DEF RecTodo
  <2>7. CASE u.at > Len(row[u.a].pos)
    <3>1. proc'[Rec] = rest
      BY <1>1, <2>2, <2>3, <2>7 DEF Goto
    <3>2. RecTodo(rest) \subseteq RecTodo(s) /\ rest.pc # "fill"
      BY <2>5, <2>6 DEF RecTodo
    <3> QED
      BY <1>0, <2>1, <3>1, <3>2 DEF RecKept
  <2>8. CASE ~(u.at > Len(row[u.a].pos))
    <3>1. PICK w : w = [pc |-> "fill", a |-> u.a, then |-> rest, pos |-> FillAt(row[u.a].pos, u)]
      OBVIOUS
    <3>2. proc'[Rec] = w
      BY <1>1, <2>2, <2>3, <2>8, <3>1 DEF Goto
    <3>3. w.pc = "fill" /\ w.a = u.a /\ w.pos = FillAt(row[u.a].pos, u) /\ w.then = rest
      BY <3>1
    <3>4. RecTodo(w) \subseteq RecTodo(s)
      BY <2>5, <2>6, <3>3 DEF RecTodo
    <3>5. \A v \in RecTodo(w) : v.a \notin torn \cup stale[Rec] => Matching(v, row[v.a])
      BY <1>0, <3>4 DEF RecKept
    <3>6. u.a \notin torn \cup stale[Rec] => Matching(u, row[u.a])
      BY <1>0, <2>6 DEF RecKept
    <3> QED
      BY <2>1, <3>2, <3>3, <3>5, <3>6 DEF RecKept
  <2> QED
    BY <2>7, <2>8
<1>6. ASSUME RecWrite
      PROVE  RecKept'
  <2>1. s.pc = "fill" /\ s.a \in Agents /\ proc' = [proc EXCEPT ![Rec] = s.then] /\ s.then.pc = "listed"
    BY <1>0, <1>1, <1>6, RecWrites, RecFields
  <2>2. proc'[Rec] = s.then
    BY <1>1, <2>1
  <2>3. PICK a \in Agents : a = s.a
    BY <2>1
  <2>4. PICK new : new = [row[a] EXCEPT !.pos = s.pos] /\ Write(Rec, a, new)
    BY <1>0, <1>6, <2>3, RecWrites
  <2>5. /\ row'[a] = new /\ \A b \in Agents : b # a => row'[b] = row[b]
        /\ stale'[Rec] = stale[Rec] \ {a}
        /\ torn \subseteq torn' /\ (a \in stale[Rec] => a \in torn')
    BY <1>1, <2>4, WriteEffects
  <2>6. RecTodo(s.then) = RecTodo(s)
    BY <2>1 DEF RecTodo
  <2>7. ASSUME NEW v \in RecTodo(s), v.a \notin torn' \cup stale'[Rec]
        PROVE  Matching(v, row'[v.a])
    <3>1. CASE v.a # a
      BY <1>0, <1>2, <2>5, <2>7, <3>1 DEF RecKept
    <3>2. CASE v.a = a
      <4>1. a \notin torn \cup stale[Rec]
        BY <2>5, <2>7, <3>2
      <4>2. PICK u : Matching(u, row[a]) /\ s.pos = FillAt(row[a].pos, u)
        BY <1>0, <2>1, <2>3, <4>1 DEF RecKept
      <4>3. PICK r \in Row : r = row[a]
        BY <1>1 DEF Stored
      <4>4. SoundRow(r)
        BY <4>1, <4>3 DEF Sound
      <4>5. Matching(v, r)
        BY <1>0, <3>2, <4>1, <4>3 DEF RecKept
      <4>6. new = [r EXCEPT !.pos = FillAt(r.pos, u)]
        BY <2>4, <4>2, <4>3
      <4>7. Matching(v, new)
        BY <4>2, <4>3, <4>4, <4>5, <4>6, FillSound
      <4> QED
        BY <2>5, <3>2, <4>7
    <3> QED
      BY <3>1, <3>2
  <2> QED
    BY <2>1, <2>2, <2>6, <2>7 DEF RecKept
<1>7. ASSUME RecEnd \/ Crash(Rec)
      PROVE  RecKept'
  <2>1. proc'[Rec] = Idle
    BY <1>1, <1>7 DEF RecEnd, Crash, Done, Goto
  <2> QED
    BY <2>1 DEF RecKept, RecTodo, Idle
<1>8. ASSUME Outside
      PROVE  RecKept'
  <2>1. UNCHANGED <<row, proc, stale, torn>>
    BY <1>8 DEF Outside, Expire, Candles, Switch, vars
  <2> QED
    BY <2>1 DEF RecKept
<1> QED
  BY <1>3, <1>4, <1>5, <1>6, <1>7, <1>8 DEF Next, Reconcile, Outside

(* Shares stay on positions of live money, in every row and every copy. *)
LEMMA SoundStep ==
    ASSUME BasketAssumption, Basic, Sound, RecKept, [Next]_vars
    PROVE  Sound'
<1>1. ASSUME NEW a \in Agents, a \notin torn'
      PROVE  SoundRow(row'[a]) /\ \A p \in Procs : Has(proc'[p], a) => SoundRow(Copy(proc'[p], a))
  <2>1. /\ torn \subseteq torn' /\ RowComesFrom(a)
        /\ \A q \in Procs : Has(proc'[q], a) => CopyComesFrom(q, a)
    BY Origins
  <2>2. SoundRow(row[a]) /\ \A p \in Procs : Has(proc[p], a) => SoundRow(Copy(proc[p], a))
    BY <1>1, <2>1 DEF Sound
  <2>3. SoundRow(row'[a])
    <3>1. ASSUME proc[Rec].pc = "fill", proc[Rec].a = a, a \notin stale[Rec],
                 row'[a] = [row[a] EXCEPT !.pos = proc[Rec].pos]
          PROVE  SoundRow(row'[a])
      <4>1. PICK u : Matching(u, row[a]) /\ proc[Rec].pos = FillAt(row[a].pos, u)
        BY <1>1, <2>1, <3>1 DEF RecKept
      <4>2. PICK r \in Row : r = row[a]
        BY DEF Basic, TypeOK
      <4>3. PICK q : q = [r EXCEPT !.pos = FillAt(r.pos, u)]
        OBVIOUS
      <4>4. SoundRow(q)
        BY <2>2, <4>1, <4>2, <4>3, FillSound
      <4> QED
        BY <3>1, <4>1, <4>2, <4>3, <4>4
    <3> QED
      BY <1>1, <2>1, <2>2, <3>1 DEF RowComesFrom
  <2>4. ASSUME NEW p \in Procs, Has(proc'[p], a)
        PROVE  SoundRow(Copy(proc'[p], a))
    <3>1. CopyComesFrom(p, a)
      BY <2>1, <2>4
    <3>2. ASSUME NEW out, Has(proc[p], a), Moves(Copy(proc[p], a), out)
          PROVE  SoundRow(out.row)
      <4>1. TickState(proc[p])
        BY DEF Basic, Local
      <4>2. PICK r \in Row : r = Copy(proc[p], a)
        BY <3>2, <4>1, Held
      <4>3. SoundRow(r) /\ Moves(r, out)
        BY <2>2, <3>2, <4>2
      <4> QED
        BY <4>3, MovesSound
    <3> QED
      BY <2>2, <3>1, <3>2 DEF CopyComesFrom
  <2> QED
    BY <2>3, <2>4
<1> QED
  BY <1>1 DEF Sound

\* The inductive invariant of the reconciler's fills.
FillInv == Basic /\ Sound /\ RecKept

(* The system starts with empty baskets, hence with every fill on its position. *)
LEMMA FillInit == ASSUME BasketAssumption, Init PROVE FillInv
<1>1. Basic
  BY BasicInit
<1>2. \A a \in Agents : row[a].pos = <<>>
  BY DEF Init
<1>3. \A a \in Agents : SoundRow(row[a])
  <2>1. \A r : r.pos = <<>> => Positions(r) = {}
    BY DEF Positions
  <2> QED
    BY <1>2, <2>1 DEF SoundRow
<1>4. \A p \in Procs \cup {Rec} : proc[p] = Idle
  BY DEF Init
<1>5. \A p \in Procs, a \in Agents : ~Has(proc[p], a)
  BY <1>4 DEF Has, TodoOf, NoCopies, Idle
<1>6. Sound
  BY <1>3, <1>5 DEF Sound
<1>7. RecKept
  BY <1>4 DEF RecKept, RecTodo, Idle
<1> QED
  BY <1>1, <1>6, <1>7 DEF FillInv

(* Fills land on the positions they were bought for, as long as nobody rewrote the
   basket between the reconciler's listing and its write. *)
THEOREM FillsLand == Spec => []FillOnItsPosition
<1>1. ASSUME FillInv
      PROVE  FillOnItsPosition
  <2>1. ASSUME NEW a \in Agents \ torn, NEW i \in DOMAIN row[a].pos
        PROVE  SoundPos(row[a].pos[i])
    BY <1>1 DEF FillInv, Sound, SoundRow, Positions
  <2> QED
    BY <2>1 DEF FillOnItsPosition, SoundPos
<1>2. FillInv /\ [Next]_vars => FillInv'
  BY BasicStep, SoundStep, RecKeptStep, BasketAssumption DEF FillInv
<1> QED
  BY <1>1, <1>2, FillInit, BasketAssumption, PTL DEF Spec

-----------------------------------------------------------------------------
(* Sums over a log that grows. *)

(* A fee is an amount. *)
LEMMA FeeType ==
    ASSUME BasketAssumption, NEW m, NEW size \in Int
    PROVE  FeeOn(m, size) \in Int
<1>1. size * FeeBps \in Int
  BY DEF BasketAssumption
<1> QED
  BY <1>1, PartType DEF FeeOn

\* k is l with the trade t.
Longer(l, t, k, n) ==
    /\ l \in Seq(Trade) /\ t \in Trade /\ k \in Seq(Trade) /\ n \notin DOMAIN l
    /\ DOMAIN k = DOMAIN l \cup {n} /\ k[n] = t /\ \A i \in DOMAIN l : k[i] = l[i]
    /\ IsFiniteSet(DOMAIN l)

(* A log with one more record, as the sums see it. *)
LEMMA Appended ==
    ASSUME NEW l \in Seq(Trade), NEW t \in Trade
    PROVE  Longer(l, t, Append(l, t), Len(l) + 1)
<1>1. DOMAIN l = 1..Len(l) /\ Len(l) \in Nat
  OBVIOUS
<1>2. /\ Append(l, t) \in Seq(Trade) /\ Len(Append(l, t)) = Len(l) + 1
      /\ \A i \in 1..Len(l) : Append(l, t)[i] = l[i]
      /\ Append(l, t)[Len(l) + 1] = t
  BY AppendProperties
<1>3. DOMAIN Append(l, t) = 1..(Len(l) + 1)
  BY <1>2
<1>4. 1..(Len(l) + 1) = 1..Len(l) \cup {Len(l) + 1} /\ Len(l) + 1 \notin 1..Len(l)
  BY <1>1
<1>5. IsFiniteSet(1..Len(l))
  BY <1>1, FS_Interval
<1> QED
  BY <1>1, <1>2, <1>3, <1>4, <1>5 DEF Longer

(* Its exits and its entries. *)
LEMMA LongerParts ==
    ASSUME NEW l, NEW t, NEW k, NEW n, Longer(l, t, k, n)
    PROVE  /\ t.exit => Outs(k) = Outs(l) \cup {n} /\ Ins(k) = Ins(l)
           /\ ~t.exit => Outs(k) = Outs(l) /\ Ins(k) = Ins(l) \cup {n}
           /\ Outs(l) \subseteq DOMAIN l /\ Ins(l) \subseteq DOMAIN l
           /\ n \notin Outs(l) /\ n \notin Ins(l)
           /\ IsFiniteSet(Outs(l)) /\ IsFiniteSet(Ins(l))
<1>1. /\ n \notin DOMAIN l /\ DOMAIN k = DOMAIN l \cup {n} /\ k[n] = t
      /\ \A i \in DOMAIN l : k[i] = l[i]
      /\ IsFiniteSet(DOMAIN l)
  BY DEF Longer
<1>2. Outs(l) \subseteq DOMAIN l /\ Ins(l) \subseteq DOMAIN l
  BY DEF Outs, Ins
<1>3. t.exit => Outs(k) = Outs(l) \cup {n} /\ Ins(k) = Ins(l)
  BY <1>1 DEF Outs, Ins
<1>4. ~t.exit => Outs(k) = Outs(l) /\ Ins(k) = Ins(l) \cup {n}
  BY <1>1 DEF Outs, Ins
<1>5. IsFiniteSet(Outs(l)) /\ IsFiniteSet(Ins(l))
  BY <1>1, <1>2, FS_Subset
<1> QED
  BY <1>1, <1>2, <1>3, <1>4, <1>5

Realized(trades) == SumFunction([i \in Outs(trades) |-> trades[i].realized])

(* What one more record adds to the sums over a log. *)
LEMMA LongerSums ==
    ASSUME BasketAssumption, NEW l, NEW t, NEW k, NEW n, Longer(l, t, k, n)
    PROVE  /\ t.exit => /\ Realized(k) = Realized(l) + t.realized
                        /\ Gaps(k) = Gaps(l) + t.gap /\ Fees(k) = Fees(l)
           /\ ~t.exit => /\ Realized(k) = Realized(l) /\ Gaps(k) = Gaps(l)
                         /\ Fees(k) = Fees(l) + FeeOn(t.m, t.stake)
<1>1. /\ DOMAIN k = DOMAIN l \cup {n} /\ k[n] = t /\ \A i \in DOMAIN l : k[i] = l[i]
      /\ \A i \in DOMAIN l : l[i] \in Trade
      /\ t \in Trade
  BY DEF Longer
<1>2. /\ t.exit => Outs(k) = Outs(l) \cup {n} /\ Ins(k) = Ins(l)
      /\ ~t.exit => Outs(k) = Outs(l) /\ Ins(k) = Ins(l) \cup {n}
      /\ Outs(l) \subseteq DOMAIN l /\ Ins(l) \subseteq DOMAIN l
      /\ n \notin Outs(l) /\ n \notin Ins(l)
      /\ IsFiniteSet(Outs(l)) /\ IsFiniteSet(Ins(l))
  BY LongerParts
<1>3. \A x \in Trade : x.realized \in Int /\ x.gap \in Int /\ x.stake \in Int
  BY DEF Trade
<1>4. \A i \in DOMAIN l : /\ k[i] = l[i] /\ l[i].realized \in Int /\ l[i].gap \in Int
                          /\ FeeOn(l[i].m, l[i].stake) \in Int
  BY <1>1, <1>3, FeeType
<1>5. t.realized \in Int /\ t.gap \in Int /\ FeeOn(t.m, t.stake) \in Int
  BY <1>1, <1>3, FeeType
<1>6. ASSUME t.exit
      PROVE  Realized(k) = Realized(l) + t.realized
  <2> DEFINE f == [i \in Outs(k) |-> k[i].realized]
             g == [i \in Outs(l) |-> l[i].realized]
  <2>1. /\ IsFiniteSet(DOMAIN g) /\ n \notin DOMAIN g /\ DOMAIN f = DOMAIN g \cup {n}
        /\ f[n] = t.realized /\ \A y \in DOMAIN g : g[y] \in Int /\ f[y] = g[y]
    BY <1>1, <1>2, <1>4, <1>6
  <2> HIDE DEF f, g
  <2>2. SumFunction(f) = f[n] + SumFunction(g) /\ SumFunction(g) \in Int
    BY <1>5, <2>1, SumExtended
  <2>3. SumFunction(f) = SumFunction(g) + t.realized
    BY <1>5, <2>1, <2>2
  <2> QED
    BY <2>3 DEF Realized, f, g
<1>7. ASSUME t.exit
      PROVE  Gaps(k) = Gaps(l) + t.gap
  <2> DEFINE f == [i \in Outs(k) |-> k[i].gap]
             g == [i \in Outs(l) |-> l[i].gap]
  <2>1. /\ IsFiniteSet(DOMAIN g) /\ n \notin DOMAIN g /\ DOMAIN f = DOMAIN g \cup {n}
        /\ f[n] = t.gap /\ \A y \in DOMAIN g : g[y] \in Int /\ f[y] = g[y]
    BY <1>1, <1>2, <1>4, <1>7
  <2> HIDE DEF f, g
  <2>2. SumFunction(f) = f[n] + SumFunction(g) /\ SumFunction(g) \in Int
    BY <1>5, <2>1, SumExtended
  <2>3. SumFunction(f) = SumFunction(g) + t.gap
    BY <1>5, <2>1, <2>2
  <2> QED
    BY <2>3 DEF Gaps, f, g
<1>8. ASSUME ~t.exit
      PROVE  Fees(k) = Fees(l) + FeeOn(t.m, t.stake)
  <2> DEFINE f == [i \in Ins(k) |-> FeeOn(k[i].m, k[i].stake)]
             g == [i \in Ins(l) |-> FeeOn(l[i].m, l[i].stake)]
  <2>1. /\ IsFiniteSet(DOMAIN g) /\ n \notin DOMAIN g /\ DOMAIN f = DOMAIN g \cup {n}
        /\ f[n] = FeeOn(t.m, t.stake) /\ \A y \in DOMAIN g : g[y] \in Int /\ f[y] = g[y]
    BY <1>1, <1>2, <1>4, <1>8
  <2> HIDE DEF f, g
  <2>2. SumFunction(f) = f[n] + SumFunction(g) /\ SumFunction(g) \in Int
    BY <1>5, <2>1, SumExtended
  <2>3. SumFunction(f) = SumFunction(g) + FeeOn(t.m, t.stake)
    BY <1>5, <2>1, <2>2
  <2> QED
    BY <2>3 DEF Fees, f, g
<1>9. ASSUME ~t.exit
      PROVE  Realized(k) = Realized(l) /\ Gaps(k) = Gaps(l)
  <2>1. [i \in Outs(k) |-> k[i].realized] = [i \in Outs(l) |-> l[i].realized]
    BY <1>2, <1>4, <1>9
  <2>2. [i \in Outs(k) |-> k[i].gap] = [i \in Outs(l) |-> l[i].gap]
    BY <1>2, <1>4, <1>9
  <2> QED
    BY <2>1, <2>2 DEF Realized, Gaps
<1>10. ASSUME t.exit
       PROVE  Fees(k) = Fees(l)
  <2>1. [i \in Ins(k) |-> FeeOn(k[i].m, k[i].stake)] = [i \in Ins(l) |-> FeeOn(l[i].m, l[i].stake)]
    BY <1>2, <1>4, <1>10
  <2> QED
    BY <2>1 DEF Fees
<1> QED
  BY <1>6, <1>7, <1>8, <1>9, <1>10

(* A log has finitely many entries and exits. *)
LEMMA LogParts ==
    ASSUME NEW l \in Seq(Trade)
    PROVE  /\ IsFiniteSet(DOMAIN l) /\ Outs(l) \subseteq DOMAIN l /\ Ins(l) \subseteq DOMAIN l
           /\ IsFiniteSet(Outs(l)) /\ IsFiniteSet(Ins(l)) /\ \A i \in DOMAIN l : l[i] \in Trade
<1>1. DOMAIN l = 1..Len(l) /\ Len(l) \in Nat /\ \A i \in DOMAIN l : l[i] \in Trade
  OBVIOUS
<1>2. IsFiniteSet(DOMAIN l)
  BY <1>1, FS_Interval
<1>3. Outs(l) \subseteq DOMAIN l /\ Ins(l) \subseteq DOMAIN l
  BY DEF Outs, Ins
<1> QED
  BY <1>1, <1>2, <1>3, FS_Subset

(* The sums of a log are amounts. *)
LEMMA LogSums ==
    ASSUME BasketAssumption, NEW l \in Seq(Trade)
    PROVE  Realized(l) \in Int /\ Gaps(l) \in Int /\ Fees(l) \in Int
<1>1. /\ Outs(l) \subseteq DOMAIN l /\ Ins(l) \subseteq DOMAIN l
      /\ IsFiniteSet(Outs(l)) /\ IsFiniteSet(Ins(l)) /\ \A i \in DOMAIN l : l[i] \in Trade
  BY LogParts
<1>2. \A x \in Trade : x.realized \in Int /\ x.gap \in Int /\ x.stake \in Int
  BY DEF Trade
<1>3. \A i \in DOMAIN l : /\ l[i].realized \in Int /\ l[i].gap \in Int
                          /\ FeeOn(l[i].m, l[i].stake) \in Int
  BY <1>1, <1>2, FeeType
<1>4. Realized(l) \in Int
  <2> DEFINE f == [i \in Outs(l) |-> l[i].realized]
  <2>1. IsFiniteSet(DOMAIN f) /\ \A i \in DOMAIN f : f[i] \in Int
    BY <1>1, <1>3
  <2> HIDE DEF f
  <2>2. SumFunction(f) \in Int
    BY <2>1, SumType
  <2> QED
    BY <2>2 DEF Realized, f
<1>5. Gaps(l) \in Int
  <2> DEFINE f == [i \in Outs(l) |-> l[i].gap]
  <2>1. IsFiniteSet(DOMAIN f) /\ \A i \in DOMAIN f : f[i] \in Int
    BY <1>1, <1>3
  <2> HIDE DEF f
  <2>2. SumFunction(f) \in Int
    BY <2>1, SumType
  <2> QED
    BY <2>2 DEF Gaps, f
<1>6. Fees(l) \in Int
  <2> DEFINE f == [i \in Ins(l) |-> FeeOn(l[i].m, l[i].stake)]
  <2>1. IsFiniteSet(DOMAIN f) /\ \A i \in DOMAIN f : f[i] \in Int
    BY <1>1, <1>3
  <2> HIDE DEF f
  <2>2. SumFunction(f) \in Int
    BY <2>1, SumType
  <2> QED
    BY <2>2 DEF Fees, f
<1> QED
  BY <1>4, <1>5, <1>6

(* A basket is on finitely many markets, and locks an amount. *)
LEMMA LockedType ==
    ASSUME BasketAssumption, NEW r \in Row
    PROVE  IsFiniteSet(HeldMarkets(r)) /\ Locked(r) \in Int
           /\ \A m \in HeldMarkets(r) : PositionOn(r, m).size \in Int
<1>1. r.pos \in Basket /\ r.pos \in Seq(Position)
  BY DEF Row, Basket
<1>2. HeldMarkets(r) \subseteq Markets
  <2>1. \A pos \in Position : pos.m \in Markets
    BY DEF Position
  <2> QED
    BY <1>1, <2>1 DEF HeldMarkets
<1>3. IsFiniteSet(HeldMarkets(r))
  BY <1>2, FS_Subset DEF BasketAssumption
<1>4. \A m \in HeldMarkets(r) : PositionOn(r, m).size \in Int
  <2>1. \A m \in HeldMarkets(r) : PositionOn(r, m) \in Position
    BY <1>1, PositionIs
  <2> QED
    BY <2>1 DEF Position
<1>5. Locked(r) \in Int
  <2> DEFINE f == [m \in HeldMarkets(r) |-> PositionOn(r, m).size]
  <2>1. IsFiniteSet(DOMAIN f) /\ \A m \in DOMAIN f : f[m] \in Int
    BY <1>3, <1>4
  <2> HIDE DEF f
  <2>2. SumFunction(f) \in Int
    BY <2>1, SumType
  <2> QED
    BY <2>2 DEF Locked, f
<1> QED
  BY <1>3, <1>4, <1>5

-----------------------------------------------------------------------------
(* A row, against a log. *)

Ids(trades, I) == {trades[i].id : i \in I}
Open(r) == {pos.id : pos \in Positions(r)}
Wins(trades) == {i \in Outs(trades) : trades[i].realized > 0}

\* Every entry is open, or was closed once.
IdsMatch(r, l) ==
    /\ \A i, j \in DOMAIN l : l[i].exit = l[j].exit /\ l[i].id = l[j].id => i = j
    /\ \A x, y \in Positions(r) : x.id = y.id => x = y
    /\ Ids(l, Outs(l)) \cap Open(r) = {}
    /\ Ids(l, Outs(l)) \cup Open(r) = Ids(l, Ins(l))
    /\ \A i \in DOMAIN l : l[i].id <= r.entries

CountsMatch(r, l) ==
    /\ r.trades = Cardinality(Outs(l)) /\ r.entries = Cardinality(Ins(l))
    /\ r.wins = Cardinality(Wins(l))

MoneyMatches(r, l) ==
    /\ r.realized = Realized(l)
    /\ r.cash = Start + r.realized - Locked(r) - Fees(l) - Gaps(l)

Match(r, l) == IdsMatch(r, l) /\ CountsMatch(r, l) /\ MoneyMatches(r, l)

(* The ids of a log with one more trade. *)
LEMMA LongerIds ==
    ASSUME NEW l, NEW t, NEW k, NEW n, Longer(l, t, k, n)
    PROVE  /\ t.exit => /\ Ids(k, Outs(k)) = Ids(l, Outs(l)) \cup {t.id}
                        /\ Ids(k, Ins(k)) = Ids(l, Ins(l))
           /\ ~t.exit => /\ Ids(k, Outs(k)) = Ids(l, Outs(l))
                         /\ Ids(k, Ins(k)) = Ids(l, Ins(l)) \cup {t.id}
<1>1. k[n] = t /\ \A i \in DOMAIN l : k[i] = l[i]
  BY DEF Longer
<1>2. /\ t.exit => Outs(k) = Outs(l) \cup {n} /\ Ins(k) = Ins(l)
      /\ ~t.exit => Outs(k) = Outs(l) /\ Ins(k) = Ins(l) \cup {n}
      /\ Outs(l) \subseteq DOMAIN l /\ Ins(l) \subseteq DOMAIN l
  BY LongerParts
<1> QED
  BY <1>1, <1>2 DEF Ids

(* No trade is of the kind and the id of the new one. *)
LEMMA OnceLonger ==
    ASSUME NEW l, NEW t, NEW k, NEW n, Longer(l, t, k, n),
           \A i, j \in DOMAIN l : l[i].exit = l[j].exit /\ l[i].id = l[j].id => i = j,
           \A i \in DOMAIN l : l[i].exit = t.exit => l[i].id # t.id
    PROVE  \A i, j \in DOMAIN k : k[i].exit = k[j].exit /\ k[i].id = k[j].id => i = j
<1>1. DOMAIN k = DOMAIN l \cup {n} /\ k[n] = t /\ \A i \in DOMAIN l : k[i] = l[i]
  BY DEF Longer
<1> QED
  BY <1>1

(* A way out takes an open id out of the basket, and into the exits. *)
LEMMA LeftIds ==
    ASSUME NEW r \in Row, NEW l, IdsMatch(r, l), NEW m, NEW t, NEW q, LeftBy(r, m, t, q),
           t.exit, t.id = PositionOn(r, m).id, NEW k, NEW n, Longer(l, t, k, n)
    PROVE  IdsMatch(q, k)
<1>1. /\ \A i, j \in DOMAIN l : l[i].exit = l[j].exit /\ l[i].id = l[j].id => i = j
      /\ \A x, y \in Positions(r) : x.id = y.id => x = y
      /\ Ids(l, Outs(l)) \cap Open(r) = {}
      /\ Ids(l, Outs(l)) \cup Open(r) = Ids(l, Ins(l))
      /\ \A i \in DOMAIN l : l[i].id <= r.entries
  BY DEF IdsMatch
<1>2. PICK pos : pos = PositionOn(r, m)
  OBVIOUS
<1>3. Positions(q) = Positions(r) \ {pos} /\ pos \in Positions(r) /\ t.id = pos.id
      /\ q.entries = r.entries
  BY <1>2 DEF LeftBy
<1>4. Open(q) = Open(r) \ {t.id} /\ t.id \in Open(r)
  BY <1>1, <1>3 DEF Open
<1>5. /\ Ids(k, Outs(k)) = Ids(l, Outs(l)) \cup {t.id}
      /\ Ids(k, Ins(k)) = Ids(l, Ins(l))
  BY LongerIds
<1>6. t.id \notin Ids(l, Outs(l)) /\ t.id \in Ids(l, Ins(l))
  BY <1>1, <1>4
<1>7. \A i \in DOMAIN l : l[i].exit = t.exit => l[i].id # t.id
  <2>1. \A i \in Outs(l) : l[i].id # t.id
    BY <1>6 DEF Ids
  <2>2. ASSUME NEW i \in DOMAIN l, l[i].exit = t.exit
        PROVE  i \in Outs(l)
    BY <2>2, Zenon DEF Outs
  <2> QED
    BY <2>1, <2>2, Zenon
<1>8. \A i, j \in DOMAIN k : k[i].exit = k[j].exit /\ k[i].id = k[j].id => i = j
  BY ONLY Longer(l, t, k, n), <1>1, <1>7, OnceLonger
<1>9. \A i \in DOMAIN k : k[i].id <= q.entries
  <2>1. DOMAIN k = DOMAIN l \cup {n} /\ k[n] = t /\ \A i \in DOMAIN l : k[i] = l[i]
    BY DEF Longer
  <2>2. PICK i \in Ins(l) : l[i].id = t.id
    BY <1>6 DEF Ids
  <2>3. i \in DOMAIN l
    BY DEF Ins
  <2> QED
    BY <1>1, <1>3, <2>1, <2>2, <2>3
<1>10. \A x, y \in Positions(q) : x.id = y.id => x = y
  BY <1>1, <1>3
<1>11. Ids(k, Outs(k)) \cap Open(q) = {} /\ Ids(k, Outs(k)) \cup Open(q) = Ids(k, Ins(k))
  BY <1>1, <1>4, <1>5
<1> QED
  BY <1>8, <1>9, <1>10, <1>11 DEF IdsMatch

(* A way in opens an id that no trade has. *)
LEMMA GrownIds ==
    ASSUME NEW r \in Row, NEW l, IdsMatch(r, l), NEW pos, NEW t, NEW q, NEW fee,
           GrownBy(r, pos, fee, q), pos.id = r.entries + 1,
           ~t.exit, t.id = pos.id, NEW k, NEW n, Longer(l, t, k, n)
    PROVE  IdsMatch(q, k)
<1>1. /\ \A i, j \in DOMAIN l : l[i].exit = l[j].exit /\ l[i].id = l[j].id => i = j
      /\ \A x, y \in Positions(r) : x.id = y.id => x = y
      /\ Ids(l, Outs(l)) \cap Open(r) = {}
      /\ Ids(l, Outs(l)) \cup Open(r) = Ids(l, Ins(l))
      /\ \A i \in DOMAIN l : l[i].id <= r.entries
  BY DEF IdsMatch
<1>2. /\ Positions(q) = Positions(r) \cup {pos}
      /\ q.entries = r.entries + 1 /\ r.entries \in Int /\ t.id = r.entries + 1
  BY DEF GrownBy, Row
<1>3. /\ DOMAIN k = DOMAIN l \cup {n} /\ k[n] = t /\ \A i \in DOMAIN l : k[i] = l[i]
      /\ \A i \in DOMAIN l : l[i].id \in Int
  <2>1. \A x \in Trade : x.id \in Int
    BY DEF Trade
  <2> QED
    BY <2>1 DEF Longer
<1>4. \A i \in DOMAIN l : l[i].id # t.id
  BY <1>1, <1>2, <1>3
<1>5. t.id \notin Ids(l, Outs(l)) /\ t.id \notin Ids(l, Ins(l))
  BY <1>4 DEF Ids, Outs, Ins
<1>6. t.id \notin Open(r)
  BY <1>1, <1>5
<1>7. Open(q) = Open(r) \cup {t.id}
  BY <1>2 DEF Open
<1>8. /\ Ids(k, Outs(k)) = Ids(l, Outs(l))
      /\ Ids(k, Ins(k)) = Ids(l, Ins(l)) \cup {t.id}
  BY LongerIds
<1>9. \A i, j \in DOMAIN k : k[i].exit = k[j].exit /\ k[i].id = k[j].id => i = j
  BY <1>1, <1>4, OnceLonger
<1>10. \A i \in DOMAIN k : k[i].id <= q.entries
  BY <1>1, <1>2, <1>3
<1>11. \A x, y \in Positions(q) : x.id = y.id => x = y
  <2>1. \A x \in Positions(r) : x.id # t.id
    BY <1>6 DEF Open
  <2> QED
    BY <1>1, <1>2, <2>1
<1>12. Ids(k, Outs(k)) \cap Open(q) = {} /\ Ids(k, Outs(k)) \cup Open(q) = Ids(k, Ins(k))
  BY <1>1, <1>5, <1>7, <1>8
<1> QED
  BY <1>9, <1>10, <1>11, <1>12 DEF IdsMatch

(* One more exit, and one more win if it made money. *)
LEMMA LeftCounts ==
    ASSUME NEW r \in Row, NEW l \in Seq(Trade), CountsMatch(r, l), NEW m, NEW t, NEW q,
           LeftBy(r, m, t, q), t.exit, NEW k, NEW n, Longer(l, t, k, n)
    PROVE  CountsMatch(q, k)
<1>1. /\ r.trades = Cardinality(Outs(l)) /\ r.entries = Cardinality(Ins(l))
      /\ r.wins = Cardinality(Wins(l))
  BY DEF CountsMatch
<1>2. /\ q.trades = r.trades + 1 /\ q.entries = r.entries
      /\ q.wins = IF t.realized > 0 THEN r.wins + 1 ELSE r.wins
  BY DEF LeftBy
<1>3. /\ Outs(k) = Outs(l) \cup {n} /\ Ins(k) = Ins(l) /\ n \notin Outs(l)
      /\ Outs(l) \subseteq DOMAIN l /\ IsFiniteSet(Outs(l))
  BY LongerParts
<1>4. k[n] = t /\ \A i \in DOMAIN l : k[i] = l[i]
  BY DEF Longer
<1>5. Wins(k) = IF t.realized > 0 THEN Wins(l) \cup {n} ELSE Wins(l)
  BY <1>3, <1>4 DEF Wins
<1>6. IsFiniteSet(Wins(l)) /\ n \notin Wins(l)
  <2>1. Wins(l) \subseteq Outs(l)
    BY DEF Wins
  <2> QED
    BY <1>3, <2>1, FS_Subset
<1>7. Cardinality(Outs(k)) = Cardinality(Outs(l)) + 1
  BY <1>3, FS_AddElement
<1>8. Cardinality(Wins(k)) = IF t.realized > 0 THEN Cardinality(Wins(l)) + 1
                             ELSE Cardinality(Wins(l))
  BY <1>5, <1>6, FS_AddElement
<1> QED
  BY <1>1, <1>2, <1>3, <1>7, <1>8 DEF CountsMatch

(* One more entry. *)
LEMMA GrownCounts ==
    ASSUME NEW r \in Row, NEW l \in Seq(Trade), CountsMatch(r, l), NEW pos, NEW t, NEW q, NEW fee,
           GrownBy(r, pos, fee, q), ~t.exit, NEW k, NEW n, Longer(l, t, k, n)
    PROVE  CountsMatch(q, k)
<1>1. /\ r.trades = Cardinality(Outs(l)) /\ r.entries = Cardinality(Ins(l))
      /\ r.wins = Cardinality(Wins(l))
  BY DEF CountsMatch
<1>2. q.trades = r.trades /\ q.entries = r.entries + 1 /\ q.wins = r.wins
  BY DEF GrownBy
<1>3. /\ Outs(k) = Outs(l) /\ Ins(k) = Ins(l) \cup {n} /\ n \notin Ins(l)
      /\ Outs(l) \subseteq DOMAIN l /\ IsFiniteSet(Ins(l))
  BY LongerParts
<1>4. k[n] = t /\ \A i \in DOMAIN l : k[i] = l[i]
  BY DEF Longer
<1>5. Wins(k) = Wins(l)
  BY <1>3, <1>4 DEF Wins
<1>6. Cardinality(Ins(k)) = Cardinality(Ins(l)) + 1
  BY <1>3, FS_AddElement
<1> QED
  BY <1>1, <1>2, <1>3, <1>5, <1>6 DEF CountsMatch

(* A way out pays the stake back with what was realized, less what was never sent. *)
LEMMA LeftMoney ==
    ASSUME BasketAssumption, NEW r \in Row, NEW l \in Seq(Trade), MoneyMatches(r, l),
           NEW m, NEW t, NEW q, LeftBy(r, m, t, q), t.exit, NEW k, NEW n, Longer(l, t, k, n)
    PROVE  MoneyMatches(q, k)
<1>1. r.realized = Realized(l) /\ r.cash = Start + r.realized - Locked(r) - Fees(l) - Gaps(l)
  BY DEF MoneyMatches
<1>2. PICK pos : pos = PositionOn(r, m)
  OBVIOUS
<1>3. /\ q \in Row /\ q.cash = r.cash + (pos.size + t.realized - t.gap)
      /\ q.realized = r.realized + t.realized
      /\ HeldMarkets(q) = HeldMarkets(r) \ {m} /\ m \in HeldMarkets(r)
      /\ \A x \in HeldMarkets(q) : PositionOn(q, x) = PositionOn(r, x)
  BY <1>2 DEF LeftBy
<1>4. /\ IsFiniteSet(HeldMarkets(q)) /\ Locked(q) \in Int
      /\ \A x \in HeldMarkets(r) : PositionOn(r, x).size \in Int
  BY <1>3, LockedType
<1>5. Locked(r) = pos.size + Locked(q) /\ pos.size \in Int
  <2> DEFINE f == [x \in HeldMarkets(r) |-> PositionOn(r, x).size]
             g == [x \in HeldMarkets(q) |-> PositionOn(q, x).size]
  <2>1. /\ IsFiniteSet(DOMAIN g) /\ m \notin DOMAIN g /\ DOMAIN f = DOMAIN g \cup {m}
        /\ f[m] = pos.size /\ f[m] \in Int
        /\ \A y \in DOMAIN g : g[y] \in Int /\ f[y] = g[y]
    BY <1>2, <1>3, <1>4
  <2> HIDE DEF f, g
  <2>2. SumFunction(f) = f[m] + SumFunction(g)
    BY <2>1, SumExtended
  <2> QED
    BY <2>1, <2>2 DEF Locked, f, g
<1>6. /\ Realized(k) = Realized(l) + t.realized
      /\ Gaps(k) = Gaps(l) + t.gap /\ Fees(k) = Fees(l)
  BY LongerSums
<1>7. Realized(l) \in Int /\ Gaps(l) \in Int /\ Fees(l) \in Int
  BY LogSums
<1>8. t.realized \in Int /\ t.gap \in Int /\ Start \in Int /\ r.cash \in Int
  BY DEF Longer, Trade, Row, BasketAssumption
<1>9. q.realized = Realized(k)
  BY <1>1, <1>3, <1>6
<1>10. q.cash = Start + q.realized - Locked(q) - Fees(k) - Gaps(k)
  <2>1. PICK c \in Int, x \in Int, g \in Int, s \in Int, e \in Int, f \in Int, h \in Int, i \in Int :
           /\ c = r.cash /\ x = t.realized /\ g = t.gap /\ s = pos.size /\ e = Realized(l)
           /\ f = Fees(l) /\ h = Gaps(l) /\ i = Locked(q)
    BY <1>4, <1>5, <1>7, <1>8
  <2>2. c = Start + e - (s + i) - f - h
    BY <1>1, <1>5, <2>1
  <2>3. c + (s + x - g) = Start + (e + x) - i - f - (h + g)
    BY <1>8, <2>2
  <2> QED
    BY <1>1, <1>3, <1>6, <2>1, <2>3
<1> QED
  BY <1>9, <1>10 DEF MoneyMatches

(* A way in locks the stake, and costs its fee. *)
LEMMA GrownMoney ==
    ASSUME BasketAssumption, NEW r \in Row, NEW l \in Seq(Trade), MoneyMatches(r, l),
           NEW pos \in Position, NEW t, NEW q, GrownBy(r, pos, FeeOn(pos.m, pos.size), q),
           ~t.exit, t.m = pos.m, t.stake = pos.size, NEW k, NEW n, Longer(l, t, k, n)
    PROVE  MoneyMatches(q, k)
<1>1. r.realized = Realized(l) /\ r.cash = Start + r.realized - Locked(r) - Fees(l) - Gaps(l)
  BY DEF MoneyMatches
<1>2. PICK fee \in Int : fee = FeeOn(pos.m, pos.size)
  BY AmountTypes
<1>3. /\ q \in Row /\ q.cash = r.cash - pos.size - fee /\ q.realized = r.realized
      /\ HeldMarkets(q) = HeldMarkets(r) \cup {pos.m} /\ pos.m \notin HeldMarkets(r)
      /\ PositionOn(q, pos.m) = pos
      /\ \A x \in HeldMarkets(r) : PositionOn(q, x) = PositionOn(r, x)
  BY <1>2 DEF GrownBy
<1>4. /\ IsFiniteSet(HeldMarkets(r)) /\ Locked(r) \in Int
      /\ \A x \in HeldMarkets(r) : PositionOn(r, x).size \in Int
      /\ pos.size \in Int
  BY LockedType DEF Position
<1>5. Locked(q) = pos.size + Locked(r)
  <2> DEFINE f == [x \in HeldMarkets(q) |-> PositionOn(q, x).size]
             g == [x \in HeldMarkets(r) |-> PositionOn(r, x).size]
             m == pos.m
  <2>1. /\ IsFiniteSet(DOMAIN g) /\ m \notin DOMAIN g /\ DOMAIN f = DOMAIN g \cup {m}
        /\ f[m] = pos.size /\ f[m] \in Int
        /\ \A y \in DOMAIN g : g[y] \in Int /\ f[y] = g[y]
    BY <1>3, <1>4
  <2> HIDE DEF f, g, m
  <2>2. SumFunction(f) = f[m] + SumFunction(g)
    BY <2>1, SumExtended
  <2> QED
    BY <2>1, <2>2 DEF Locked, f, g
<1>6. Realized(k) = Realized(l) /\ Gaps(k) = Gaps(l) /\ Fees(k) = Fees(l) + fee
  BY <1>2, LongerSums
<1>7. Realized(l) \in Int /\ Gaps(l) \in Int /\ Fees(l) \in Int
  BY LogSums
<1>8. Start \in Int /\ r.cash \in Int
  BY DEF Row, BasketAssumption
<1>9. q.realized = Realized(k)
  BY <1>1, <1>3, <1>6
<1>10. q.cash = Start + q.realized - Locked(q) - Fees(k) - Gaps(k)
  <2>1. PICK c \in Int, s \in Int, e \in Int, f \in Int, h \in Int, i \in Int :
           /\ c = r.cash /\ s = pos.size /\ e = Realized(l)
           /\ f = Fees(l) /\ h = Gaps(l) /\ i = Locked(r)
    BY <1>4, <1>7, <1>8
  <2>2. c = Start + e - i - f - h
    BY <1>1, <2>1
  <2>3. c - s - fee = Start + e - (s + i) - (f + fee) - h
    BY <1>8, <2>2
  <2> QED
    BY <1>1, <1>3, <1>5, <1>6, <2>1, <2>3
<1> QED
  BY <1>9, <1>10 DEF MoneyMatches

(* What moves a row, and its trade at the end of the log, keep them matching. *)
LEMMA MatchMoves ==
    ASSUME BasketAssumption, NEW r \in Row, NEW l \in Seq(Trade), Match(r, l),
           NEW out, Moves(r, out)
    PROVE  Match(out.row, Append(l, out.trade))
<1>1. PICK q, t : q = out.row /\ t = out.trade
  OBVIOUS
<1>2. t \in Trade
  BY <1>1, MovesType
<1>3. PICK k, n : k = Append(l, t) /\ Longer(l, t, k, n)
  BY <1>2, Appended
<1>4. IdsMatch(r, l) /\ CountsMatch(r, l) /\ MoneyMatches(r, l)
  BY DEF Match
<1>5. ASSUME NEW m, Leaves(r, m, out)
      PROVE  Match(q, k)
  <2>1. LeftBy(r, m, t, q)
    BY <1>1, <1>5, LeavesRow
  <2>2. t.exit /\ t.id = PositionOn(r, m).id
    BY <1>1, <1>5 DEF Leaves
  <2>3. IdsMatch(q, k)
    BY <1>3, <1>4, <2>1, <2>2, LeftIds
  <2>4. CountsMatch(q, k)
    BY <1>3, <1>4, <2>1, <2>2, LeftCounts
  <2>5. MoneyMatches(q, k)
    BY <1>3, <1>4, <2>1, <2>2, LeftMoney
  <2> QED
    BY <2>3, <2>4, <2>5 DEF Match
<1>6. ASSUME NEW pos, Joins(r, pos, out)
      PROVE  Match(q, k)
  <2>1. GrownBy(r, pos, FeeOn(pos.m, pos.size), q) /\ pos \in Position
    BY <1>1, <1>6, JoinsRow
  <2>2. ~t.exit /\ t.id = pos.id /\ pos.id = r.entries + 1 /\ t.m = pos.m /\ t.stake = pos.size
    BY <1>1, <1>6 DEF Joins
  <2>3. IdsMatch(q, k)
    BY <1>3, <1>4, <2>1, <2>2, GrownIds
  <2>4. CountsMatch(q, k)
    BY <1>3, <1>4, <2>1, <2>2, GrownCounts
  <2>5. MoneyMatches(q, k)
    BY <1>3, <1>4, <2>1, <2>2, GrownMoney
  <2> QED
    BY <2>3, <2>4, <2>5 DEF Match
<1> QED
  BY <1>1, <1>3, <1>5, <1>6 DEF Moves

(* A fill changes neither ids nor stakes. *)
LEMMA MatchFilled ==
    ASSUME BasketAssumption, NEW r \in Row, NEW l, Match(r, l), NEW u, Matching(u, r),
           NEW q, q = [r EXCEPT !.pos = FillAt(r.pos, u)]
    PROVE  Match(q, l)
<1>1. PICK s \in Basket : s = r.pos
  BY DEF Row
<1>2. u \in Unrec /\ u.at \in DOMAIN s
  BY <1>1 DEF Matching
<1>3. s \in Seq(Position) /\ DOMAIN s = 1..Len(s) /\ u.at <= Len(s)
      /\ \A i, j \in DOMAIN s : s[i].m = s[j].m => i = j
  BY <1>2 DEF Basket
<1>4. PICK f \in Basket : f = FillAt(s, u) /\ Refilled(s, u, f)
  BY <1>2, <1>3, FillTypes
<1>5. /\ DOMAIN f = DOMAIN s
      /\ \A i \in DOMAIN s : i # u.at => f[i] = s[i]
      /\ f[u.at] = [s[u.at] EXCEPT !.shares = u.shares, !.paid = u.paid]
  BY <1>4 DEF Refilled
<1>6. /\ q = [cash |-> r.cash, pos |-> f, realized |-> r.realized, trades |-> r.trades,
              wins |-> r.wins, entries |-> r.entries]
      /\ q \in Row /\ q.pos = f
  <2>1. r = [cash |-> r.cash, pos |-> r.pos, realized |-> r.realized, trades |-> r.trades,
             wins |-> r.wins, entries |-> r.entries]
    BY DEF Row
  <2>2. q = [cash |-> r.cash, pos |-> f, realized |-> r.realized, trades |-> r.trades,
             wins |-> r.wins, entries |-> r.entries]
    BY <1>1, <1>4, <2>1
  <2> QED
    BY <2>2 DEF Row
<1>7. \A i \in DOMAIN s : f[i].m = s[i].m /\ f[i].id = s[i].id /\ f[i].size = s[i].size
  <2>1. PICK pos \in Position : pos = s[u.at]
    BY <1>2, <1>3
  <2>2. f[u.at].m = pos.m /\ f[u.at].id = pos.id /\ f[u.at].size = pos.size
    BY <1>5, <2>1 DEF Position
  <2> QED
    BY <1>5, <2>1, <2>2
<1>8. Open(q) = Open(r)
  BY <1>1, <1>5, <1>6, <1>7 DEF Open, Positions
<1>9. ASSUME \A x, y \in Positions(r) : x.id = y.id => x = y
      PROVE  \A x, y \in Positions(q) : x.id = y.id => x = y
  <2>1. ASSUME NEW i \in DOMAIN s, NEW j \in DOMAIN s, s[i].id = s[j].id
        PROVE  i = j
    <3>1. s[i] \in Positions(r) /\ s[j] \in Positions(r)
      BY <1>1 DEF Positions
    <3>2. s[i] = s[j]
      BY <1>9, <2>1, <3>1
    <3> QED
      BY <1>3, <3>2
  <2>2. ASSUME NEW x \in Positions(q), NEW y \in Positions(q), x.id = y.id
        PROVE  x = y
    <3>1. PICK i \in DOMAIN s, j \in DOMAIN s : x = f[i] /\ y = f[j]
      BY <1>5, <1>6 DEF Positions
    <3>2. s[i].id = s[j].id
      BY <1>7, <2>2, <3>1
    <3> QED
      BY <2>1, <3>1, <3>2
  <2> QED
    BY <2>2
<1>10. HeldMarkets(q) = HeldMarkets(r)
  BY <1>1, <1>5, <1>6, <1>7 DEF HeldMarkets
<1>11. \A m \in HeldMarkets(r) : PositionOn(q, m).size = PositionOn(r, m).size
  <2>1. ASSUME NEW m \in HeldMarkets(r)
        PROVE  PositionOn(q, m).size = PositionOn(r, m).size
    <3>1. PICK i \in DOMAIN s : s[i].m = m
      BY <1>1 DEF HeldMarkets
    <3>2. PositionOn(r, m) = s[i]
      BY <1>1, <3>1, PositionIs
    <3>3. i \in DOMAIN q.pos /\ q.pos[i] = f[i] /\ f[i].m = m /\ q.pos \in Basket
      BY <1>5, <1>6, <1>7, <3>1
    <3>4. PositionOn(q, q.pos[i].m) = q.pos[i]
      BY ONLY <3>3, PositionIs
    <3>5. PositionOn(q, m) = f[i]
      BY <3>3, <3>4
    <3> QED
      BY <1>7, <3>2, <3>5
  <2> QED
    BY <2>1
<1>12. Locked(q) = Locked(r)
  <2>1. [m \in HeldMarkets(q) |-> PositionOn(q, m).size]
          = [m \in HeldMarkets(r) |-> PositionOn(r, m).size]
    BY <1>10, <1>11
  <2> QED
    BY <2>1 DEF Locked
<1>13. /\ q.cash = r.cash /\ q.realized = r.realized /\ q.trades = r.trades
       /\ q.wins = r.wins /\ q.entries = r.entries
  BY <1>6
<1>14. IdsMatch(q, l)
  BY <1>8, <1>9, <1>13 DEF Match, IdsMatch
<1>15. CountsMatch(q, l) /\ MoneyMatches(q, l)
  BY <1>12, <1>13 DEF Match, CountsMatch, MoneyMatches
<1> QED
  BY <1>14, <1>15 DEF Match

(* A row that matches its log is what the log adds up to. *)
LEMMA MatchAddsUp ==
    ASSUME NEW r \in Row, NEW l, Match(r, l)
    PROVE  AddsUp(r, l)
<1>1. r.pos \in Basket /\ \A i, j \in DOMAIN r.pos : r.pos[i].m = r.pos[j].m => i = j
  BY DEF Row, Basket
<1>2. Open(r) = {r.pos[i].id : i \in DOMAIN r.pos}
  BY DEF Open, Positions
<1>3. /\ Ids(l, Outs(l)) = {l[i].id : i \in Outs(l)}
      /\ Ids(l, Ins(l)) = {l[i].id : i \in Ins(l)}
  BY DEF Ids
<1>4. ASSUME NEW i \in DOMAIN r.pos, NEW j \in DOMAIN r.pos, r.pos[i].id = r.pos[j].id
      PROVE  i = j
  <2>1. r.pos[i] \in Positions(r) /\ r.pos[j] \in Positions(r)
    BY DEF Positions
  <2>2. r.pos[i] = r.pos[j]
    BY <1>4, <2>1 DEF Match, IdsMatch
  <2> QED
    BY <1>1, <2>2
<1>5. /\ \A i, j \in DOMAIN l : l[i].exit = l[j].exit /\ l[i].id = l[j].id => i = j
      /\ Ids(l, Outs(l)) \cap Open(r) = {}
      /\ Ids(l, Outs(l)) \cup Open(r) = Ids(l, Ins(l))
  BY DEF Match, IdsMatch
<1>6. /\ r.trades = Cardinality(Outs(l)) /\ r.entries = Cardinality(Ins(l))
      /\ r.wins = Cardinality({i \in Outs(l) : l[i].realized > 0})
      /\ r.realized = SumFunction([i \in Outs(l) |-> l[i].realized])
  BY DEF Match, CountsMatch, MoneyMatches, Wins, Realized
<1> QED
  BY <1>2, <1>3, <1>4, <1>5, <1>6 DEF AddsUp

-----------------------------------------------------------------------------
(* The books. *)

OnlyTrader(p, a) == Traded(proc[p], a) /\ \A q \in Procs : Traded(proc[q], a) => q = p

\* The row matches the log; or, while one process is between its two writes, the
\* row that process is about to persist, unless somebody wrote the row since it
\* was read.
BooksOf(a) ==
    /\ (\A p \in Procs : ~Traded(proc[p], a)) => Match(row[a], log[a])
    /\ \A p \in Procs : OnlyTrader(p, a) /\ a \notin stale[p] => Match(Copy(proc[p], a), log[a])

Books == \A a \in Agents \ torn : BooksOf(a)

(* Steps that are not about an agent. *)
LEMMA BooksKept ==
    ASSUME NEW a, BooksOf(a), row'[a] = row[a], log'[a] = log[a],
           \A q \in Procs : Traded(proc'[q], a) <=> Traded(proc[q], a),
           \A q \in Procs : Traded(proc'[q], a) /\ a \notin stale'[q] =>
              a \notin stale[q] /\ Copy(proc'[q], a) = Copy(proc[q], a)
    PROVE  BooksOf(a)'
<1>1. (\A p \in Procs : ~Traded(proc'[p], a)) => Match(row'[a], log'[a])
  BY DEF BooksOf
<1>2. ASSUME NEW p \in Procs, Traded(proc'[p], a), \A q \in Procs : Traded(proc'[q], a) => q = p,
             a \notin stale'[p]
      PROVE  Match(Copy(proc'[p], a), log'[a])
  <2>1. OnlyTrader(p, a)
    BY <1>2 DEF OnlyTrader
  <2>2. Match(Copy(proc[p], a), log[a])
    BY <1>2, <2>1 DEF BooksOf
  <2> QED
    BY <1>2, <2>2
<1> QED
  BY <1>1, <1>2 DEF BooksOf, OnlyTrader

(* The copy that a process moves or writes matches the log, if no other process is
   between its writes and nobody wrote the row. *)
LEMMA CopyMatches ==
    ASSUME Current, NEW a, BooksOf(a), NEW p \in Procs, Has(proc[p], a), a \notin stale[p],
           \A q \in Procs : Traded(proc[q], a) => q = p
    PROVE  Match(Copy(proc[p], a), log[a])
<1>1. CASE Traded(proc[p], a)
  BY <1>1 DEF BooksOf, OnlyTrader
<1>2. CASE ~Traded(proc[p], a)
  <2>1. Copy(proc[p], a) = row[a]
    BY <1>2 DEF Current
  <2>2. Match(row[a], log[a])
    BY <1>2 DEF BooksOf
  <2> QED
    BY <2>1, <2>2
<1> QED
  BY <1>1, <1>2

(* A trade is inserted: the copy moves with the log. *)
LEMMA BooksRecorded ==
    ASSUME BasketAssumption, Basic, Current, NEW p \in Procs, NEW t, NEW b, NEW out,
           proc' = [proc EXCEPT ![p] = t], Recorded(p, t, b, out),
           NEW a \in Agents, a \notin torn, BooksOf(a)
    PROVE  BooksOf(a)'
<1>0. /\ proc'[p] = t /\ \A q \in Procs : q # p => proc'[q] = proc[q]
      /\ TickState(proc[p]) /\ log \in [Agents -> Seq(Trade)]
  BY DEF Basic, TypeOK, Local
<1>1. /\ b \in Agents /\ Has(proc[p], b) /\ Moves(Copy(proc[p], b), out)
      /\ Copy(t, b) = out.row /\ Traded(t, b)
      /\ \A c : c # b => ~Traded(t, c) /\ ~Traded(proc[p], c)
      /\ Insert(b, out.trade) /\ UNCHANGED <<row, torn, stale>>
  BY DEF Recorded
<1>2. CASE a # b
  <2>1. log'[a] = log[a]
    BY <1>0, <1>1, <1>2 DEF Insert
  <2>2. \A q \in Procs : Traded(proc'[q], a) <=> Traded(proc[q], a)
    BY <1>0, <1>1, <1>2
  <2>3. \A q \in Procs : Traded(proc'[q], a) => Copy(proc'[q], a) = Copy(proc[q], a)
    BY <1>0, <1>1, <1>2
  <2> QED
    BY <1>1, <2>1, <2>2, <2>3, BooksKept
<1>3. CASE a = b
  <2>1. log'[a] = Append(log[a], out.trade)
    BY <1>0, <1>1, <1>3 DEF Insert
  <2>2. Traded(proc'[p], a)
    BY <1>0, <1>1, <1>3
  <2>3. ASSUME NEW q \in Procs, Traded(proc'[q], a), \A x \in Procs : Traded(proc'[x], a) => x = q,
               a \notin stale'[q]
        PROVE  Match(Copy(proc'[q], a), log'[a])
    <3>1. q = p
      BY <2>2, <2>3
    <3>2. \A x \in Procs : Traded(proc[x], a) => x = p
      BY <1>0, <2>3, <3>1
    <3>3. PICK r \in Row : r = Copy(proc[p], a)
      BY <1>0, <1>1, <1>3, Held
    <3>4. PICK l \in Seq(Trade) : l = log[a]
      BY <1>0
    <3>5. Match(r, l)
      BY <1>1, <1>3, <2>3, <3>1, <3>2, <3>3, <3>4, CopyMatches
    <3>6. Match(out.row, Append(l, out.trade))
      BY <1>1, <1>3, <3>3, <3>5, MatchMoves
    <3> QED
      BY <1>0, <1>1, <1>3, <2>1, <3>1, <3>4, <3>6
  <2> QED
    BY <2>2, <2>3 DEF BooksOf, OnlyTrader
<1> QED
  BY <1>2, <1>3

(* A row is written: whoever else is between its writes has missed it. *)
LEMMA BooksWritten ==
    ASSUME BasketAssumption, Basic, Current, NEW p \in Procs, NEW t, NEW b,
           proc' = [proc EXCEPT ![p] = t], Wrote(p, t, b),
           NEW a \in Agents, a \notin torn', BooksOf(a)
    PROVE  BooksOf(a)'
<1>0. /\ proc'[p] = t /\ \A q \in Procs : q # p => proc'[q] = proc[q]
      /\ Stored /\ \A q \in Procs : TickState(proc[q])
  BY DEF Basic, TypeOK, Local, Stored
<1>1. /\ b \in Agents /\ Has(proc[p], b) /\ Write(p, b, Copy(proc[p], b))
      /\ \A c : ~Traded(t, c) /\ (Traded(proc[p], c) => c = b)
  BY DEF Wrote
<1>2. /\ row'[b] = Copy(proc[p], b) /\ \A c \in Agents : c # b => row'[c] = row[c]
      /\ \A q \in Procs : q # p => stale[q] \subseteq stale'[q] /\ (proc[q] # Idle => b \in stale'[q])
      /\ (b \in stale[p] => b \in torn')
      /\ log'[a] = log[a]
  <2>1. PICK new : new = Copy(proc[p], b)
    OBVIOUS
  <2>2. Write(p, b, new) /\ b \in Agents
    BY <1>1, <2>1
  <2>3. /\ row'[b] = new /\ \A c \in Agents : c # b => row'[c] = row[c]
        /\ \A q \in Procs : q # p => stale[q] \subseteq stale'[q] /\ (proc[q] # Idle => b \in stale'[q])
        /\ (b \in stale[p] => b \in torn')
        /\ log'[a] = log[a]
    BY <1>0, <2>2, WriteEffects
  <2> QED
    BY <2>1, <2>3
<1>3. CASE a # b
  <2>1. \A q \in Procs : Traded(proc'[q], a) <=> Traded(proc[q], a)
    BY <1>0, <1>1, <1>3
  <2>2. \A q \in Procs : Traded(proc'[q], a) /\ a \notin stale'[q] =>
           a \notin stale[q] /\ Copy(proc'[q], a) = Copy(proc[q], a)
    BY <1>0, <1>1, <1>2
  <2> QED
    BY <1>2, <1>3, <2>1, <2>2, BooksKept
<1>4. CASE a = b
  <2>1. ASSUME NEW q \in Procs, Traded(proc'[q], a)
        PROVE  a \in stale'[q]
    <3>1. q # p /\ Traded(proc[q], a)
      BY <1>0, <1>1, <2>1
    <3>2. proc[q] # Idle
      BY <1>0, <3>1, Held DEF Idle
    <3> QED
      BY <1>2, <1>4, <3>1, <3>2
  <2>2. ASSUME \A q \in Procs : ~Traded(proc'[q], a)
        PROVE  Match(row'[a], log'[a])
    <3>1. \A q \in Procs : Traded(proc[q], a) => q = p
      BY <1>0, <2>2
    <3>2. a \notin stale[p] /\ Has(proc[p], a)
      BY <1>1, <1>2, <1>4
    <3>3. Match(Copy(proc[p], a), log[a])
      BY <3>1, <3>2, CopyMatches
    <3> QED
      BY <1>2, <1>4, <3>3
  <2> QED
    BY <2>1, <2>2 DEF BooksOf, OnlyTrader
<1> QED
  BY <1>3, <1>4

(* A tick's step keeps the books. *)
LEMMA BooksTick ==
    ASSUME BasketAssumption, Basic, Current, NEW p \in Procs, NEW t, Progress(p, t),
           NEW a \in Agents, a \notin torn', BooksOf(a), a \notin torn
    PROVE  BooksOf(a)'
<1>0. /\ proc' = [proc EXCEPT ![p] = t]
      /\ proc'[p] = t /\ \A q \in Procs : q # p => proc'[q] = proc[q]
      /\ TickState(t) /\ p # Rec /\ DOMAIN stale = Procs \cup {Rec}
  BY DEF Basic, TypeOK, Local, Progress, BasketAssumption, Rec
<1>1. ASSUME NEW R, Moved(p, t, R)
      PROVE  BooksOf(a)'
  <2>1. /\ UNCHANGED <<row, log>> /\ (Traded(t, a) <=> Traded(proc[p], a)) /\ (a \in R => ~Traded(t, a))
        /\ Has(t, a) => IF a \in R THEN Copy(t, a) = row[a]
                        ELSE Has(proc[p], a) /\ Copy(t, a) = Copy(proc[p], a)
        /\ stale'[p] = stale[p] \ R /\ \A q \in Procs : q # p => stale'[q] = stale[q]
    BY <1>0, <1>1 DEF Moved
  <2>2. Traded(t, a) => Has(t, a)
    BY DEF Traded, Has
  <2>3. \A q \in Procs : Traded(proc'[q], a) <=> Traded(proc[q], a)
    BY <1>0, <2>1
  <2>4. \A q \in Procs : Traded(proc'[q], a) /\ a \notin stale'[q] =>
           a \notin stale[q] /\ Copy(proc'[q], a) = Copy(proc[q], a)
    BY <1>0, <2>1, <2>2
  <2> QED
    BY <2>1, <2>3, <2>4, BooksKept
<1>2. ASSUME NEW b, NEW out, Recorded(p, t, b, out)
      PROVE  BooksOf(a)'
  BY <1>0, <1>2, BooksRecorded
<1>3. ASSUME NEW b, Wrote(p, t, b)
      PROVE  BooksOf(a)'
  BY <1>0, <1>3, BooksWritten
<1>4. ASSUME Died(p, t)
      PROVE  BooksOf(a)'
  <2>1. PICK S \in SUBSET Agents : Tear(S) /\ \A b : Traded(proc[p], b) => b \in S
    BY <1>4 DEF Died
  <2>2. a \notin S /\ log'[a] = log[a] /\ row' = row
    BY <1>4, <2>1 DEF Tear, Died
  <2>3. ~Traded(proc[p], a) /\ ~Traded(t, a)
    BY <1>4, <2>1, <2>2 DEF Died, Traded, Idle
  <2>4. \A q \in Procs : q # p => stale'[q] = stale[q]
    BY <1>0, <1>4 DEF Died
  <2>5. \A q \in Procs : Traded(proc'[q], a) <=> Traded(proc[q], a)
    BY <1>0, <2>3
  <2>6. \A q \in Procs : Traded(proc'[q], a) /\ a \notin stale'[q] =>
           a \notin stale[q] /\ Copy(proc'[q], a) = Copy(proc[q], a)
    BY <1>0, <2>3, <2>4
  <2> QED
    BY <2>2, <2>5, <2>6, BooksKept
<1> QED
  BY <1>1, <1>2, <1>3, <1>4 DEF Progress

(* The reconciler's step keeps the books. *)
LEMMA BooksReconciled ==
    ASSUME BasketAssumption, Basic, Current, RecKept, Reconcile \/ Crash(Rec),
           NEW a \in Agents, a \notin torn', BooksOf(a), a \notin torn
    PROVE  BooksOf(a)'
<1>0. /\ Stored /\ \A q \in Procs : TickState(proc[q]) /\ q # Rec
      /\ DOMAIN stale = Procs \cup {Rec} /\ DOMAIN proc = Procs \cup {Rec}
  BY DEF Basic, TypeOK, Stored, Local, BasketAssumption, Rec
<1>1. \A q \in Procs : proc'[q] = proc[q]
  <2>1. \E u : proc' = [proc EXCEPT ![Rec] = u]
    BY RecSteps
  <2> QED
    BY <1>0, <2>1
<1>2. ASSUME row'[a] = row[a], log'[a] = log[a], \A q \in Procs : stale[q] \subseteq stale'[q]
      PROVE  BooksOf(a)'
  BY <1>1, <1>2, BooksKept
<1>3. CASE RecList \/ RecRead \/ RecEnd
  <2>1. UNCHANGED <<row, log>>
    BY <1>3 DEF RecList, RecRead, RecEnd
  <2>2. \A q \in Procs : stale'[q] = stale[q]
    BY <1>0, <1>3, RecReads
  <2> QED
    BY <1>2, <2>1, <2>2
<1>4. CASE Crash(Rec)
  <2>1. Tear(HalfDone(Rec)) /\ UNCHANGED row /\ stale' = [stale EXCEPT ![Rec] = {}]
    BY <1>4 DEF Crash, Done
  <2>2. log'[a] = log[a]
    BY <2>1 DEF Tear
  <2> QED
    BY <1>0, <1>2, <2>1, <2>2
<1>5. CASE RecWrite
  <2>1. PICK s : s = proc[Rec]
    OBVIOUS
  <2>2. s.pc = "fill" /\ s.a \in Agents
    BY <1>5, <2>1, RecWrites
  <2>3. PICK b \in Agents : b = s.a
    BY <2>2
  <2>4. PICK new : new = [row[b] EXCEPT !.pos = s.pos] /\ Write(Rec, b, new)
    BY <1>5, <2>1, <2>3, RecWrites
  <2>5. /\ row'[b] = new /\ \A c \in Agents : c # b => row'[c] = row[c]
        /\ \A q \in Procs : stale[q] \subseteq stale'[q] /\ (proc[q] # Idle => b \in stale'[q])
        /\ (b \in stale[Rec] => b \in torn')
        /\ log'[a] = log[a]
    BY <1>0, <2>4, WriteEffects
  <2>6. CASE a # b
    BY <1>2, <2>5, <2>6
  <2>7. CASE a = b
    <3>1. ASSUME NEW q \in Procs, Traded(proc'[q], a)
          PROVE  a \in stale'[q]
      <4>1. Traded(proc[q], a)
        BY <1>1, <3>1
      <4>2. proc[q] # Idle
        BY <1>0, <4>1, Held DEF Idle
      <4> QED
        BY <2>5, <2>7, <4>2
    <3>2. ASSUME \A q \in Procs : ~Traded(proc'[q], a)
          PROVE  Match(row'[a], log'[a])
      <4>1. a \notin torn \cup stale[Rec]
        BY <2>5, <2>7
      <4>2. PICK u : Matching(u, row[a]) /\ s.pos = FillAt(row[a].pos, u)
        BY <2>1, <2>2, <2>3, <2>7, <4>1 DEF RecKept
      <4>3. PICK r \in Row : r = row[a]
        BY <1>0 DEF Stored
      <4>4. Match(r, log[a])
        BY <1>1, <3>2, <4>3 DEF BooksOf
      <4>5. new = [r EXCEPT !.pos = FillAt(r.pos, u)] /\ Matching(u, r)
        BY <2>4, <2>7, <4>2, <4>3
      <4>6. Match(new, log[a])
        BY <4>4, <4>5, MatchFilled
      <4> QED
        BY <2>5, <2>7, <4>6
    <3> QED
      BY <3>1, <3>2 DEF BooksOf, OnlyTrader
  <2> QED
    BY <2>6, <2>7
<1> QED
  BY <1>3, <1>4, <1>5 DEF Reconcile

\* The inductive invariant of the books.
BooksInv == FillInv /\ Current /\ Books

(* At first a row is empty, and so is the log. *)
LEMMA BooksInit == ASSUME BasketAssumption, Init PROVE BooksInv
<1>1. \A p \in Procs, b \in Agents : ~Has(proc[p], b) /\ ~Traded(proc[p], b)
  BY DEF Init, Has, Traded, TodoOf, NoCopies, Idle
<1>2. \A p \in Procs : \A b : ~Has(proc[p], b)
  BY DEF Init, Has, TodoOf, NoCopies, Idle
<1>3. Current
  BY <1>2 DEF Current
<1>4. ASSUME NEW a \in Agents
      PROVE  Match(row[a], log[a])
  <2>1. PICK r : r = row[a]
    OBVIOUS
  <2>2. /\ r = [cash |-> Start, pos |-> <<>>, realized |-> 0, trades |-> 0, wins |-> 0,
                entries |-> 0]
        /\ log[a] = <<>>
    BY <2>1 DEF Init
  <2>3. PICK l : l = <<>> /\ l = log[a]
    BY <2>2
  <2>4. DOMAIN l = {} /\ Outs(l) = {} /\ Ins(l) = {} /\ Wins(l) = {}
    BY <2>3 DEF Outs, Ins, Wins
  <2>5. Positions(r) = {} /\ HeldMarkets(r) = {}
    BY <2>2 DEF Positions, HeldMarkets
  <2>6. IdsMatch(r, l)
    BY <2>4, <2>5 DEF IdsMatch, Ids, Open
  <2>7. CountsMatch(r, l)
    BY <2>2, <2>4, FS_EmptySet DEF CountsMatch
  <2>8. MoneyMatches(r, l)
    <3>1. \A f : DOMAIN f = {} => SumFunction(f) = 0
      BY SumEmpty DEF SumFunction
    <3>2. Realized(l) = 0 /\ Fees(l) = 0 /\ Gaps(l) = 0 /\ Locked(r) = 0
      BY <2>4, <2>5, <3>1 DEF Realized, Fees, Gaps, Locked
    <3> QED
      BY <2>2, <3>2 DEF MoneyMatches, BasketAssumption
  <2> QED
    BY <2>1, <2>3, <2>6, <2>7, <2>8 DEF Match
<1>5. Books
  BY <1>1, <1>4 DEF Books, BooksOf, OnlyTrader
<1> QED
  BY <1>3, <1>5, FillInit DEF BooksInv

(* Every step keeps the books. *)
LEMMA BooksStep ==
    ASSUME BasketAssumption, BooksInv, [Next]_vars
    PROVE  BooksInv'
<1>0. Basic /\ Sound /\ RecKept /\ Current /\ Books
  BY DEF BooksInv, FillInv
<1>1. FillInv' /\ Current'
  BY <1>0, BasicStep, SoundStep, RecKeptStep, CurrentStep DEF FillInv
<1>2. ASSUME NEW a \in Agents, a \notin torn'
      PROVE  BooksOf(a)'
  <2>1. a \notin torn
    BY <1>0, <1>2, Origins
  <2>2. BooksOf(a)
    BY <1>0, <2>1 DEF Books
  <2>3. ASSUME NEW p \in Procs, Tick(p) \/ Crash(p)
        PROVE  BooksOf(a)'
    <3>1. PICK t : Progress(p, t)
      BY <1>0, <2>3, TickSteps
    <3> QED
      BY <1>0, <1>2, <2>1, <2>2, <3>1, BooksTick
  <2>4. ASSUME Reconcile \/ Crash(Rec)
        PROVE  BooksOf(a)'
    BY <1>0, <1>2, <2>1, <2>2, <2>4, BooksReconciled
  <2>5. ASSUME Outside
        PROVE  BooksOf(a)'
    <3>1. UNCHANGED <<row, log, proc, stale>>
      BY <2>5 DEF Outside, Expire, Candles, Switch, vars
    <3> QED
      BY <2>2, <3>1, BooksKept
  <2> QED
    BY <2>3, <2>4, <2>5 DEF Next, Outside
<1> QED
  BY <1>1, <1>2 DEF BooksInv, Books

(* Agents that are not between two writes have a row that matches. *)
LEMMA BooksShow ==
    ASSUME BooksInv, NEW a \in Agents, Undisturbed(a)
    PROVE  row[a] \in Row /\ Match(row[a], log[a])
<1>1. \A p \in Procs : ~Traded(proc[p], a)
  BY DEF Undisturbed, BetweenWrites, Traded
<1>2. BooksOf(a)
  BY DEF BooksInv, Books, Undisturbed
<1> QED
  BY <1>1, <1>2 DEF BooksOf, BooksInv, FillInv, Basic, TypeOK

(* Rows are what their trades add up to, however many processes settle, trade,
   seal, reconcile and die, but for those hit by a lost update or a death between
   the two writes. *)
THEOREM BooksMatch == Spec => []BooksMatchLog
<1>1. BooksInv => BooksMatchLog
  BY BooksShow, MatchAddsUp DEF BooksMatchLog
<1>2. BooksInv /\ [Next]_vars => BooksInv'
  BY BooksStep, BasketAssumption
<1> QED
  BY <1>1, <1>2, BooksInit, BasketAssumption, PTL DEF Spec

(* Cash is the start, with what was realized, less what is open, the fees and what
   was locked and never sent to the venue. *)
THEOREM CashIsAccounted == Spec => []CashAccounted
<1>1. BooksInv => CashAccounted
  BY BooksShow DEF CashAccounted, Match, MoneyMatches
<1>2. BooksInv /\ [Next]_vars => BooksInv'
  BY BooksStep, BasketAssumption
<1> QED
  BY <1>1, <1>2, BooksInit, BasketAssumption, PTL DEF Spec

-----------------------------------------------------------------------------
(* No agent has less than nothing. *)

\* What is left of a product between an entry and an exit covers the fee of the
\* exit; a short is worth size * (px - entry) / (entry - 1) at prices over a dollar.
Covered ==
    \A m \in Spots : \A e \in EntryAt[m], x \in ExitAt[m] :
        /\ "BUY" \in Sides[m] => FeeBps * e <= 10000 * x
        /\ "SELL" \in Sides[m] => FeeBps * (e - Unit) <= 10000 * (x - Unit)

(* What covers a fee on the price covers it on the stake. *)
LEMMA FeeCovered ==
    ASSUME NEW size \in Int, size >= 0, NEW bps \in Int, NEW fee \in Int,
           10000 * fee <= size * bps,
           NEW y \in Int, y >= 0, NEW x \in Int, bps * y <= 10000 * x
    PROVE  fee * y <= size * x
<1>1. PICK c \in Int, d \in Int, z \in Int, w \in Int :
         c = size * bps /\ d = bps * y /\ z = fee * y /\ w = size * x
  OBVIOUS
<1>2. (10000 * fee) * y <= c * y
  <2>1. PICK u \in Int : u = 10000 * fee /\ u <= c
    BY <1>1
  <2>2. u * y <= c * y
    BY <2>1
  <2> QED
    BY <2>1, <2>2
<1>3. (10000 * fee) * y = 10000 * z
  BY <1>1
<1>4. c * y = size * d
  BY <1>1
<1>5. size * d <= size * (10000 * x)
  <2>1. PICK u \in Int : u = 10000 * x /\ d <= u
    BY <1>1
  <2>2. size * d <= size * u
    BY <2>1
  <2> QED
    BY <2>1, <2>2
<1>6. size * (10000 * x) = 10000 * w
  BY <1>1
<1>7. 10000 * z <= 10000 * w
  <2>1. PICK u \in Int, v \in Int : u = c * y /\ v = size * (10000 * x)
    BY <1>1
  <2>2. u = size * d
    BY <1>4, <2>1
  <2>3. 10000 * z <= u /\ u <= v /\ v = 10000 * w
    BY <1>2, <1>3, <1>5, <1>6, <2>1, <2>2
  <2> QED
    BY <2>3
<1>8. z <= w
  BY <1>7
<1> QED
  BY <1>1, <1>8

\* A position that was paid for.
SolventPos(pos) == pos.size >= 0 /\ pos.paid >= 0 /\ pos.side \in Sides[pos.m]

SolventRow(r) == r.cash >= 0 /\ \A pos \in Positions(r) : SolventPos(pos)

(* A position on a binary loses at most its stake, whatever it is closed at. *)
LEMMA BinaryLoss ==
    ASSUME BasketAssumption, NEW pos \in Position, SolventPos(pos), pos.m \in Binaries,
           NEW px \in Quotes(pos.m)
    PROVE  Gain(pos, px) >= -pos.size /\ FeeOn(pos.m, pos.size) = 0
<1>1. pos.m \notin Spots /\ Unit \in Int /\ Unit > 0
  BY DEF BasketAssumption
<1>2. PICK e \in Int, s \in Int : e = pos.px /\ s = pos.size /\ 0 < e /\ e < Unit /\ 0 <= s
  BY Divisors, <1>1 DEF Position, SolventPos
<1>3. px \in Int /\ 0 <= px /\ px <= Unit
  <2>1. px \in ExitAt[pos.m] \/ px = 0 \/ px = Unit
    BY DEF Quotes
  <2>2. ExitAt[pos.m] \subseteq 1..(Unit - 1)
    BY DEF BasketAssumption
  <2> QED
    BY <1>1, <2>1, <2>2
<1>4. ASSUME pos.side = "BUY"
      PROVE  Gain(pos, px) >= -s
  <2>1. PICK n \in Int : n = s * (px - e)
    BY <1>2, <1>3
  <2>2. PICK a \in Int, b \in Int : a = s * px /\ b = s * e
    BY <1>2, <1>3
  <2>3. 0 <= a /\ n = a - b /\ (-s) * e = -b
    BY <1>2, <1>3, <2>1, <2>2
  <2>4. -s \in Int /\ (-s) * e <= n
    BY <1>2, <2>2, <2>3
  <2>5. Part(n, e) >= -s
    BY <1>2, <2>4, PartAtLeast
  <2> QED
    BY <1>2, <1>4, <2>1, <2>5 DEF Gain
<1>5. ASSUME pos.side # "BUY"
      PROVE  Gain(pos, px) >= -s
  <2>1. PICK d \in Int, n \in Int : d = Unit - e /\ d > 0 /\ n = s * (e - px)
    BY <1>1, <1>2, <1>3
  <2>2. PICK a \in Int, b \in Int : a = s * (Unit - px) /\ b = s * d
    BY <1>1, <1>2, <1>3, <2>1
  <2>3. 0 <= a
    <3>1. PICK c \in Int : c = Unit - px /\ 0 <= c
      BY <1>1, <1>3
    <3>2. 0 <= s * c
      BY <1>2, <3>1
    <3> QED
      BY <2>2, <3>1, <3>2
  <2>4. n = a - b /\ (-s) * d = -b
    BY <1>1, <1>2, <1>3, <2>1, <2>2
  <2>5. -s \in Int /\ (-s) * d <= n
    BY <1>2, <2>2, <2>3, <2>4
  <2>6. Part(n, d) >= -s
    BY <2>1, <2>5, PartAtLeast
  <2> QED
    BY <1>2, <1>5, <2>1, <2>6 DEF Gain
<1> QED
  BY <1>1, <1>2, <1>4, <1>5 DEF FeeOn

(* A position on a product loses at most its stake, the fee included. *)
LEMMA ProductLoss ==
    ASSUME BasketAssumption, Covered, NEW pos \in Position, SolventPos(pos), pos.m \in Spots,
           NEW px \in ExitAt[pos.m]
    PROVE  Gain(pos, px) - FeeOn(pos.m, pos.size) >= -pos.size
<1>1. FeeBps \in Int /\ Unit \in Int /\ EntryAt[pos.m] \cup ExitAt[pos.m] \subseteq {x \in Nat : x > Unit}
  BY DEF BasketAssumption
<1>2. pos.px \in EntryAt[pos.m] /\ pos.size \in Int /\ pos.size >= 0 /\ pos.side \in Sides[pos.m]
      /\ pos.side \in {"BUY", "SELL"}
  BY DEF Position, SolventPos
<1>3. PICK e \in Int, s \in Int : e = pos.px /\ s = pos.size /\ e > Unit /\ 0 <= s
  BY <1>1, <1>2
<1>4. px \in Int /\ px > Unit /\ Unit > 0
  BY <1>1 DEF BasketAssumption
<1>5. PICK fee \in Int : fee = FeeOn(pos.m, pos.size) /\ 10000 * fee <= s * FeeBps
  <2>1. PICK c \in Int : c = s * FeeBps
    BY <1>1, <1>3
  <2>2. FeeOn(pos.m, pos.size) = c \div 10000
    BY <1>3, <2>1 DEF FeeOn, Part
  <2>3. c \div 10000 \in Int /\ 10000 * (c \div 10000) <= c
    BY <2>1
  <2> QED
    BY <2>1, <2>2, <2>3
<1>6. ASSUME pos.side = "BUY"
      PROVE  Gain(pos, px) >= fee - s
  <2>1. FeeBps * e <= 10000 * px
    BY <1>2, <1>3, <1>6 DEF Covered
  <2>2. fee * e <= s * px
    <3>1. e >= 0
      BY <1>3, <1>4
    <3> QED
      BY <1>1, <1>3, <1>4, <1>5, <2>1, <3>1, FeeCovered
  <2>3. PICK n \in Int, k \in Int : n = s * (px - e) /\ k = fee - s
    BY <1>3, <1>4
  <2>4. PICK a \in Int, b \in Int, c \in Int : a = fee * e /\ b = s * e /\ c = s * px
    BY <1>3, <1>4
  <2>5. k * e = a - b /\ n = c - b /\ a <= c
    BY <1>3, <1>4, <2>2, <2>3, <2>4
  <2>6. k * e <= n
    BY <2>5
  <2>7. Part(n, e) >= k
    <3>1. e > 0
      BY <1>3, <1>4
    <3> QED
      BY <2>3, <2>6, <3>1, PartAtLeast
  <2> QED
    BY <1>3, <1>6, <2>3, <2>7 DEF Gain
<1>7. ASSUME pos.side = "SELL"
      PROVE  Gain(pos, px) >= fee - s
  <2>1. PICK d \in Int, x \in Int : d = e - Unit /\ x = px - Unit /\ d > 0
    BY <1>1, <1>3, <1>4
  <2>2. FeeBps * d <= 10000 * x
    BY <1>2, <1>3, <1>7, <2>1 DEF Covered
  <2>3. fee * d <= s * x
    <3>1. d >= 0
      BY <2>1
    <3> QED
      BY <1>1, <1>3, <1>5, <2>1, <2>2, <3>1, FeeCovered
  <2>4. PICK n \in Int, k \in Int : n = s * (px - e) /\ k = fee - s
    BY <1>3, <1>4
  <2>5. PICK a \in Int, b \in Int, c \in Int : a = fee * d /\ b = s * d /\ c = s * x
    BY <1>3, <2>1
  <2>6. k * d = a - b /\ n = c - b /\ a <= c
    <3>1. px - e = x - d
      BY <1>1, <1>3, <1>4, <2>1
    <3>2. n = s * (x - d)
      BY <2>4, <3>1
    <3> QED
      BY <2>1, <2>3, <2>4, <2>5, <3>2
  <2>7. k * d <= n
    BY <2>6
  <2>8. Part(n, d) >= k
    BY <2>1, <2>4, <2>7, PartAtLeast
  <2>9. Gain(pos, px) = Part(n, d)
    <3>1. PICK v \in Int, w \in Int : v = s * (e - px) /\ w = Unit - e
      BY <1>1, <1>3, <1>4
    <3>2. w < 0 /\ -w = d /\ -v = n /\ ~(d < 0)
      BY <1>1, <1>3, <1>4, <2>1, <2>4, <3>1
    <3>3. Part(v, w) = n \div d /\ Part(n, d) = n \div d
      BY <3>2 DEF Part
    <3> QED
      BY <1>3, <1>7, <3>1, <3>3 DEF Gain
  <2> QED
    BY <2>4, <2>8, <2>9
<1>8. Gain(pos, px) \in Int
  BY <1>4, AmountTypes
<1>9. Gain(pos, px) >= fee - s
  BY <1>2, <1>6, <1>7
<1> QED
  BY <1>3, <1>5, <1>8, <1>9

(* A payout is no less than nothing. *)
LEMMA PayoutLoss ==
    ASSUME BasketAssumption, NEW pos \in Position, SolventPos(pos)
    PROVE  Payout(pos) >= 0
<1>1. PICK e \in Int, n \in Int : e = pos.px /\ e > 0 /\ n = pos.paid /\ n >= 0
  BY Divisors DEF Position, SolventPos
<1>2. Unit \in Int /\ Unit > 0 /\ pos.shares \in Int
  BY DEF BasketAssumption, Position
<1>3. PICK k \in Int : k = n * Unit /\ 0 <= k
  BY <1>1, <1>2
<1>4. Part(k, e) >= 0
  <2>1. 0 \in Int /\ 0 * e <= k
    BY <1>1, <1>3
  <2> QED
    BY <1>1, <1>3, <2>1, PartAtLeast
<1> QED
  BY <1>1, <1>2, <1>3, <1>4 DEF Payout

\* A trade on a binary that lost no more than its stake.
Bounded(t) == t.exit /\ t.m \in Binaries => t.realized >= -t.stake

(* A way out leaves at least nothing; and loses at most the stake on a binary, if no
   more was sent to the venue than the stake. *)
LEMMA LeavesSolvent ==
    ASSUME BasketAssumption, Covered, NEW r \in Row, SolventRow(r), NEW m, NEW out, Leaves(r, m, out)
    PROVE  SolventRow(out.row) /\ (SoundRow(r) => Bounded(out.trade))
<1>1. PICK q, t : q = out.row /\ t = out.trade
  OBVIOUS
<1>2. LeftBy(r, m, t, q) /\ t \in Trade
  BY <1>1, LeavesRow
<1>3. Holds(r, m)
  BY DEF Leaves
<1>4. PICK pos \in Position : pos = PositionOn(r, m)
  BY <1>3, HeldPosition
<1>5. pos.m = m /\ m \in Markets
  BY <1>3, <1>4, HeldPosition
<1>6. /\ t.exit /\ t.stake = pos.size /\ t.m = m
      /\ \/ t.gap = 0 /\ \E px \in Quotes(m) : t.realized = Gain(pos, px) - FeeOn(m, pos.size)
         \/ /\ m \in Binaries /\ pos.live
            /\ t.realized = Payout(pos) - pos.paid /\ t.gap = pos.size - pos.paid
  BY <1>1, <1>4 DEF Leaves
<1>7. /\ q.cash = r.cash + (pos.size + t.realized - t.gap)
      /\ Positions(q) = Positions(r) \ {pos} /\ pos \in Positions(r)
  BY <1>2, <1>4 DEF LeftBy
<1>8. SolventPos(pos) /\ r.cash \in Int /\ r.cash >= 0
  BY <1>7 DEF SolventRow, Row
<1>9. pos.size \in Int /\ pos.paid \in Int /\ t.realized \in Int /\ t.gap \in Int
  BY <1>2 DEF Position, Trade
<1>10. CASE t.gap = 0 /\ \E px \in Quotes(m) : t.realized = Gain(pos, px) - FeeOn(m, pos.size)
  <2>1. PICK px \in Quotes(m) : t.realized = Gain(pos, px) - FeeOn(m, pos.size)
    BY <1>10
  <2>2. t.realized >= -pos.size
    <3>1. CASE m \in Binaries
      <4>1. Gain(pos, px) >= -pos.size /\ FeeOn(pos.m, pos.size) = 0
        BY <1>5, <1>8, <3>1, BinaryLoss
      <4>2. px \in Int
        <5>1. ExitAt[m] \subseteq 1..(Unit - 1) /\ Unit \in Int
          BY <3>1 DEF BasketAssumption
        <5> QED
          BY <5>1 DEF Quotes
      <4>3. Gain(pos, px) \in Int
        BY <4>2, AmountTypes
      <4> QED
        BY <1>5, <1>9, <2>1, <4>1, <4>3
    <3>2. CASE m \in Spots
      <4>1. px \in ExitAt[m]
        BY <3>2 DEF Quotes, BasketAssumption
      <4>2. Gain(pos, px) - FeeOn(pos.m, pos.size) >= -pos.size
        BY <1>5, <1>8, <3>2, <4>1, ProductLoss
      <4> QED
        BY <1>5, <2>1, <4>2
    <3> QED
      BY <1>5, <3>1, <3>2 DEF Markets
  <2>3. q.cash >= 0
    BY <1>7, <1>8, <1>9, <1>10, <2>2
  <2> QED
    BY <1>1, <1>6, <1>7, <2>2, <2>3 DEF SolventRow, Bounded
<1>11. CASE /\ m \in Binaries /\ pos.live
            /\ t.realized = Payout(pos) - pos.paid /\ t.gap = pos.size - pos.paid
  <2>1. Payout(pos) \in Int /\ Payout(pos) >= 0
    BY <1>8, AmountTypes, PayoutLoss
  <2>2. q.cash >= 0
    BY <1>7, <1>8, <1>9, <1>11, <2>1
  <2>3. SoundRow(r) => t.realized >= -pos.size
    <3>1. SoundRow(r) => pos.paid <= pos.size
      BY <1>7, <1>11 DEF SoundRow, SoundPos
    <3> QED
      BY <1>9, <1>11, <2>1, <3>1
  <2> QED
    BY <1>1, <1>6, <1>7, <2>2, <2>3 DEF SolventRow, Bounded
<1> QED
  BY <1>6, <1>10, <1>11

(* A way in is paid for. *)
LEMMA JoinsSolvent ==
    ASSUME BasketAssumption, NEW r \in Row, SolventRow(r), NEW pos, NEW out, Joins(r, pos, out)
    PROVE  SolventRow(out.row) /\ Bounded(out.trade)
<1>1. PICK q : q = out.row
  OBVIOUS
<1>2. GrownBy(r, pos, FeeOn(pos.m, pos.size), q) /\ pos \in Position
  BY <1>1, JoinsRow
<1>3. /\ q.cash = r.cash - pos.size - FeeOn(pos.m, pos.size)
      /\ Positions(q) = Positions(r) \cup {pos}
  BY <1>2 DEF GrownBy
<1>4. /\ pos.side \in Sides[pos.m] /\ pos.size = Least(Stake, r.cash)
      /\ pos.size + FeeOn(pos.m, pos.size) <= r.cash
      /\ pos.paid = (IF pos.live THEN Least(pos.size, LiveCap) ELSE 0)
      /\ ~out.trade.exit
  BY DEF Joins
<1>5. r.cash \in Int /\ r.cash >= 0 /\ Stake \in Nat /\ LiveCap \in Nat
  BY DEF Row, SolventRow, BasketAssumption
<1>6. PICK s \in Int, fee \in Int : s = pos.size /\ fee = FeeOn(pos.m, pos.size)
  BY <1>2, AmountTypes DEF Position
<1>7. q.cash >= 0
  BY <1>3, <1>4, <1>5, <1>6
<1>8. s >= 0
  BY <1>4, <1>5, <1>6 DEF Least
<1>9. pos.paid >= 0
  BY <1>4, <1>5, <1>6, <1>8 DEF Least
<1> QED
  BY <1>1, <1>3, <1>4, <1>6, <1>7, <1>8, <1>9 DEF SolventRow, SolventPos, Bounded

(* What moves a solvent row keeps it solvent. *)
LEMMA MovesSolvent ==
    ASSUME BasketAssumption, Covered, NEW r \in Row, SolventRow(r), NEW out, Moves(r, out)
    PROVE  SolventRow(out.row) /\ (SoundRow(r) => Bounded(out.trade))
BY LeavesSolvent, JoinsSolvent DEF Moves

\* What the reconciler carries around was paid for too.
SolventBasket(s) == \A i \in DOMAIN s : SolventPos(s[i])

RecPays(s) ==
    /\ \A u \in RecTodo(s) : u.paid >= 0
    /\ s.pc = "fill" => SolventBasket(s.pos)

Solvent ==
    /\ \A a \in Agents :
          /\ SolventRow(row[a])
          /\ \A p \in Procs : Has(proc[p], a) => SolventRow(Copy(proc[p], a))
    /\ RecPays(proc[Rec])

(* A fill writes what was paid for the order. *)
LEMMA FillSolvent ==
    ASSUME BasketAssumption, NEW s \in Basket, SolventBasket(s), NEW u \in Unrec,
           u.at <= Len(s), u.paid >= 0
    PROVE  SolventBasket(FillAt(s, u))
<1>1. PICK f \in Basket : f = FillAt(s, u) /\ Refilled(s, u, f)
  BY FillTypes
<1>2. /\ u.at \in DOMAIN s /\ DOMAIN f = DOMAIN s
      /\ \A i \in DOMAIN s : i # u.at => f[i] = s[i]
      /\ f[u.at] = [s[u.at] EXCEPT !.shares = u.shares, !.paid = u.paid]
  BY <1>1 DEF Refilled
<1>3. PICK pos \in Position : pos = s[u.at] /\ SolventPos(pos)
  <2>1. s \in Seq(Position)
    BY DEF Basket
  <2> QED
    BY <1>2, <2>1 DEF SolventBasket
<1>4. PICK new : new = f[u.at]
  OBVIOUS
<1>5. new.size = pos.size /\ new.side = pos.side /\ new.m = pos.m /\ new.paid = u.paid
  BY <1>2, <1>3, <1>4 DEF Position
<1>6. SolventPos(new)
  BY <1>3, <1>5 DEF SolventPos
<1> QED
  BY <1>1, <1>2, <1>4, <1>6 DEF SolventBasket

(* The reconciler's own steps. *)
LEMMA RecPaysStep ==
    ASSUME BasketAssumption, Basic, Solvent, [Next]_vars
    PROVE  RecPays(proc'[Rec])
<1>0. PICK s : s = proc[Rec]
  OBVIOUS
<1>1. /\ RecState(s) /\ TypeOK /\ DOMAIN proc = Procs \cup {Rec} /\ RecPays(s)
      /\ \A p \in Procs : p # Rec
  BY <1>0 DEF Basic, TypeOK, RecState, Solvent, BasketAssumption, Rec
<1>2. \A a \in Agents : row[a] \in Row /\ row[a].pos \in Basket /\ SolventBasket(row[a].pos)
  BY <1>1 DEF TypeOK, Row, Solvent, SolventRow, Positions, SolventBasket
<1>3. ASSUME proc'[Rec] = s
      PROVE  RecPays(proc'[Rec])
  BY <1>1, <1>3
<1>4. ASSUME NEW p \in Procs, Tick(p) \/ Crash(p)
      PROVE  proc'[Rec] = s
  <2>1. PICK t : Progress(p, t)
    BY <1>4, TickSteps
  <2> QED
    BY <1>0, <1>1, <2>1 DEF Progress
<1>5. ASSUME Outside
      PROVE  proc'[Rec] = s
  BY <1>0, <1>5 DEF Outside, Expire, Candles, Switch, vars
<1>6. ASSUME RecList
      PROVE  RecPays(proc'[Rec])
  <2>1. PICK U \in SUBSET Unreconciled : Goto(Rec, [pc |-> "listed", todo |-> U])
    BY <1>6 DEF RecList
  <2>2. PICK w : w = proc'[Rec]
    OBVIOUS
  <2>3. w.pc = "listed" /\ w.todo = U
    BY <1>1, <2>1, <2>2 DEF Goto
  <2>4. ASSUME NEW u \in U
        PROVE  u.paid >= 0
    <3>1. PICK a \in Agents : a = u.a
      BY <1>1, UnreconciledTypes
    <3>2. u.at \in DOMAIN row[a].pos /\ u.paid = row[a].pos[u.at].paid
      BY <1>1, <3>1, UnreconciledTypes
    <3> QED
      BY <1>2, <3>1, <3>2 DEF SolventBasket, SolventPos
  <2> QED
    BY <2>2, <2>3, <2>4 DEF RecPays, RecTodo
<1>7. ASSUME RecRead
      PROVE  RecPays(proc'[Rec])
  <2>1. s.pc = "listed"
    BY <1>0, <1>7 DEF RecRead
  <2>2. PICK u \in s.todo :
           LET rest == [s EXCEPT !.todo = @ \ {u}]
           IN IF u.at > Len(row[u.a].pos) THEN Goto(Rec, rest)
              ELSE Goto(Rec, [pc |-> "fill", a |-> u.a, then |-> rest,
                              pos |-> FillAt(row[u.a].pos, u)])
    BY <1>0, <1>7 DEF RecRead
  <2>3. PICK rest : rest = [s EXCEPT !.todo = @ \ {u}]
    OBVIOUS
  <2>4. s = [pc |-> "listed", todo |-> s.todo] /\ s.todo \subseteq Unrec
    BY <1>1, <2>1, RecFields
  <2>5. rest.pc = "listed" /\ rest.todo = s.todo \ {u}
    BY <2>3, <2>4
  <2>6. \A v \in s.todo : v.paid >= 0
    BY <1>1, <2>1 DEF RecPays, RecTodo
  <2>7. CASE u.at > Len(row[u.a].pos)
    <3>1. proc'[Rec] = rest
      BY <1>1, <2>2, <2>3, <2>7 DEF Goto
    <3>2. RecPays(rest)
      BY <2>5, <2>6 DEF RecPays, RecTodo
    <3> QED
      BY <3>1, <3>2
  <2>8. CASE ~(u.at > Len(row[u.a].pos))
    <3>1. PICK w : w = [pc |-> "fill", a |-> u.a, then |-> rest, pos |-> FillAt(row[u.a].pos, u)]
      OBVIOUS
    <3>2. proc'[Rec] = w
      BY <1>1, <2>2, <2>3, <2>8, <3>1 DEF Goto
    <3>3. u \in Unrec /\ u.a \in Agents /\ u.at \in Nat
      BY <2>4 DEF Unrec
    <3>4. PICK b \in Basket : b = row[u.a].pos /\ SolventBasket(b)
      BY <1>2, <3>3
    <3>5. u.at <= Len(b) /\ u.paid >= 0
      <4>1. Len(b) \in Nat
        BY DEF Basket
      <4> QED
        BY <2>6, <2>8, <3>3, <3>4, <4>1
    <3>6. SolventBasket(FillAt(b, u))
      BY <3>3, <3>4, <3>5, FillSolvent
    <3>7. w.pc = "fill" /\ w.pos = FillAt(b, u) /\ w.then.todo = s.todo \ {u}
      BY <2>5, <3>1, <3>4
    <3>8. RecPays(w)
      BY <2>6, <3>6, <3>7 DEF RecPays, RecTodo
    <3> QED
      BY <3>2, <3>8
  <2> QED
    BY <2>7, <2>8
<1>8. ASSUME RecWrite
      PROVE  RecPays(proc'[Rec])
  <2>1. s.pc = "fill" /\ s.then.pc = "listed" /\ proc'[Rec] = s.then
    BY <1>0, <1>1, <1>8, RecWrites, RecFields
  <2> QED
    BY <1>1, <2>1 DEF RecPays, RecTodo
<1>9. ASSUME RecEnd \/ Crash(Rec)
      PROVE  RecPays(proc'[Rec])
  <2>1. proc'[Rec] = Idle
    BY <1>1, <1>9 DEF RecEnd, Crash, Done, Goto
  <2> QED
    BY <2>1 DEF RecPays, RecTodo, Idle
<1> QED
  BY <1>3, <1>4, <1>5, <1>6, <1>7, <1>8, <1>9 DEF Next, Reconcile, Outside

(* Rows and copies stay solvent, torn or not. *)
LEMMA SolventStep ==
    ASSUME BasketAssumption, Covered, Basic, Solvent, [Next]_vars
    PROVE  Solvent'
<1>1. ASSUME NEW a \in Agents
      PROVE  SolventRow(row'[a]) /\ \A p \in Procs : Has(proc'[p], a) => SolventRow(Copy(proc'[p], a))
  <2>1. RowComesFrom(a) /\ \A q \in Procs : Has(proc'[q], a) => CopyComesFrom(q, a)
    BY Origins
  <2>2. SolventRow(row[a]) /\ \A p \in Procs : Has(proc[p], a) => SolventRow(Copy(proc[p], a))
    BY DEF Solvent
  <2>3. SolventRow(row'[a])
    <3>1. ASSUME proc[Rec].pc = "fill", row'[a] = [row[a] EXCEPT !.pos = proc[Rec].pos]
          PROVE  SolventRow(row'[a])
      <4>1. PICK r \in Row : r = row[a]
        BY DEF Basic, TypeOK
      <4>2. PICK q : q = [r EXCEPT !.pos = proc[Rec].pos]
        OBVIOUS
      <4>3. q.cash = r.cash /\ q.pos = proc[Rec].pos
        BY <4>2 DEF Row
      <4>4. SolventBasket(q.pos)
        BY <3>1, <4>3 DEF Solvent, RecPays
      <4>5. SolventRow(q)
        BY <2>2, <4>1, <4>3, <4>4 DEF SolventRow, SolventBasket, Positions
      <4> QED
        BY <3>1, <4>1, <4>2, <4>5
    <3> QED
      BY <2>1, <2>2, <3>1 DEF RowComesFrom
  <2>4. ASSUME NEW p \in Procs, Has(proc'[p], a)
        PROVE  SolventRow(Copy(proc'[p], a))
    <3>1. CopyComesFrom(p, a)
      BY <2>1, <2>4
    <3>2. ASSUME NEW out, Has(proc[p], a), Moves(Copy(proc[p], a), out)
          PROVE  SolventRow(out.row)
      <4>1. TickState(proc[p])
        BY DEF Basic, Local
      <4>2. PICK r \in Row : r = Copy(proc[p], a)
        BY <3>2, <4>1, Held
      <4>3. SolventRow(r) /\ Moves(r, out)
        BY <2>2, <3>2, <4>2
      <4> QED
        BY <4>3, MovesSolvent
    <3> QED
      BY <2>2, <3>1, <3>2 DEF CopyComesFrom
  <2> QED
    BY <2>3, <2>4
<1>2. RecPays(proc'[Rec])
  BY RecPaysStep
<1> QED
  BY <1>1, <1>2 DEF Solvent

\* The log of a is what it was, is forgotten, or has the trade of a copy that moved.
LogComesFrom(a) ==
    \/ log'[a] = log[a] \/ log'[a] = <<>>
    \/ /\ a \notin torn
       /\ \E p \in Procs : \E out : /\ Has(proc[p], a) /\ Moves(Copy(proc[p], a), out)
                                    /\ log'[a] = Append(log[a], out.trade)

(* Logs grow by trades, and are forgotten by tears. *)
LEMMA LogOrigins ==
    ASSUME BasketAssumption, Basic, [Next]_vars, NEW a \in Agents
    PROVE  LogComesFrom(a)
<1>0. Stored
  BY DEF Basic, TypeOK, Stored
<1>1. ASSUME NEW S, Tear(S)
      PROVE  LogComesFrom(a)
  BY <1>1 DEF Tear, LogComesFrom
<1>2. ASSUME NEW p, NEW b, NEW new, Write(p, b, new)
      PROVE  LogComesFrom(a)
  BY <1>1, <1>2 DEF Write
<1>3. ASSUME UNCHANGED log
      PROVE  LogComesFrom(a)
  BY <1>3 DEF LogComesFrom
<1>4. ASSUME NEW p \in Procs, Tick(p) \/ Crash(p)
      PROVE  LogComesFrom(a)
  <2>1. PICK t : Progress(p, t)
    BY <1>4, TickSteps
  <2>2. ASSUME NEW b, NEW out, Recorded(p, t, b, out)
        PROVE  LogComesFrom(a)
    <3>1. b \in Agents /\ Has(proc[p], b) /\ Moves(Copy(proc[p], b), out) /\ Insert(b, out.trade)
      BY <2>2 DEF Recorded
    <3>2. CASE b \in torn
      BY <1>3, <3>1, <3>2 DEF Insert
    <3>3. CASE b \notin torn
      <4>1. log' = [log EXCEPT ![b] = Append(@, out.trade)]
        BY <3>1, <3>3 DEF Insert
      <4>2. a # b => log'[a] = log[a]
        BY <1>0, <4>1 DEF Stored
      <4>3. log'[b] = Append(log[b], out.trade)
        BY <1>0, <3>1, <4>1 DEF Stored
      <4> QED
        BY <3>1, <3>3, <4>2, <4>3 DEF LogComesFrom
    <3> QED
      BY <3>2, <3>3
  <2>3. ASSUME NEW R, Moved(p, t, R)
        PROVE  UNCHANGED log
    BY <2>3 DEF Moved
  <2>4. ASSUME NEW b, Wrote(p, t, b)
        PROVE  LogComesFrom(a)
    BY <1>2, <2>4 DEF Wrote
  <2>5. ASSUME Died(p, t)
        PROVE  LogComesFrom(a)
    BY <1>1, <2>5 DEF Died
  <2> QED
    BY <1>3, <2>1, <2>2, <2>3, <2>4, <2>5 DEF Progress
<1>5. ASSUME RecList \/ RecRead \/ RecEnd
      PROVE  UNCHANGED log
  BY <1>5 DEF RecList, RecRead, RecEnd
<1>6. ASSUME RecWrite
      PROVE  LogComesFrom(a)
  BY <1>2, <1>6 DEF RecWrite
<1>7. ASSUME Crash(Rec)
      PROVE  LogComesFrom(a)
  BY <1>1, <1>7 DEF Crash
<1>8. ASSUME Outside
      PROVE  UNCHANGED log
  BY <1>8 DEF Outside, Expire, Candles, Switch, vars
<1> QED
  BY <1>3, <1>4, <1>5, <1>6, <1>7, <1>8 DEF Next, Reconcile, Outside

LossesBounded == \A a \in Agents : \A i \in DOMAIN log[a] : Bounded(log[a][i])

(* Trades that are logged have lost no more than their stake. *)
LEMMA LossesStep ==
    ASSUME BasketAssumption, Covered, Basic, Sound, Solvent, LossesBounded, [Next]_vars
    PROVE  LossesBounded'
<1>1. ASSUME NEW a \in Agents, NEW i \in DOMAIN log'[a]
      PROVE  Bounded(log'[a][i])
  <2>1. LogComesFrom(a)
    BY LogOrigins
  <2>2. ASSUME a \notin torn, NEW p \in Procs, NEW out, Has(proc[p], a),
               Moves(Copy(proc[p], a), out), log'[a] = Append(log[a], out.trade)
        PROVE  Bounded(log'[a][i])
    <3>1. TickState(proc[p])
      BY DEF Basic, Local
    <3>2. PICK r \in Row : r = Copy(proc[p], a)
      BY <2>2, <3>1, Held
    <3>3. SolventRow(r) /\ SoundRow(r) /\ Moves(r, out)
      BY <2>2, <3>2 DEF Solvent, Sound
    <3>4. PICK t \in Trade : t = out.trade /\ Bounded(t)
      BY <3>3, MovesSolvent, MovesType
    <3>5. PICK l \in Seq(Trade) : l = log[a]
      BY DEF Basic, TypeOK
    <3>6. PICK k, n : k = Append(l, t) /\ Longer(l, t, k, n)
      BY Appended
    <3>7. DOMAIN k = DOMAIN l \cup {n} /\ k[n] = t /\ \A j \in DOMAIN l : k[j] = l[j]
      BY <3>6 DEF Longer
    <3>8. \A j \in DOMAIN l : Bounded(l[j])
      BY <3>5 DEF LossesBounded
    <3>9. \A j \in DOMAIN k : Bounded(k[j])
      BY <3>4, <3>7, <3>8
    <3> QED
      BY <1>1, <2>2, <3>4, <3>5, <3>6, <3>9
  <2> QED
    BY <1>1, <2>1, <2>2 DEF LogComesFrom, LossesBounded
<1> QED
  BY <1>1 DEF LossesBounded

\* The inductive invariant of losses.
LossInv == FillInv /\ Solvent /\ LossesBounded

(* A position on a binary never loses more than its stake, whichever way it is
   closed, and no agent ever has less than nothing, lost updates and deaths
   included: if the products that the genome trades never lose more than what
   covers the exit fee. *)
THEOREM MaxLoss == ASSUME Covered PROVE Spec => []MaxLossIsStake
<1>1. LossInv => MaxLossIsStake
  BY DEF LossInv, Solvent, SolventRow, LossesBounded, Bounded, MaxLossIsStake
<1>2. Init => LossInv
  <2> SUFFICES ASSUME Init
               PROVE  LossInv
    OBVIOUS
  <2>1. FillInv
    BY FillInit, BasketAssumption
  <2>2. ASSUME NEW a \in Agents
        PROVE  SolventRow(row[a]) /\ log[a] = <<>>
    <3>1. row[a].cash = Start /\ row[a].pos = <<>> /\ log[a] = <<>>
      BY DEF Init
    <3> QED
      BY <3>1, BasketAssumption DEF BasketAssumption, SolventRow, Positions
  <2>3. \A p \in Procs : \A a : ~Has(proc[p], a)
    BY DEF Init, Has, TodoOf, NoCopies, Idle
  <2>4. RecPays(proc[Rec])
    BY DEF Init, RecPays, RecTodo, Idle
  <2> QED
    BY <2>1, <2>2, <2>3, <2>4 DEF LossInv, Solvent, LossesBounded
<1>3. LossInv /\ [Next]_vars => LossInv'
  BY BasicStep, SoundStep, RecKeptStep, SolventStep, LossesStep, BasketAssumption DEF LossInv, FillInv
<1> QED
  BY <1>1, <1>2, <1>3, PTL DEF Spec
=============================================================================
