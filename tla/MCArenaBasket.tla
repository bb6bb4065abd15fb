---------------------------- MODULE MCArenaBasket ----------------------------
(* Instances of ArenaBasket for TLC. *)
EXTENDS ArenaBasket

\* Four points to the dollar.  YES is sold at 25 cents, to be bought back at 75:
\* a loss of two thirds of the stake, where the settlement takes it all or adds a
\* third.  The product is bought at two dollars and sold at three.
CONSTANTS updown, product, tick1
TheBinary == {updown}
TheSpot == {product}
OneTick == {tick1}
SellsYes == [m \in {updown, product} |-> IF m = updown THEN {"SELL"} ELSE {"BUY"}]
EitherSide == [m \in {updown, product} |-> IF m = updown THEN {"BUY", "SELL"} ELSE {"BUY"}]
EnterAt == [m \in {updown, product} |-> IF m = updown THEN {1} ELSE {8}]
LeaveAt == [m \in {updown, product} |-> IF m = updown THEN {3} ELSE {12}]
=============================================================================
