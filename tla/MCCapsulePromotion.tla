-------------------------- MODULE MCCapsulePromotion --------------------------
(* Instances of CapsulePromotion for TLC. *)
EXTENDS CapsulePromotion

\* Agents 1 and 2 evolve one family, agent 3 and the manual capsules another;
\* manual1 alone is of another asset class, and bound to agent 3.
CONSTANTS manual1, manual2
TwoManual == {manual1, manual2}
Everybody == {1, 2, 3, manual1, manual2}
Families == [c \in Everybody |-> IF c \in {1, 2} THEN "directional" ELSE "momentum"]
Assets == [c \in Everybody |-> IF c = manual1 THEN "equity" ELSE "crypto"]
Bound == [m \in TwoManual |-> IF m = manual1 THEN 3 ELSE NoAgent]

\* Against 32 dollars at work, manual1's loss trips its family though manual2, paused
\* with it, may be in profit; and manual2's profit is what keeps crypto below
\* its cap when one agent has lost.
DayPnls == [c \in Everybody |-> IF c = manual1 THEN {-120}
                                ELSE IF c = manual2 THEN {0, 20} ELSE {-70, 0}]
NoPnls == [c \in Everybody |-> {0}]
=============================================================================
