---------------------------- MODULE OrderLifecycle -----------------------------
(***************************************************************************)
(* What the router promises about every clientOrderId during the life of   *)
(* its process (docs/skills/SKILL.md, "The 5 router gates"): the order is  *)
(* refused for good, or it is sent to its venue once and gets one outcome; *)
(* nothing is sent while trading is halted.  A restart forgets everything. *)
(***************************************************************************)
EXTENDS Integers

CONSTANT OrderIds

VARIABLES
    status,  \* [id -> where the order is]
    halted   \* the kill switch

vars == <<status, halted>>

Statuses == {"new", "refused", "working", "settled"}

Init == status = [i \in OrderIds |-> "new"] /\ halted = FALSE

Move(i, from, to) ==
    /\ status[i] = from
    /\ status' = [status EXCEPT ![i] = to]
    /\ UNCHANGED halted

Refuse(i) == Move(i, "new", "refused")
Send(i)   == ~halted /\ Move(i, "new", "working")
Settle(i) == Move(i, "working", "settled")

SetHalted(b) == halted' = b /\ UNCHANGED status

Restart == status' = [i \in OrderIds |-> "new"] /\ halted' = FALSE

Next ==
    \/ \E i \in OrderIds : Refuse(i) \/ Send(i) \/ Settle(i)
    \/ \E b \in BOOLEAN : SetHalted(b)
    \/ Restart

Spec == Init /\ [][Next]_vars
=============================================================================
