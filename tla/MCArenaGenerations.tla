-------------------------- MODULE MCArenaGenerations --------------------------
(* Instances of ArenaGenerations for TLC. *)
EXTENDS ArenaGenerations, TLC

CONSTANTS p1, p2
Ticks == {p1, p2}
TickSymmetry == Permutations(Ticks)

\* ARENA_SURVIVAL_PCT = 0.5
HalfSurvive(n) == Min({n, Max({1, n \div 2})})

Fresh == [entered |-> FALSE, traded |-> FALSE, drawn |-> FALSE, fit |-> 0]
Winner == [entered |-> TRUE, traded |-> TRUE, drawn |-> FALSE, fit |-> 2]
DrawnDown == [entered |-> TRUE, traded |-> TRUE, drawn |-> TRUE, fit |-> 0]
Modest == [entered |-> TRUE, traded |-> TRUE, drawn |-> FALSE, fit |-> 1]
Records == {Fresh, Winner, Modest, DrawnDown}
=============================================================================
