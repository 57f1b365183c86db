--------------------------- MODULE MCBreachAlerts ---------------------------
(* Small instances of BreachAlerts for TLC.                                 *)
EXTENDS BreachAlerts, TLC

CONSTANTS i1, i2, b1

\* i1 and i2 look for intrusions, b1 for behaviour.
MCGroupOf == [w \in Workers |-> IF w = b1 THEN "behavior" ELSE "intrusion"]

\* 60 and 120 seconds by default.
MCCooldown == [g \in {"intrusion", "behavior"} |-> IF g = "intrusion" THEN 2 ELSE 3]

\* Two workers of one group do not differ but in name.
MCSymmetry == Permutations({i1, i2})

\* A bound: no more than two workers have a frame at a time.
MCTwoAtATime == Cardinality({w \in Workers : working[w] # None}) <= 2
=============================================================================
