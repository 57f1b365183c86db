---------------------------- MODULE MCDroneFlight ----------------------------
(* Small instances of DroneFlight for TLC.                                  *)
EXTENDS DroneFlight, TLC

CONSTANTS s1, s2, d1, c1, c2

\* Both sessions fly the same drone.
MCDroneOf == [s \in Sessions |-> d1]

\* Two gateway sessions of one drone can change places; nothing is asked of them
\* that tells them apart, and nothing but safety.
MCSymmetry == Permutations(Edge)
=============================================================================
