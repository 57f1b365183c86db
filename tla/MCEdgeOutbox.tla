---------------------------- MODULE MCEdgeOutbox ----------------------------
(* Small instances of EdgeOutbox for TLC.                                   *)
EXTENDS EdgeOutbox, TLC

CONSTANTS s1, s2, d1, e1, m1, m2, c1, none

\* m1 is a picture of the sighting e1; m2 belongs to no sighting.
MCEventOf == [m \in Media |-> IF m = m1 /\ e1 \in Events THEN e1 ELSE NoEvent]
=============================================================================
