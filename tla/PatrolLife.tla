----------------------------- MODULE PatrolLife -----------------------------
(***************************************************************************)
(* What the record of a patrol may say, and what may be true meanwhile,    *)
(* with nothing of how: no requests, claims, updates, restarts or clocks.  *)
(*                                                                         *)
(* The centre creates a patrol, and closes it before launch or accepts     *)
(* that it is flown.  The drone takes off after that, lands with a result, *)
(* and the result is reported some time later.  The centre may give a      *)
(* patrol up in the meantime and let another have its drone; the one given *)
(* up may still fly, or take off, and report.                              *)
(*                                                                         *)
(* DroneFlight implements this for the sessions of a site edge gateway.    *)
(***************************************************************************)
CONSTANTS
    Patrols,
    DroneOf     \* the drone each patrol flies

VARIABLES
    record,     \* what the centre says of each patrol
    truth       \* what its drone does

Results == {"COMPLETED", "FAILED", "ABORTED"}

Others(p) == {o \in Patrols : o # p /\ DroneOf[o] = DroneOf[p]}

\* Launch accepted, and no result of it known.
Accepted(p) == record[p] \in {"flying", "given up"}

Init ==
    /\ record = [p \in Patrols |-> "none"]
    /\ truth = [p \in Patrols |-> "ground"]

\* A drone has one patrol at a time, as far as the centre knows.
Create(p) ==
    /\ record[p] = "none" /\ \A o \in Others(p) : record[o] \notin {"ready", "flying"}
    /\ record' = [record EXCEPT ![p] = "ready"]
    /\ UNCHANGED truth

\* Cancelled, blocked by a pre-flight check, missed.
Close(p) ==
    /\ record[p] = "ready"
    /\ record' = [record EXCEPT ![p] = "closed"]
    /\ UNCHANGED truth

\* No drone is promised that is still up for a patrol given up.
Accept(p) ==
    /\ record[p] = "ready" /\ \A o \in Others(p) : truth[o] # "air"
    /\ record' = [record EXCEPT ![p] = "flying"]
    /\ UNCHANGED truth

\* The one accepted, or one given up - and then no other is accepted.
TakeOff(p) ==
    /\ truth[p] = "ground" /\ Accepted(p)
    /\ \A o \in Others(p) : truth[o] # "air" /\ record[o] # "flying"
    /\ truth' = [truth EXCEPT ![p] = "air"]
    /\ UNCHANGED record

Land(p) ==
    /\ truth[p] = "air"
    /\ \E result \in Results : truth' = [truth EXCEPT ![p] = result]
    /\ UNCHANGED record

GiveUp(p) ==
    /\ record[p] = "flying"
    /\ record' = [record EXCEPT ![p] = "given up"]
    /\ UNCHANGED truth

\* The result that was, and no other.
Tell(p) ==
    /\ Accepted(p) /\ truth[p] \in Results
    /\ record' = [record EXCEPT ![p] = truth[p]]
    /\ UNCHANGED truth

Next == \E p \in Patrols :
    Create(p) \/ Close(p) \/ Accept(p) \/ TakeOff(p) \/ Land(p) \/ GiveUp(p) \/ Tell(p)

Spec == Init /\ [][Next]_<<record, truth>>

-----------------------------------------------------------------------------
(* What follows (PatrolLifeProofs).                                         *)

\* A result on record is the result there was.
RecordIsTrue == \A p \in Patrols : record[p] \in Results => truth[p] = record[p]

\* Who was not accepted is on the ground.
GroundedUnlessAccepted == \A p \in Patrols : record[p] \in {"none", "ready", "closed"} => truth[p] = "ground"

\* A drone is up for one patrol at most.
OneUp == \A p \in Patrols : \A o \in Others(p) : ~(truth[p] = "air" /\ truth[o] = "air")

=============================================================================
