-------------------------- MODULE PatrolLifeProofs --------------------------
(* What PatrolLife promises by itself, and with it whatever implements it.  *)
EXTENDS PatrolLife, TLAPS

Records == {"none", "ready", "closed", "flying", "given up"} \cup Results
Truths  == {"ground", "air"} \cup Results

\* A drone has one patrol ready or flying, and while it flies one, no other is up.
Alone(p, o) ==
    /\ ~(record[p] \in {"ready", "flying"} /\ record[o] \in {"ready", "flying"})
    /\ record[p] = "flying" => truth[o] # "air"
    /\ ~(truth[p] = "air" /\ truth[o] = "air")

LifeOK ==
    /\ record \in [Patrols -> Records] /\ truth \in [Patrols -> Truths]
    /\ GroundedUnlessAccepted /\ RecordIsTrue
    /\ \A p \in Patrols : \A o \in Others(p) : Alone(p, o)

LEMMA InitOK == Init => LifeOK
BY DEF Init, LifeOK, Records, Truths, Results, GroundedUnlessAccepted, RecordIsTrue, Others, Alone

\* What is written of one patrol.
LEMMA Written ==
    ASSUME LifeOK, NEW p \in Patrols
    PROVE  /\ \A v \in Records : record' = [record EXCEPT ![p] = v] =>
                /\ record' \in [Patrols -> Records] /\ record'[p] = v
                /\ \A q \in Patrols : q # p => record'[q] = record[q]
           /\ \A v \in Truths : truth' = [truth EXCEPT ![p] = v] =>
                /\ truth' \in [Patrols -> Truths] /\ truth'[p] = v
                /\ \A q \in Patrols : q # p => truth'[q] = truth[q]
           /\ record[p] \in Records /\ truth[p] \in Truths
           /\ \A o \in Others(p) : o \in Patrols /\ o # p /\ p \in Others(o)
BY DEF LifeOK, Others

Rewrites(p, v) == record' = [record EXCEPT ![p] = v] /\ truth' = truth
Changes(p, v)  == truth' = [truth EXCEPT ![p] = v] /\ record' = record

LEMMA RecordKeeps ==
    ASSUME LifeOK, NEW p \in Patrols, NEW v \in Records, Rewrites(p, v),
           v \in {"none", "ready", "closed"} => truth[p] = "ground",
           v \in Results => truth[p] = v,
           \A o \in Others(p) : /\ v \in {"ready", "flying"} => record[o] \notin {"ready", "flying"}
                                /\ v = "flying" => truth[o] # "air"
    PROVE  LifeOK'
<1> USE DEF Rewrites, Results, Records, Truths
<1>1. /\ record' \in [Patrols -> Records] /\ record'[p] = v /\ \A q \in Patrols : q # p => record'[q] = record[q]
      /\ \A o \in Others(p) : o \in Patrols /\ o # p /\ p \in Others(o)
  BY Written, Zenon
<1>2. GroundedUnlessAccepted' /\ RecordIsTrue'
  BY <1>1 DEF LifeOK, GroundedUnlessAccepted, RecordIsTrue
<1>3. ASSUME NEW q \in Patrols, NEW o \in Others(q) PROVE Alone(q, o)'
  <2>1. o \in Patrols /\ o # q /\ q \in Others(o) /\ Alone(q, o) /\ Alone(o, q)
    BY Written DEF LifeOK
  <2> QED  BY <1>1, <2>1 DEF Alone
<1> QED  BY <1>1, <1>2, <1>3 DEF LifeOK, Others

LEMMA TruthKeeps ==
    ASSUME LifeOK, NEW p \in Patrols, NEW v \in Truths, Changes(p, v), record[p] \in {"flying", "given up"},
           v = "air" => \A o \in Others(p) : truth[o] # "air" /\ record[o] # "flying"
    PROVE  LifeOK'
<1> USE DEF Changes, Results, Records, Truths
<1>1. /\ truth' \in [Patrols -> Truths] /\ truth'[p] = v /\ \A q \in Patrols : q # p => truth'[q] = truth[q]
      /\ \A o \in Others(p) : o \in Patrols /\ o # p /\ p \in Others(o)
  BY Written, Zenon
<1>2. GroundedUnlessAccepted' /\ RecordIsTrue'
  BY <1>1 DEF LifeOK, GroundedUnlessAccepted, RecordIsTrue
<1>3. ASSUME NEW q \in Patrols, NEW o \in Others(q) PROVE Alone(q, o)'
  <2>1. o \in Patrols /\ o # q /\ q \in Others(o) /\ Alone(q, o) /\ Alone(o, q)
    BY Written DEF LifeOK
  <2> QED  BY <1>1, <2>1 DEF Alone
<1> QED  BY <1>1, <1>2, <1>3 DEF LifeOK, Others

LEMMA StepOK == LifeOK /\ [Next]_<<record, truth>> => LifeOK'
<1> USE DEF Results, Records, Truths
<1>1. ASSUME LifeOK, NEW p \in Patrols, Create(p) PROVE LifeOK'
  <2>1. Rewrites(p, "ready") /\ record[p] = "none"
        /\ \A o \in Others(p) : record[o] \notin {"ready", "flying"}
    BY <1>1 DEF Create, Rewrites
  <2>2. truth[p] = "ground"
    BY <1>1, <2>1 DEF LifeOK, GroundedUnlessAccepted
  <2> QED  BY RecordKeeps, <1>1, <2>1, <2>2
<1>2. ASSUME LifeOK, NEW p \in Patrols, Close(p) PROVE LifeOK'
  <2>1. Rewrites(p, "closed") /\ record[p] = "ready"
    BY <1>2 DEF Close, Rewrites
  <2>2. truth[p] = "ground"
    BY <1>2, <2>1 DEF LifeOK, GroundedUnlessAccepted
  <2> QED  BY RecordKeeps, <1>2, <2>1, <2>2
<1>3. ASSUME LifeOK, NEW p \in Patrols, Accept(p) PROVE LifeOK'
  <2>1. Rewrites(p, "flying") /\ record[p] = "ready"
        /\ \A o \in Others(p) : truth[o] # "air"
    BY <1>3 DEF Accept, Rewrites
  <2>2. \A o \in Others(p) : record[o] \notin {"ready", "flying"}
    BY <1>3, <2>1 DEF LifeOK, Alone
  <2> QED  BY RecordKeeps, <1>3, <2>1, <2>2
<1>4. ASSUME LifeOK, NEW p \in Patrols, TakeOff(p) PROVE LifeOK'
  <2>1. Changes(p, "air") /\ record[p] \in {"flying", "given up"}
        /\ \A o \in Others(p) : truth[o] # "air" /\ record[o] # "flying"
    BY <1>4 DEF TakeOff, Accepted, Changes
  <2> QED  BY <1>4, <2>1, TruthKeeps
<1>5. ASSUME LifeOK, NEW p \in Patrols, Land(p) PROVE LifeOK'
  <2>1. PICK result \in Results : Changes(p, result) /\ truth[p] = "air"
    BY <1>5 DEF Land, Changes
  <2>2. record[p] \in {"flying", "given up"}
    BY <1>5, <2>1, Written DEF LifeOK, GroundedUnlessAccepted, RecordIsTrue
  <2> QED  BY TruthKeeps, <1>5, <2>1, <2>2
<1>6. ASSUME LifeOK, NEW p \in Patrols, GiveUp(p) PROVE LifeOK'
  <2>1. Rewrites(p, "given up")
    BY <1>6 DEF GiveUp, Rewrites
  <2> QED  BY RecordKeeps, <1>6, <2>1
<1>7. ASSUME LifeOK, NEW p \in Patrols, Tell(p) PROVE LifeOK'
  <2>1. Rewrites(p, truth[p]) /\ truth[p] \in Results
    BY <1>7 DEF Tell, Rewrites
  <2> QED  BY RecordKeeps, <1>7, <2>1
<1>8. LifeOK /\ UNCHANGED <<record, truth>> => LifeOK'
  BY DEF LifeOK, GroundedUnlessAccepted, RecordIsTrue, Others, Alone
<1> QED  BY <1>1, <1>2, <1>3, <1>4, <1>5, <1>6, <1>7, <1>8 DEF Next

\* A result on record is the result there was; a patrol that was not accepted never
\* left the ground; no drone is up for two patrols. DroneFlight's sessions have all
\* three, since they are PatrolLife's patrols.
THEOREM PatrolsAreTrue == Spec => [](RecordIsTrue /\ GroundedUnlessAccepted /\ OneUp)
<1>1. LifeOK => RecordIsTrue /\ GroundedUnlessAccepted /\ OneUp
  BY DEF LifeOK, OneUp, Alone
<1> QED  BY <1>1, InitOK, StepOK, PTL DEF Spec

=============================================================================
