-------------------------- MODULE DroneLifeProofs --------------------------
(* DroneFlight implements PatrolLife for the sessions of a site edge        *)
(* gateway, for every value of the constants.                               *)
EXTENDS DroneFlightProofs

\* Nothing but the aircraft's own result is passed on; and the record has a result
\* from the gateway's last report, or is a failure that the centre itself assumed.
TrueInv(s) ==
    /\ local[s].outcome \in {"none", air[s].result}
    /\ pc.at = "called" /\ pc.s = s => pc.up.outcome \in {"none", air[s].result}
    /\ flight[s].status \in Outcomes =>
         flight[s].status = "FAILED" \/ (ToldAll(s) /\ flight[s].status = local[s].outcome)

LifeInv == DronesInv /\ \A s \in Edge : TrueInv(s)

LEMMA Parts ==
    ASSUME LifeInv, NEW s \in Edge
    PROVE  /\ DronesInv /\ DiskInv /\ ClaimsInv /\ TypeInv /\ ClaimedInv(s) /\ FlownInv(s) /\ TrueInv(s)
           /\ s \in Sessions /\ flight[s].status \in Statuses /\ air[s] \in AirRec /\ local[s] \in LocalRec
           /\ local[s].sent \in Nat /\ Len(local[s].log) \in Nat /\ local[s].sent <= Len(local[s].log)
BY ConstantTypes, FlightFacts, LocalFields DEF LifeInv, DronesInv, DiskInv, ClaimsInv, TypeInv, Typed, Logged

\* A flight that has landed has its result for good.
LEMMA ResultStays ==
    ASSUME TypeInv, Next, NEW s \in Sessions, air[s].at = "LANDED"
    PROVE  air'[s].result = air[s].result
<1>1. air[s] \in AirRec
  BY DEF TypeInv, Typed
<1>2. \A what : \A t \in Sessions : Told(t, what) => air'[s].result = air[s].result
  BY <1>1, ObeyedTypes DEF Told
<1>3. ASSUME NEW t \in Sessions, Progress(t) PROVE air'[s].result = air[s].result
  BY <1>3, ProgressEffect DEF Airborne
<1>4. ASSUME NEW t \in Sessions, Launch(t) PROVE air'[s].result = air[s].result
  BY <1>2, <1>4, LaunchEffect
<1>5. ASSUME NEW t \in Edge, StepFlight(t) PROVE air'[s].result = air[s].result
  BY <1>2, <1>5, StepFlightEffect, ConstantTypes
<1>6. ASSUME NEW t \in Edge, NEW c \in Commands, StepCommand(t, c) PROVE air'[s].result = air[s].result
  BY <1>2, <1>6, StepCommandEffect, ConstantTypes
<1>7. ASSUME NEW c \in Commands, RunCommand(c) PROVE air'[s].result = air[s].result
  BY <1>2, <1>7, RunCommandEffect DEF Dealt
<1> QED  BY <1>3, <1>4, <1>5, <1>6, <1>7, Writers

\* Only a delivery brings the centre up to date.
LEMMA ToldStep ==
    ASSUME LifeInv, Next, NEW s \in Edge, ~Deliver(s)
    PROVE  /\ ToldAll(s)' <=> ToldAll(s)
           /\ ToldAll(s) => local'[s].outcome = local[s].outcome
<1>1. DiskInv /\ TypeInv /\ local[s].sent <= Len(local[s].log) /\ local[s].sent \in Nat /\ Len(local[s].log) \in Nat
  BY Parts
<1>2. CASE local'[s] = local[s]
  BY <1>2 DEF ToldAll
<1>3. CASE Prune(s)
  BY <1>1, <1>3, PruneEffect DEF ToldAll
<1>4. CASE local[s].outcome = "none" /\ local'[s].outcome = "none"
  BY <1>4 DEF ToldAll
<1>5. CASE Record /\ pc.s = s /\ Live(s)
  <2>1. local[s].outcome = "none" /\ local'[s].sent = local[s].sent /\ Len(local'[s].log) = Len(local[s].log) + 1
    BY <1>1, <1>5, RecordEffect DEF Live
  <2> QED  BY <1>1, <2>1 DEF ToldAll
<1> QED  BY <1>1, <1>2, <1>3, <1>4, <1>5, TableStep

\* What an update delivered does to the record.
LEMMA DeliverTells ==
    ASSUME LifeInv, NEW s \in Edge, Deliver(s)
    PROVE  /\ ~ToldAll(s) /\ local'[s].outcome = local[s].outcome /\ air' = air
           /\ ToldAll(s)' => local[s].outcome = air[s].result
           /\ \/ flight'[s].status = flight[s].status
              \/ /\ flight[s].claimed /\ ToldAll(s)' /\ local[s].outcome # "none"
                 /\ flight'[s].status = local[s].outcome
              \/ flight[s].status \in Airborne /\ flight'[s].status \in Airborne
<1> DEFINE n  == local[s].sent + 1
           up == local[s].log[n]
<1>1. /\ TypeInv /\ FlownInv(s) /\ ClaimedInv(s) /\ TrueInv(s)
      /\ local[s].sent \in Nat /\ Len(local[s].log) \in Nat
  BY Parts
<1>2. /\ n \in 1..Len(local[s].log) /\ local'[s].sent = n
      /\ local'[s].outcome = local[s].outcome /\ local'[s].log = local[s].log
      /\ \/ flight'[s].status = flight[s].status
         \/ /\ flight[s].claimed
            /\ flight[s].status \notin Terminal \/ up.outcome # "none" =>
                 flight'[s].status = IF up.outcome # "none" THEN up.outcome
                                     ELSE IF up.phase \in Airborne THEN up.phase ELSE flight[s].status
            /\ flight[s].status \in Terminal /\ up.outcome = "none" => flight'[s].status = flight[s].status
  BY <1>1, DeliverEffect DEF SameRecord
<1>3. up.outcome = IF n = Len(local[s].log) THEN local[s].outcome ELSE "none"
  BY <1>1, <1>2 DEF FlownInv
<1> HIDE DEF n, up
<1>4. ~ToldAll(s) /\ air' = air
  BY <1>1, <1>2 DEF ToldAll, n, Deliver
<1>5. ToldAll(s)' => local[s].outcome = air[s].result
  BY <1>1, <1>2 DEF ToldAll, TrueInv
<1>6. CASE up.outcome # "none"
  <2>1. ToldAll(s)' /\ up.outcome = local[s].outcome
    BY <1>2, <1>3, <1>6 DEF ToldAll
  <2> QED  BY <1>2, <1>4, <1>5, <1>6, <2>1
<1>7. CASE up.outcome = "none"
  <2>1. flight[s].claimed /\ flight[s].status \notin Terminal => flight[s].status \in Airborne
    BY <1>1, StatusKinds DEF ClaimedInv
  <2> QED  BY <1>2, <1>4, <1>5, <1>7, <2>1
<1> QED  BY <1>6, <1>7

LEMMA TrueStep ==
    ASSUME LifeInv, Next, NEW s \in Edge
    PROVE  TrueInv(s)'
<1>1. /\ DiskInv /\ ClaimsInv /\ TypeInv /\ FlownInv(s) /\ ClaimedInv(s) /\ TrueInv(s) /\ s \in Sessions
  BY Parts
<1>2. air[s].result # "none" => air'[s].result = air[s].result
  BY <1>1, ResultStays DEF FlownInv
<1>3. local'[s].outcome \in {"none", air'[s].result}
  <2>1. local[s].outcome \in {"none", air'[s].result}
    BY <1>1, <1>2 DEF TrueInv
  <2>2. local'[s] = local[s] \/ Deliver(s) \/ Prune(s) => local'[s].outcome = local[s].outcome
    BY <1>1, DeliverEffect, PruneEffect
  <2>3. Record /\ pc.s = s => local'[s].outcome \in {"none", air'[s].result}
    <3> SUFFICES ASSUME Record, pc.s = s PROVE local'[s].outcome \in {"none", air'[s].result}
      OBVIOUS
    <3>1. /\ pc.at = "called"
          /\ local'[s].outcome = (IF pc.up.outcome # "none" THEN pc.up.outcome ELSE local[s].outcome)
      BY <1>1, RecordEffect
    <3>2. pc.up.outcome \in {"none", air'[s].result}
      BY <1>1, <1>2, <3>1 DEF TrueInv
    <3> QED  BY <2>1, <3>1, <3>2
  <2> QED  BY <1>1, <2>1, <2>2, <2>3, TableStep
<1>4. pc'.at = "called" /\ pc'.s = s => pc'.up.outcome \in {"none", air'[s].result}
  <2>1. pc' = pc => (pc'.at = "called" /\ pc'.s = s => pc'.up.outcome \in {"none", air'[s].result})
    BY <1>1, <1>2 DEF TrueInv
  <2>2. pc' = Idle => pc'.at # "called"
    BY DEF Idle
  <2>3. pc' = [pc EXCEPT !.at = "granted"] \/ pc' = [pc EXCEPT !.at = "recorded"] => pc'.at # "called"
    BY <1>1 DEF TypeInv, Typed, PcRec
  <2>4. \A t \in Edge : pc' = [Idle EXCEPT !.at = "claim", !.s = t] => pc'.at # "called"
    BY DEF Idle
  <2>5. \A t \in Edge : \A c : Calling(t, c) /\ pc'.s = s => pc'.up.outcome = air'[s].result
    BY DEF Calling
  <2> QED  BY <1>1, <2>1, <2>2, <2>3, <2>4, <2>5, PcStep
<1>5. flight'[s].status \in Outcomes =>
        flight'[s].status = "FAILED" \/ (ToldAll(s)' /\ flight'[s].status = local'[s].outcome)
  <2> DEFINE Goal == flight'[s].status \in Outcomes =>
                       flight'[s].status = "FAILED" \/ (ToldAll(s)' /\ flight'[s].status = local'[s].outcome)
  <2>1. CASE Deliver(s)
    BY <1>1, <2>1, DeliverTells, StatusKinds DEF TrueInv, Terminal, Outcomes, Airborne
  <2>2. CASE ~Deliver(s) /\ SameRecord(s)
    BY <1>1, <2>2, ToldStep DEF TrueInv, SameRecord
  <2>3. CASE ~Deliver(s) /\ ~SameRecord(s)
    <3>1. flight'[s].status \in {"READY", "CANCELLED", "BLOCKED", "MISSED", "FAILED", "LAUNCHING"}
      BY <1>1, <2>3, RecordStep DEF Turned
    <3> QED  BY <3>1 DEF Outcomes
  <2> QED  BY <2>1, <2>2, <2>3
<1> QED  BY <1>3, <1>4, <1>5 DEF TrueInv

LEMMA LifeHolds == Spec => []LifeInv
<1>1. Init => LifeInv
  <2>1. ASSUME Init, NEW s \in Edge PROVE TrueInv(s)
    BY <2>1, ConstantTypes DEF Init, TrueInv, Idle, Outcomes
  <2> QED  BY <2>1, DronesInit DEF LifeInv
<1>2. LifeInv /\ [Next]_vars => LifeInv'
  <2>1. CASE LifeInv /\ Next
    BY <2>1, DronesStep, TrueStep DEF LifeInv
  <2>2. CASE LifeInv /\ UNCHANGED vars
    BY <2>2, DronesStep DEF vars, LifeInv, TrueInv, ToldAll
  <2> QED  BY <2>1, <2>2
<1> QED  BY <1>1, <1>2, PTL DEF Spec

-----------------------------------------------------------------------------
(* What the record says and what is true of a session, step by step.        *)

\* Only the record of p changes, to v; only what is true of p changes, to v.
RecordOnly(p, v) ==
    /\ RecordOf(p)' = v /\ \A t \in Edge : t # p => RecordOf(t)' = RecordOf(t)
    /\ \A t \in Edge : TruthOf(t)' = TruthOf(t)
TruthOnly(p, v) ==
    /\ TruthOf(p)' = v /\ \A t \in Edge : t # p => TruthOf(t)' = TruthOf(t)
    /\ \A t \in Edge : RecordOf(t)' = RecordOf(t)
Nothing == \A t \in Edge : RecordOf(t)' = RecordOf(t) /\ TruthOf(t)' = TruthOf(t)

LifeVars == <<[s \in Edge |-> RecordOf(s)], [s \in Edge |-> TruthOf(s)]>>

\* Each of these is a step of PatrolLife, or none.
LEMMA Moves ==
    ASSUME NEW p \in Edge
    PROVE  /\ Nothing => UNCHANGED LifeVars
           /\ /\ RecordOnly(p, "ready") /\ RecordOf(p) = "none"
              /\ \A o \in Edge : o # p /\ DroneOf[o] = DroneOf[p] => RecordOf(o) \notin {"ready", "flying"}
              => Life!Create(p)
           /\ RecordOnly(p, "closed") /\ RecordOf(p) = "ready" => Life!Close(p)
           /\ /\ RecordOnly(p, "flying") /\ RecordOf(p) = "ready"
              /\ \A o \in Edge : o # p /\ DroneOf[o] = DroneOf[p] => TruthOf(o) # "air"
              => Life!Accept(p)
           /\ /\ TruthOnly(p, "air") /\ TruthOf(p) = "ground" /\ RecordOf(p) \in {"flying", "given up"}
              /\ \A o \in Edge : o # p /\ DroneOf[o] = DroneOf[p] => TruthOf(o) # "air" /\ RecordOf(o) # "flying"
              => Life!TakeOff(p)
           /\ \A result \in Outcomes : TruthOnly(p, result) /\ TruthOf(p) = "air" => Life!Land(p)
           /\ RecordOnly(p, "given up") /\ RecordOf(p) = "flying" => Life!GiveUp(p)
           /\ /\ RecordOnly(p, TruthOf(p)) /\ TruthOf(p) \in Outcomes /\ RecordOf(p) \in {"flying", "given up"}
              => Life!Tell(p)
<1> DEFINE rec == [s \in Edge |-> RecordOf(s)]
           tru == [s \in Edge |-> TruthOf(s)]
<1>1. \A v : RecordOnly(p, v) => rec' = [rec EXCEPT ![p] = v] /\ tru' = tru
  BY DEF RecordOnly
<1>2. \A v : TruthOnly(p, v) => tru' = [tru EXCEPT ![p] = v] /\ rec' = rec
  BY DEF TruthOnly
<1>3. Nothing => rec' = rec /\ tru' = tru
  BY DEF Nothing
<1>4. /\ rec[p] = RecordOf(p) /\ tru[p] = TruthOf(p)
      /\ \A o \in Life!Others(p) : o \in Edge /\ o # p /\ DroneOf[o] = DroneOf[p]
                                  /\ rec[o] = RecordOf(o) /\ tru[o] = TruthOf(o)
      /\ Life!Results = Outcomes
  BY DEF Life!Others, Life!Results, Outcomes
<1>5. Nothing => UNCHANGED LifeVars
  BY <1>3 DEF LifeVars
<1>6. ASSUME RecordOnly(p, "ready"), RecordOf(p) = "none",
             \A o \in Edge : o # p /\ DroneOf[o] = DroneOf[p] => RecordOf(o) \notin {"ready", "flying"}
      PROVE  Life!Create(p)
  BY <1>1, <1>4, <1>6 DEF Life!Create
<1>7. ASSUME RecordOnly(p, "closed"), RecordOf(p) = "ready" PROVE Life!Close(p)
  BY <1>1, <1>4, <1>7 DEF Life!Close
<1>8. ASSUME RecordOnly(p, "flying"), RecordOf(p) = "ready",
             \A o \in Edge : o # p /\ DroneOf[o] = DroneOf[p] => TruthOf(o) # "air"
      PROVE  Life!Accept(p)
  BY <1>1, <1>4, <1>8 DEF Life!Accept
<1>9. ASSUME TruthOnly(p, "air"), TruthOf(p) = "ground", RecordOf(p) \in {"flying", "given up"},
             \A o \in Edge : o # p /\ DroneOf[o] = DroneOf[p] => TruthOf(o) # "air" /\ RecordOf(o) # "flying"
      PROVE  Life!TakeOff(p)
  BY <1>2, <1>4, <1>9 DEF Life!TakeOff, Life!Accepted
<1>10. ASSUME NEW result \in Outcomes, TruthOnly(p, result), TruthOf(p) = "air" PROVE Life!Land(p)
  BY <1>2, <1>4, <1>10 DEF Life!Land
<1>11. ASSUME RecordOnly(p, "given up"), RecordOf(p) = "flying" PROVE Life!GiveUp(p)
  BY <1>1, <1>4, <1>11 DEF Life!GiveUp
<1>12. ASSUME RecordOnly(p, TruthOf(p)), TruthOf(p) \in Outcomes, RecordOf(p) \in {"flying", "given up"}
       PROVE  Life!Tell(p)
  BY <1>1, <1>4, <1>12 DEF Life!Tell, Life!Accepted
<1> QED  BY <1>5, <1>6, <1>7, <1>8, <1>9, <1>10, <1>11, <1>12

\* The two, told apart by the status and the aircraft.
LEMMA Readings ==
    ASSUME LifeInv, NEW s \in Edge
    PROVE  /\ flight[s].status = "none" => RecordOf(s) = "none"
           /\ flight[s].status \in BeforeLaunch <=> RecordOf(s) = "ready"
           /\ flight[s].status \in Airborne <=> RecordOf(s) = "flying"
           /\ flight[s].status \in Outcomes /\ ~ToldAll(s) => RecordOf(s) = "given up"
           /\ air[s].at = "GROUND" => TruthOf(s) = "ground"
           /\ air[s].at \in Airborne <=> TruthOf(s) = "air"
           /\ air[s].at = "LANDED" => TruthOf(s) = air[s].result
<1>1. flight[s].status \in Statuses /\ air[s] \in AirRec /\ TrueInv(s)
  BY Parts
<1>2. air[s].at \in Airborne \cup {"GROUND", "LANDED"} /\ air[s].result \in Outcomes \cup {"none"}
  BY <1>1 DEF AirRec
<1>3. /\ air[s].at = "GROUND" => TruthOf(s) = "ground"
      /\ air[s].at \in Airborne <=> TruthOf(s) = "air"
      /\ air[s].at = "LANDED" => TruthOf(s) = air[s].result
  BY <1>2 DEF TruthOf, Airborne, Outcomes
<1>4. flight[s].status \in Outcomes /\ ~ToldAll(s) => RecordOf(s) = "given up"
  BY <1>1 DEF RecordOf, TrueInv, BeforeLaunch, Airborne, Outcomes
<1>5. /\ flight[s].status = "none" => RecordOf(s) = "none"
      /\ flight[s].status \in BeforeLaunch <=> RecordOf(s) = "ready"
      /\ flight[s].status \in Airborne <=> RecordOf(s) = "flying"
  BY <1>1 DEF RecordOf, BeforeLaunch, Airborne, Statuses, InFlight, Terminal, Outcomes
<1> QED  BY <1>3, <1>4, <1>5

\* Who is up is the gateway's to fly; and whom it flies was accepted, and not told
\* to be over.
LEMMA UpIsFlown ==
    ASSUME LifeInv, NEW s \in Edge
    PROVE  /\ TruthOf(s) = "air" => Potential(s)
           /\ RecordOf(s) = "flying" => Potential(s)
           /\ Live(s) => Potential(s) /\ RecordOf(s) \in {"flying", "given up"}
<1>1. ClaimedInv(s) /\ FlownInv(s)
  BY Parts
<1>2. TruthOf(s) = "air" => Live(s)
  <2>1. air[s].at \in Airborne => air[s].at # "GROUND" /\ air[s].at # "LANDED"
    BY DEF Airborne
  <2> QED  BY <1>1, <2>1, Readings DEF FlownInv, Live
<1>3. RecordOf(s) = "flying" => flight[s].claimed /\ flight[s].status \in InFlight
  BY <1>1, Readings, StatusKinds DEF ClaimedInv
<1>4. Live(s) => flight[s].status \in Airborne \cup Outcomes /\ ~ToldAll(s)
  BY <1>1 DEF ClaimedInv, Live, ToldAll
<1>5. Live(s) => RecordOf(s) \in {"flying", "given up"}
  BY <1>4, Readings
<1> QED  BY <1>2, <1>3, <1>5 DEF Potential

\* An update reaches the centre.
LEMMA DeliverMoves ==
    ASSUME LifeInv, NEW s \in Edge, Deliver(s)
    PROVE  Nothing \/ Life!Tell(s)
<1>1. TypeInv /\ ClaimedInv(s) /\ FlownInv(s) /\ TrueInv(s) /\ s \in Sessions /\ flight[s].status \in Statuses
  BY Parts
<1>2. /\ \A t \in Edge : t # s => RecordOf(t)' = RecordOf(t)
      /\ \A t \in Edge : TruthOf(t)' = TruthOf(t)
  <2>1. Kept(s) /\ LocalKept(s) /\ air' = air
    BY <1>1, DeliverEffect, DeliverTells
  <2>2. \A t \in Edge : t # s => flight'[t] = flight[t] /\ local'[t] = local[t]
    BY <2>1, ConstantTypes DEF Kept, LocalKept
  <2> QED  BY <2>1, <2>2 DEF RecordOf, TruthOf, ToldAll
<1>3. ~ToldAll(s) /\ local'[s].outcome = local[s].outcome /\ (ToldAll(s)' => local[s].outcome = air[s].result)
  BY DeliverTells
<1>4. ToldAll(s)' => local[s].outcome \in Outcomes /\ TruthOf(s) = local[s].outcome
  <2>1. ToldAll(s)' => local[s].outcome # "none" /\ air[s].at = "LANDED"
    BY <1>1, <1>3 DEF ToldAll, FlownInv
  <2>2. local[s].outcome \in Outcomes \cup {"none"}
    BY Parts, LocalFields
  <2> QED  BY <1>3, <2>1, <2>2, Readings
<1>5. RecordOf(s)' = RecordOf(s) => Nothing
  BY <1>2 DEF Nothing
<1>6. ASSUME RecordOf(s)' = local[s].outcome, ToldAll(s)', RecordOf(s) \in {"flying", "given up"} PROVE Life!Tell(s)
  BY <1>2, <1>4, <1>6, Moves DEF RecordOnly
<1>7. CASE flight'[s].status = flight[s].status
  <2>1. CASE flight[s].status = "FAILED" /\ ToldAll(s)' /\ local[s].outcome = "FAILED"
    <3>1. RecordOf(s) = "given up"
      BY <1>3, <2>1, Readings, StatusKinds
    <3>2. RecordOf(s)' = "FAILED"
      BY <1>3, <1>7, <2>1 DEF RecordOf, BeforeLaunch, Airborne
    <3> QED  BY <1>6, <2>1, <3>1, <3>2
  <2>2. CASE ~(flight[s].status = "FAILED" /\ ToldAll(s)' /\ local[s].outcome = "FAILED")
    <3>1. RecordOf(s)' = RecordOf(s)
      BY <1>3, <1>7, <2>2 DEF RecordOf
    <3> QED  BY <1>5, <3>1
  <2> QED  BY <2>1, <2>2
<1>8. CASE flight[s].claimed /\ ToldAll(s)' /\ flight'[s].status = local[s].outcome
  <2>1. RecordOf(s) \in {"flying", "given up"}
    BY <1>1, <1>3, <1>8, Readings DEF ClaimedInv
  <2>2. RecordOf(s)' = local[s].outcome
    BY <1>3, <1>4, <1>8 DEF RecordOf, BeforeLaunch, Airborne, Outcomes
  <2> QED  BY <1>6, <1>8, <2>1, <2>2
<1>9. CASE flight[s].status \in Airborne /\ flight'[s].status \in Airborne
  <2>1. RecordOf(s) = "flying" /\ RecordOf(s)' = "flying"
    BY <1>9 DEF RecordOf, BeforeLaunch, Airborne
  <2> QED  BY <1>5, <2>1
<1> QED  BY <1>7, <1>8, <1>9, DeliverTells

\* The record is written without an update.
LEMMA RecordMoves ==
    ASSUME LifeInv, Next, NEW s \in Edge, Kept(s), ~SameRecord(s), \A t \in Edge : ~Deliver(t),
           \A t \in Edge : air'[t] = air[t]
    PROVE  Life!Create(s) \/ Life!Close(s) \/ Life!Accept(s) \/ Life!GiveUp(s)
<1>1. DronesInv /\ ClaimsInv /\ TypeInv /\ ClaimedInv(s) /\ FlownInv(s) /\ s \in Sessions /\ flight[s].status \in Statuses
  BY Parts
<1>2. /\ \A t \in Edge : t # s => RecordOf(t)' = RecordOf(t)
      /\ \A t \in Edge : TruthOf(t)' = TruthOf(t)
  <2>1. \A t \in Edge : (ToldAll(t)' <=> ToldAll(t)) /\ (ToldAll(t) => local'[t].outcome = local[t].outcome)
    BY ToldStep
  <2>2. \A t \in Edge : t # s => flight'[t] = flight[t]
    BY ConstantTypes DEF Kept
  <2>3. ASSUME NEW t \in Edge, t # s PROVE RecordOf(t)' = RecordOf(t)
    <3>1. flight'[t].status = flight[t].status
      BY <2>2, <2>3
    <3> QED  BY <2>1, <3>1 DEF RecordOf
  <2> QED  BY <2>3 DEF TruthOf
<1>3. ASSUME flight[s].status = "none", flight'[s].status = "READY", Create(s) PROVE Life!Create(s)
  <2>1. RecordOf(s) = "none" /\ RecordOf(s)' = "ready"
    BY <1>3 DEF RecordOf, BeforeLaunch, Airborne
  <2>2. \A o \in Edge : o # s /\ DroneOf[o] = DroneOf[s] => RecordOf(o) \notin {"ready", "flying"}
    <3>1. ASSUME NEW o \in Edge, DroneOf[o] = DroneOf[s] PROVE flight[o].status \notin BeforeLaunch \cup Airborne
      BY <1>1, <1>3, <3>1, CreateEffect, ConstantTypes, StatusKinds
    <3> QED  BY <3>1, Readings
  <2> QED  BY <1>2, <2>1, <2>2, Moves DEF RecordOnly
<1>4. ASSUME flight[s].status \in BeforeLaunch, flight'[s].status \in {"CANCELLED", "BLOCKED", "MISSED"}
      PROVE  Life!Close(s)
  <2>1. RecordOf(s) = "ready" /\ RecordOf(s)' = "closed"
    BY <1>4 DEF RecordOf, BeforeLaunch, Airborne
  <2> QED  BY <1>2, <2>1, Moves DEF RecordOnly
<1>5. ASSUME flight[s].status \in InFlight, ~flight[s].claimed, flight'[s].status = "MISSED" PROVE Life!Close(s)
  BY <1>1, <1>4, <1>5 DEF ClaimedInv, InFlight
<1>6. ASSUME flight[s].status \in InFlight, flight[s].claimed, flight'[s].status = "FAILED" PROVE Life!GiveUp(s)
  <2>1. flight[s].status \in Airborne /\ ~ToldAll(s)
    BY <1>1, <1>6, StatusKinds DEF ClaimedInv, FlownInv, ToldAll, Terminal
  <2>2. ~ToldAll(s)'
    BY <2>1, ToldStep
  <2>3. RecordOf(s) = "flying" /\ RecordOf(s)' = "given up"
    BY <1>6, <2>1, <2>2 DEF RecordOf, BeforeLaunch, Airborne
  <2> QED  BY <1>2, <2>3, Moves DEF RecordOnly
<1>7. ASSUME Claim(s), flight[s].status \in BeforeLaunch, flight'[s].status = "LAUNCHING" PROVE Life!Accept(s)
  <2>1. RecordOf(s) = "ready" /\ RecordOf(s)' = "flying"
    BY <1>7 DEF RecordOf, BeforeLaunch, Airborne
  <2>2. Potential(s)
    BY <1>7 DEF Claim, Potential
  <2>3. ASSUME NEW o \in Edge, o # s, DroneOf[o] = DroneOf[s] PROVE TruthOf(o) # "air"
    BY <1>1, <2>2, <2>3, UpIsFlown DEF DronesInv, Apart
  <2> QED  BY <1>2, <2>1, <2>3, Moves DEF RecordOnly
<1> QED  BY <1>1, <1>3, <1>4, <1>5, <1>6, <1>7, RecordStep DEF Turned

\* The aircraft moves.
LEMMA SkyMoves ==
    ASSUME LifeInv, Next, NEW s \in Edge, air'[s] # air[s]
    PROVE  Nothing \/ Life!TakeOff(s) \/ Life!Land(s)
<1>1. DronesInv /\ ClaimsInv /\ TypeInv /\ s \in Sessions /\ air[s] \in AirRec
  BY Parts
<1>2. \A t \in Edge : RecordOf(t)' = RecordOf(t)
  <2>1. flight' = flight /\ local' = local
    BY <1>1, EdgeAirStep DEF Progress, StepFlight, StepCommand, centre, gateway
  <2> QED  BY <2>1 DEF RecordOf, ToldAll
<1>3. /\ air' \in [Sessions -> AirRec]
      /\ \A t \in Edge : t # s => TruthOf(t)' = TruthOf(t)
  <2>1. air' \in [Sessions -> AirRec] /\ \A t \in Sessions : t # s => air'[t] = air[t]
    BY <1>1, EdgeAirStep, ProgressEffect DEF Told
  <2> QED  BY <2>1, ConstantTypes DEF TruthOf
<1>4. TruthOf(s)' = TruthOf(s) => Nothing
  BY <1>2, <1>3 DEF Nothing
<1>5. air'[s].at \in Airborne \cup {"GROUND", "LANDED"} /\ air'[s].result \in Outcomes \cup {"none"}
  BY <1>1, <1>3 DEF AirRec
<1>6. ASSUME Live(s), NEW what, Told(s, what) PROVE Nothing \/ Life!TakeOff(s)
  <2>1. /\ air'[s].result = air[s].result
        /\ air[s].at # "GROUND" => air'[s].at # "GROUND"
        /\ air[s].at = "LANDED" <=> air'[s].at = "LANDED"
    BY <1>1, <1>6, ObeyedTypes DEF Told
  <2>2. CASE air[s].at = "GROUND" /\ air'[s].at # "GROUND"
    <3>1. TruthOf(s) = "ground" /\ TruthOf(s)' = "air"
      BY <2>1, <2>2 DEF TruthOf
    <3>2. Potential(s) /\ RecordOf(s) \in {"flying", "given up"}
      BY <1>6, UpIsFlown
    <3>3. ASSUME NEW o \in Edge, o # s, DroneOf[o] = DroneOf[s] PROVE TruthOf(o) # "air" /\ RecordOf(o) # "flying"
      BY <1>1, <3>2, <3>3, UpIsFlown DEF DronesInv, Apart
    <3> QED  BY <1>2, <1>3, <3>1, <3>2, <3>3, Moves DEF TruthOnly
  <2>3. CASE air[s].at # "GROUND" \/ air'[s].at = "GROUND"
    <3>1. TruthOf(s)' = TruthOf(s)
      BY <2>1, <2>3 DEF TruthOf
    <3> QED  BY <1>4, <3>1
  <2> QED  BY <2>2, <2>3
<1>7. ASSUME Progress(s) PROVE Nothing \/ Life!Land(s)
  <2>1. /\ air[s].at \in Airborne
        /\ \/ air'[s].at \in Airborne
           \/ air'[s].at = "LANDED" /\ air'[s].result # "none"
    BY <1>1, <1>7, ProgressEffect DEF Airborne
  <2>2. TruthOf(s) = "air"
    BY <2>1, Readings
  <2>3. CASE air'[s].at \in Airborne
    <3>1. TruthOf(s)' = "air"
      BY <2>3 DEF TruthOf, Airborne
    <3> QED  BY <1>4, <2>2, <3>1
  <2>4. CASE air'[s].at = "LANDED" /\ air'[s].result # "none"
    <3>1. TruthOf(s)' = air'[s].result /\ air'[s].result \in Outcomes
      BY <1>5, <2>4 DEF TruthOf
    <3> QED  BY <1>2, <1>3, <2>2, <3>1, Moves DEF TruthOnly
  <2> QED  BY <2>1, <2>3, <2>4
<1> QED  BY <1>1, <1>6, <1>7, EdgeAirStep

LEMMA StepLives == ASSUME LifeInv, [Next]_vars PROVE Life!Next \/ UNCHANGED LifeVars
<1>1. Nothing => UNCHANGED LifeVars
  BY DEF Nothing, LifeVars
<1>2. CASE UNCHANGED vars
  <2>1. Nothing
    BY <1>2 DEF vars, Nothing, RecordOf, TruthOf, ToldAll
  <2> QED  BY <1>1, <2>1
<1>3. ASSUME Next, NEW s \in Edge, Deliver(s) PROVE Nothing \/ Life!Next
  BY <1>3, DeliverMoves DEF Life!Next
<1>4. ASSUME Next, NEW s \in Edge, air'[s] # air[s] PROVE Nothing \/ Life!Next
  BY <1>4, SkyMoves DEF Life!Next
<1>5. ASSUME Next, \A t \in Edge : ~Deliver(t), \A t \in Edge : air'[t] = air[t] PROVE Nothing \/ Life!Next
  <2>1. CASE \A t \in Edge : SameRecord(t)
    <3>1. \A t \in Edge : (ToldAll(t)' <=> ToldAll(t)) /\ (ToldAll(t) => local'[t].outcome = local[t].outcome)
      BY <1>5, ToldStep
    <3> QED  BY <1>5, <2>1, <3>1 DEF Nothing, SameRecord, RecordOf, TruthOf
  <2>2. ASSUME NEW s \in Edge, ~SameRecord(s) PROVE Life!Next
    <3>1. Kept(s)
      <4>1. TypeInv /\ s \in Sessions
        BY Parts
      <4>2. \A t \in Sessions : Kept(t) => t = s
        BY <2>2, <4>1 DEF Kept, SameRecord
      <4>3. flight' # flight
        BY <2>2 DEF SameRecord
      <4> QED  BY <1>5, <4>1, <4>2, <4>3, Writers, CreateEffect, LaunchEffect, FlyEffect, WaitEffect, WatchEffect,
                  ClaimEffect, RunCommandEffect, ConstantTypes DEF Dealt
    <3> QED  BY <1>5, <2>2, <3>1, RecordMoves DEF Life!Next
  <2> QED  BY <2>1, <2>2
<1> QED  BY <1>1, <1>2, <1>3, <1>4, <1>5

\* The gateways' sessions, for any number of them, of drones, restarts, lost and late
\* messages: what the record becomes was true, a launch was accepted, and a drone
\* that may still be up for a session given up is promised to no other.
THEOREM LivesArePatrolLives == Spec => ImplementsPatrolLife
<1>1. Init => Life!Init
  <2> SUFFICES ASSUME Init PROVE Life!Init
    OBVIOUS
  <2>1. \A s \in Edge : RecordOf(s) = "none" /\ TruthOf(s) = "ground"
    BY ConstantTypes DEF Init, RecordOf, TruthOf, BeforeLaunch, Airborne
  <2> QED  BY <2>1 DEF Life!Init
<1>2. LifeInv /\ [Next]_vars => [Life!Next]_LifeVars
  BY StepLives
<1> QED  BY <1>1, <1>2, LifeHolds, PTL DEF Spec, ImplementsPatrolLife, Life!Spec, LifeVars

-----------------------------------------------------------------------------
(* Two consequences for the code's own records.                             *)

\* "COMPLETED" and "ABORTED" are never guesses: whatever faults, silence and late
\* updates made of the record before, the flight has landed with that result.
ResultsAreTrue == \A s \in Edge :
    flight[s].status \in {"COMPLETED", "ABORTED"} => air[s].at = "LANDED" /\ air[s].result = flight[s].status

\* A session recorded COMPLETED or ABORTED has landed so, in every reachable state.
THEOREM OutcomesAreReported == Spec => []ResultsAreTrue
<1>1. LifeInv => ResultsAreTrue
  <2> SUFFICES ASSUME LifeInv, NEW s \in Edge, flight[s].status \in {"COMPLETED", "ABORTED"}
               PROVE  air[s].at = "LANDED" /\ air[s].result = flight[s].status
    BY DEF ResultsAreTrue
  <2>1. FlownInv(s) /\ TrueInv(s)
    BY Parts
  <2>2. local[s].outcome = flight[s].status /\ local[s].outcome # "none"
    BY <2>1 DEF TrueInv, ToldAll, Outcomes
  <2> QED  BY <2>1, <2>2 DEF FlownInv, TrueInv
<1> QED  BY <1>1, LifeHolds, PTL

\* A session that failed before it flew was given up for the gateway's silence.
UnheardInv(s) == flight[s].status = "FAILED" /\ air[s].at = "GROUND" => flight[s].code = "EDGE_UNREACHABLE"

LEMMA UnheardStep ==
    ASSUME LifeInv, Next, NEW s \in Edge, UnheardInv(s)
    PROVE  UnheardInv(s)'
<1>1. TypeInv /\ ClaimsInv /\ s \in Sessions /\ FlownInv(s) /\ local[s].sent \in Nat /\ Len(local[s].log) \in Nat
  BY Parts
<1>2. air'[s].at = "GROUND" => air[s].at = "GROUND"
  BY <1>1, AirStep
<1>3. Deliver(s) => air[s].at # "GROUND"
  <2>1. Deliver(s) => local[s].log # <<>>
    BY <1>1, DeliverEffect, EmptySeq
  <2> QED  BY <1>1, <2>1 DEF TypeInv, Logged
<1>4. SameRecord(s) => UnheardInv(s)'
  BY <1>2 DEF UnheardInv, SameRecord
<1> QED  BY <1>1, <1>2, <1>3, <1>4, RecordStep DEF UnheardInv, Turned

\* The link may come back to a session closed meanwhile, and it flies (what the run
\* FlightBlind shows): but only one that was claimed, and given up for silence alone.
LaunchesAreAccepted == [][\A s \in Edge :
    air[s].at = "GROUND" /\ air'[s].at # "GROUND" =>
        /\ flight[s].claimed
        /\ flight[s].status \in Airborne \/ (flight[s].status = "FAILED" /\ flight[s].code = "EDGE_UNREACHABLE")]_<<air, flight>>

\* No launch but of a session that was claimed and is flying, or was given up for silence.
THEOREM OnlyUnheardFly == Spec => LaunchesAreAccepted
<1> DEFINE Unheard == \A s \in Edge : UnheardInv(s)
<1>1. Init => Unheard
  BY ConstantTypes DEF Init, UnheardInv
<1>2. LifeInv /\ Unheard /\ [Next]_vars => Unheard'
  <2>1. CASE LifeInv /\ Unheard /\ Next
    BY <2>1, UnheardStep
  <2>2. CASE Unheard /\ UNCHANGED vars
    BY <2>2 DEF vars, UnheardInv
  <2> QED  BY <2>1, <2>2
<1>3. LifeInv /\ Unheard /\ [Next]_vars =>
        [\A s \in Edge :
           air[s].at = "GROUND" /\ air'[s].at # "GROUND" =>
             /\ flight[s].claimed
             /\ flight[s].status \in Airborne \/ (flight[s].status = "FAILED" /\ flight[s].code = "EDGE_UNREACHABLE")
        ]_<<air, flight>>
  <2>1. ASSUME LifeInv, Unheard, Next, NEW s \in Edge, air[s].at = "GROUND", air'[s].at # "GROUND"
        PROVE  /\ flight[s].claimed
               /\ flight[s].status \in Airborne \/ (flight[s].status = "FAILED" /\ flight[s].code = "EDGE_UNREACHABLE")
    <3>1. ClaimsInv /\ ClaimedInv(s) /\ FlownInv(s) /\ TrueInv(s)
      BY <2>1, Parts
    <3>2. Live(s)
      BY <2>1, <3>1, EdgeAirStep
    <3>3. flight[s].claimed /\ flight[s].status \in Airborne \cup Outcomes /\ ~ToldAll(s)
      BY <3>1, <3>2 DEF ClaimedInv, Live, ToldAll
    <3> QED  BY <2>1, <3>1, <3>3 DEF TrueInv, UnheardInv
  <2>2. UNCHANGED vars => UNCHANGED <<air, flight>>
    BY DEF vars
  <2> QED  BY <2>1, <2>2
<1> HIDE DEF Unheard
<1> QED  BY <1>1, <1>2, <1>3, LifeHolds, PTL DEF Spec, LaunchesAreAccepted

-----------------------------------------------------------------------------
(* And what PatrolLife promises by itself.                                  *)

Patrol == INSTANCE PatrolLifeProofs WITH
    Patrols <- Edge,
    record  <- [s \in Edge |-> RecordOf(s)],
    truth   <- [s \in Edge |-> TruthOf(s)]

\* The sessions of a gateway have what PatrolLife promises of its patrols: a result on
\* record is the result there was, who was not accepted is on the ground, and a drone
\* is up for one session at most.
THEOREM SessionsAreTrue == Spec => [](Life!RecordIsTrue /\ Life!GroundedUnlessAccepted /\ Life!OneUp)
<1>1. Life!Init => Patrol!Init
  BY DEF Life!Init, Patrol!Init
<1>2. Life!Next => Patrol!Next
  <2>1. \A p : Life!Others(p) = Patrol!Others(p) /\ (Life!Accepted(p) <=> Patrol!Accepted(p))
    BY DEF Life!Others, Patrol!Others, Life!Accepted, Patrol!Accepted
  <2>2. Life!Results = Patrol!Results
    BY DEF Life!Results, Patrol!Results
  <2> QED
    BY <2>1, <2>2 DEF Life!Next, Patrol!Next, Life!Create, Patrol!Create, Life!Close, Patrol!Close, Life!Accept, Patrol!Accept,
       Life!TakeOff, Patrol!TakeOff, Life!Land, Patrol!Land, Life!GiveUp, Patrol!GiveUp, Life!Tell, Patrol!Tell
<1>3. (Patrol!RecordIsTrue /\ Patrol!GroundedUnlessAccepted /\ Patrol!OneUp) =>
      (Life!RecordIsTrue /\ Life!GroundedUnlessAccepted /\ Life!OneUp)
  BY DEF Life!RecordIsTrue, Life!GroundedUnlessAccepted, Life!OneUp, Life!Others, Life!Results,
     Patrol!RecordIsTrue, Patrol!GroundedUnlessAccepted, Patrol!OneUp, Patrol!Others, Patrol!Results
<1>4. Patrol!Spec => [](Patrol!RecordIsTrue /\ Patrol!GroundedUnlessAccepted /\ Patrol!OneUp)
  BY Patrol!PatrolsAreTrue
<1> QED  BY <1>1, <1>2, <1>3, <1>4, LivesArePatrolLives, PTL DEF ImplementsPatrolLife, Life!Spec, Patrol!Spec
=============================================================================
