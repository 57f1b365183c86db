-------------------------- MODULE BreachAlertsProofs --------------------------
(* Proofs about BreachAlerts, for every value of its constants.             *)
EXTENDS BreachAlerts, FunctionTheorems, FiniteSetTheorems, TLAPS

StepState == [at : {"idle", "set", "get", "expire", "refill", "decided", "ack"},
              new : BOOLEAN, of : Jobs \cup {None}, when : 0..MaxTime]

BreachState == [by : Jobs \cup {None}, until : Nat]

LEMMA ConstantTypes ==
    /\ None \notin Jobs
    /\ \A w \in Workers : GroupOf[w] \in Groups
    /\ \A g \in Groups : Cooldown[g] \in Nat \ {0}
    /\ MaxFrames \in Nat /\ LoiterDwell \in Nat /\ MaxTime \in Nat /\ MaxFaults \in Nat
    /\ "intrusion" \in Groups /\ "behavior" \in Groups /\ "intrusion" # "behavior"
    /\ \A j \in Jobs : j[1] \in Groups /\ j[2] \in Frames
BY GroupsAssumption, BoundsAssumption DEF Groups, Jobs

LEMMA UnaskedType == \A place \in {"idle", "set", "get", "expire", "refill", "decided", "ack"} :
    Unasked(place) \in StepState /\ Unasked(place).at = place /\ Unasked(place).new = FALSE /\ Unasked(place).of = None
BY ConstantTypes DEF Unasked, StepState

LEMMA TypeInit == Init => TypeOK
BY UnaskedType, ConstantTypes DEF Init, TypeOK, Queue!JobsInit, Queue!JobsTypeOK, Queue!Standings, NoBreach, Idle, StepState

\* Type correctness is kept by every step.
LEMMA TypeStep ==
    ASSUME TypeOK, [Next]_vars
    PROVE  TypeOK'
<1> USE ConstantTypes
<1>0. /\ step \in [Workers -> StepState] /\ breach \in BreachState /\ working \in [Workers -> Jobs \cup {None}]
      /\ job \in [Jobs -> Queue!Standings] /\ done \subseteq Jobs /\ partOf \in [Jobs -> Jobs \cup {None}]
      /\ now \in 0..MaxTime /\ \A w \in Workers : step[w].at = "idle" <=> working[w] = None
  BY DEF TypeOK, StepState, BreachState, Queue!JobsTypeOK
\* What the steps inside the tracker leave alone.
<1>1. ASSUME UNCHANGED <<now, captured, queue, alerts, broken, faults>>,
             breach' \in BreachState, partOf' \in [Jobs -> Jobs \cup {None}],
             NEW w \in Workers, working[w] # None, NEW s \in StepState, s.at # "idle", step' = [step EXCEPT ![w] = s]
      PROVE  TypeOK'
  BY <1>0, <1>1 DEF TypeOK, StepState, BreachState, queue, Queue!JobsTypeOK
<1>2. CASE Capture
  <2>1. PICK f \in Frames :
          captured' = [captured EXCEPT ![f] = now] /\ Queue!Publish({<<g, f>> : g \in Groups}, {})
    BY <1>2 DEF Capture
  <2>2. job' \in [Jobs -> Queue!Standings] /\ UNCHANGED <<working, done>>
    BY <1>0, <2>1 DEF Queue!Publish, Queue!Standings
  <2> QED  BY <1>0, <1>2, <2>1, <2>2 DEF Capture, TypeOK, Queue!JobsTypeOK
<1>3. ASSUME NEW w \in Workers, Take(w) PROVE TypeOK'
  <2>1. PICK j \in Jobs : working' = [working EXCEPT ![w] = j] /\ UNCHANGED <<job, done>>
    BY <1>3 DEF Take, Queue!Give
  <2>2. step' = [step EXCEPT ![w] = Unasked("set")] /\ Unasked("set") \in StepState /\ Unasked("set").at = "set"
    BY <1>3, UnaskedType DEF Take
  <2> QED  BY <1>0, <1>3, <2>1, <2>2 DEF Take, TypeOK, Queue!JobsTypeOK, StepState
\* The tracker's answer is one of the steps of <1>1.
<1>4. ASSUME UNCHANGED <<now, captured, queue, alerts, broken, faults>>, breach' \in BreachState,
             NEW w \in Workers, working[w] # None, NEW new \in BOOLEAN, NEW of \in Jobs, Told(w, new, of)
      PROVE  TypeOK'
  <2> DEFINE s == [at |-> "decided", new |-> new, of |-> of, when |-> now]
  <2>1. s \in StepState /\ s.at # "idle"
    BY <1>0 DEF StepState
  <2>2. step' = [step EXCEPT ![w] = s] /\ partOf' \in [Jobs -> Jobs \cup {None}]
    BY <1>0, <1>4 DEF Told
  <2> HIDE DEF s
  <2> QED  BY <1>1, <1>4, <2>1, <2>2
<1>5. ASSUME NEW w \in Workers, step[w].at # "idle"
      PROVE  /\ working[w] \in Jobs /\ step[w] \in StepState /\ Expiry(w) \in Nat
             /\ [by |-> working[w], until |-> Expiry(w)] \in BreachState
  <2>1. working[w] \in Jobs /\ step[w] \in StepState /\ now \in Nat
    BY <1>0, <1>5
  <2>2. Expiry(w) \in Nat
    BY <2>1 DEF Expiry
  <2> QED  BY <2>1, <2>2 DEF BreachState
<1>6. ASSUME NEW w \in Workers, Set(w) PROVE TypeOK'
  <2>1. CASE Alive
    <3>1. [step[w] EXCEPT !.at = "get"] \in StepState /\ [step[w] EXCEPT !.at = "get"].at # "idle"
      BY <1>0 DEF StepState
    <3>2. /\ step' = [step EXCEPT ![w] = [step[w] EXCEPT !.at = "get"]] /\ UNCHANGED <<breach, partOf>>
          /\ UNCHANGED <<now, captured, queue, alerts, broken, faults>> /\ working[w] # None
      BY <1>0, <1>6, <2>1 DEF Set
    <3> QED  BY <1>0, <1>1, <3>1, <3>2
  <2>2. CASE ~Alive
    BY <1>4, <1>5, <1>6, <2>2 DEF Set
  <2> QED  BY <2>1, <2>2
<1>7. ASSUME NEW w \in Workers, Get(w) PROVE TypeOK'
  <2>1. /\ [step[w] EXCEPT !.at = "expire", !.of = breach.by] \in StepState
        /\ [step[w] EXCEPT !.at = "expire", !.of = breach.by].at # "idle"
    BY <1>0 DEF StepState, BreachState
  <2>2. /\ step' = [step EXCEPT ![w] = [step[w] EXCEPT !.at = "expire", !.of = breach.by]]
        /\ UNCHANGED <<breach, partOf>> /\ UNCHANGED <<now, captured, queue, alerts, broken, faults>>
        /\ working[w] # None
    BY <1>0, <1>7 DEF Get
  <2> QED  BY <1>0, <1>1, <2>1, <2>2
<1>8. ASSUME NEW w \in Workers, Expire(w) PROVE TypeOK'
  <2>1. breach' \in BreachState /\ UNCHANGED <<now, captured, queue, alerts, broken, faults>>
    BY <1>0, <1>5, <1>8 DEF Expire, BreachState
  <2>2. CASE step[w].of = None
    <3>1. [step[w] EXCEPT !.at = "refill"] \in StepState /\ [step[w] EXCEPT !.at = "refill"].at # "idle"
      BY <1>0 DEF StepState
    <3>2. /\ step' = [step EXCEPT ![w] = [step[w] EXCEPT !.at = "refill"]] /\ UNCHANGED partOf
          /\ working[w] # None
      BY <1>0, <1>8, <2>2 DEF Expire
    <3> QED  BY <1>0, <1>1, <2>1, <3>1, <3>2
  <2>3. CASE step[w].of # None
    <3>1. step[w].of \in Jobs /\ working[w] # None /\ Told(w, FALSE, step[w].of)
      BY <1>0, <1>8, <2>3 DEF Expire, StepState
    <3> QED  BY <1>4, <2>1, <3>1
  <2> QED  BY <2>2, <2>3
<1>9. ASSUME NEW w \in Workers, Refill(w) PROVE TypeOK'
  BY <1>4, <1>5, <1>9 DEF Refill
<1>10. ASSUME NEW w \in Workers, Commit(w) PROVE TypeOK'
  <2>1. /\ working[w] \in Jobs /\ step' = [step EXCEPT ![w] = Unasked("ack")]
        /\ Unasked("ack") \in StepState /\ Unasked("ack").at = "ack"
    BY <1>5, <1>10, UnaskedType DEF Commit
  <2>2. alerts' \subseteq alerts \cup {[job |-> working[w], by |-> w, at |-> step[w].when]} /\ step[w].when \in 0..MaxTime
    BY <1>0, <1>10 DEF Commit, StepState
  <2>3. done' = done \cup {working[w]} /\ UNCHANGED <<job, working>>
    BY <1>10 DEF Commit, Queue!Process
  <2> QED  BY <1>0, <1>10, <2>1, <2>2, <2>3 DEF Commit, TypeOK, Queue!JobsTypeOK, StepState
<1>11. ASSUME NEW w \in Workers, Acknowledge(w) PROVE TypeOK'
  <2>1. /\ job' \in [Jobs -> Queue!Standings] /\ working' = [working EXCEPT ![w] = None] /\ done' = done
        /\ step' = [step EXCEPT ![w] = Idle] /\ Idle \in StepState /\ Idle.at = "idle"
    BY <1>0, <1>11, UnaskedType DEF Acknowledge, Queue!Settle, Queue!Standings, Idle
  <2> QED  BY <1>0, <1>11, <2>1 DEF Acknowledge, TypeOK, Queue!JobsTypeOK, StepState
<1>12. ASSUME NEW w \in Workers, Fail(w) PROVE TypeOK'
  <2>1. /\ working' = [v \in Workers |-> IF v = w THEN None ELSE working[v]] /\ UNCHANGED <<job, done>>
        /\ step' = [step EXCEPT ![w] = Idle] /\ Idle \in StepState /\ Idle.at = "idle"
        /\ working[w] \in Jobs
    BY <1>5, <1>12, UnaskedType DEF Fail, Queue!GiveBack, Idle
  <2> QED  BY <1>0, <1>12, <2>1 DEF Fail, TypeOK, Queue!JobsTypeOK, StepState
<1>13. CASE Discard
  <2>1. job' \in [Jobs -> Queue!Standings] /\ working' = working /\ done' = done
    BY <1>0, <1>13 DEF Discard, Queue!Discard, Queue!Standings
  <2> QED  BY <1>13, <2>1 DEF Discard, TypeOK, Queue!JobsTypeOK
<1>14. CASE Tick
  <2>1. breach' \in BreachState /\ now' \in 0..MaxTime
    BY <1>0, <1>14 DEF Tick, NoBreach, BreachState
  <2> QED  BY <1>14, <2>1 DEF Tick, TypeOK, queue, Queue!JobsTypeOK, BreachState
<1>15. CASE UNCHANGED vars
  BY <1>15 DEF TypeOK, vars, queue, Queue!JobsTypeOK
<1> QED  BY <1>2, <1>3, <1>6, <1>7, <1>8, <1>9, <1>10, <1>11, <1>12, <1>13, <1>14, <1>15 DEF Next, Worker

\* Every variable keeps its type.
THEOREM TypeCorrect == Spec => []TypeOK
<1>1. Init => TypeOK
  BY TypeInit
<1>2. TypeOK /\ [Next]_vars => TypeOK'
  BY TypeStep
<1> QED  BY <1>1, <1>2, PTL DEF Spec

-----------------------------------------------------------------------------
(* What a step does, as far as the tracker and the alerts are concerned.    *)

\* A step of one worker leaves the others as they are; the key of the zone changes
\* only so.
LEMMA StepOfOne ==
    ASSUME TypeOK, NEW w \in Workers, Worker(w)
    PROVE  /\ now' = now /\ \A v \in Workers \ {w} : step'[v] = step[v] /\ working'[v] = working[v]
           /\ \/ breach' = breach
              \/ \E j \in Jobs : breach' = [by |-> j, until |-> Expiry(w)]
              \/ Alive /\ breach' = [breach EXCEPT !.until = Expiry(w)]
<1>0. /\ step \in [Workers -> StepState] /\ working \in [Workers -> Jobs \cup {None}]
      /\ \A v \in Workers : step[v].at = "idle" <=> working[v] = None
  BY DEF TypeOK, StepState, Queue!JobsTypeOK
<1>1. CASE Take(w)
  BY <1>0, <1>1 DEF Take, Queue!Give
<1>2. CASE Set(w)
  <2>1. working[w] \in Jobs
    BY <1>0, <1>2 DEF Set
  <2> QED  BY <1>0, <1>2, <2>1 DEF Set, Told, queue
<1>3. CASE Get(w)
  BY <1>0, <1>3 DEF Get, queue
<1>4. CASE Expire(w)
  BY <1>0, <1>4 DEF Expire, Told, queue
<1>5. CASE Refill(w)
  <2>1. working[w] \in Jobs
    BY <1>0, <1>5 DEF Refill
  <2> QED  BY <1>0, <1>5, <2>1 DEF Refill, Told, queue
<1>6. CASE Commit(w)
  BY <1>0, <1>6 DEF Commit, Queue!Process
<1>7. CASE Acknowledge(w)
  BY <1>0, <1>7 DEF Acknowledge, Queue!Settle
<1>8. CASE Fail(w)
  BY <1>0, <1>8 DEF Fail, Queue!GiveBack
<1> QED  BY <1>1, <1>2, <1>3, <1>4, <1>5, <1>6, <1>7, <1>8 DEF Worker

\* A worker knows of a breach only what it was told since it took its frame.
Shaped == \A w \in Workers :
    /\ step[w].at \in {"idle", "set", "get", "refill", "ack"} => step[w].of = None
    /\ step[w].at # "decided" => step[w].new = FALSE
    /\ step[w].at = "decided" => step[w].of \in Jobs

\* Where the worker itself stands afterwards.
LEMMA StepOfItself ==
    ASSUME TypeOK, Shaped, NEW w \in Workers, Worker(w)
    PROVE  \/ step'[w].at \in {"idle", "set", "get", "ack"} /\ step'[w].new = FALSE /\ step'[w].of = None
           \/ step'[w].at = "expire" /\ step'[w].of = breach.by /\ step'[w].new = FALSE /\ breach' = breach
           \/ /\ step'[w].at = "refill" /\ step[w].at = "expire" /\ step[w].of = None /\ step'[w].of = None
              /\ step'[w].new = FALSE
           \/ /\ step'[w].at = "decided" /\ step'[w].new = FALSE /\ step'[w].of = step[w].of
              /\ step[w].at = "expire" /\ step[w].of \in Jobs
              /\ step'[w].when = now /\ partOf' = [partOf EXCEPT ![working[w]] = step[w].of]
           \/ /\ step'[w].at = "decided" /\ step'[w].new = TRUE /\ step'[w].of = working[w]
              /\ step'[w].when = now /\ partOf' = [partOf EXCEPT ![working[w]] = working[w]]
              /\ breach' = [by |-> working[w], until |-> Expiry(w)]
              /\ (step[w].at = "set" /\ ~Alive) \/ step[w].at = "refill"
<1>0. /\ step \in [Workers -> StepState] /\ working \in [Workers -> Jobs \cup {None}]
      /\ step[w] \in StepState /\ step[w].at = "idle" <=> working[w] = None
  BY DEF TypeOK, StepState, Queue!JobsTypeOK
<1>1. \A place \in {"set", "ack", "idle"} : step' = [step EXCEPT ![w] = Unasked(place)] =>
        step'[w].at = place /\ step'[w].new = FALSE /\ step'[w].of = None
  BY <1>0, UnaskedType
<1>2. CASE Take(w) \/ Commit(w) \/ Acknowledge(w) \/ Fail(w)
  BY <1>1, <1>2 DEF Take, Commit, Acknowledge, Fail, Idle
<1>3. ASSUME NEW new \in BOOLEAN, NEW of \in Jobs, Told(w, new, of)
      PROVE  /\ step'[w].at = "decided" /\ step'[w].new = new /\ step'[w].of = of /\ step'[w].when = now
             /\ partOf' = [partOf EXCEPT ![working[w]] = of]
  BY <1>0, <1>3 DEF Told
<1>4. CASE Set(w)
  <2>1. CASE Alive
    <3>1. step'[w].at = "get" /\ step'[w].new = step[w].new /\ step'[w].of = step[w].of
      BY <1>0, <1>4, <2>1 DEF Set, StepState
    <3> QED  BY <1>4, <3>1 DEF Shaped, Set
  <2>2. CASE ~Alive
    <3>1. working[w] \in Jobs
      BY <1>0, <1>4 DEF Set
    <3> QED  BY <1>3, <1>4, <2>2, <3>1 DEF Set
  <2> QED  BY <2>1, <2>2
<1>5. CASE Get(w)
  <2>1. step'[w].at = "expire" /\ step'[w].new = step[w].new /\ step'[w].of = breach.by
    BY <1>0, <1>5 DEF Get, StepState
  <2> QED  BY <1>5, <2>1 DEF Shaped, Get
<1>6. CASE Expire(w)
  <2>1. CASE step[w].of = None
    <3>1. step'[w].at = "refill" /\ step'[w].new = step[w].new /\ step'[w].of = step[w].of
      BY <1>0, <1>6, <2>1 DEF Expire, StepState
    <3> QED  BY <1>6, <2>1, <3>1 DEF Shaped, Expire
  <2>2. CASE step[w].of # None
    <3>1. step[w].of \in Jobs
      BY <1>0, <2>2 DEF StepState
    <3> QED  BY <1>3, <1>6, <2>2, <3>1 DEF Expire
  <2> QED  BY <2>1, <2>2
<1>7. CASE Refill(w)
  <2>1. working[w] \in Jobs
    BY <1>0, <1>7 DEF Refill
  <2> QED  BY <1>3, <1>7, <2>1 DEF Refill
<1> QED  BY <1>2, <1>4, <1>5, <1>6, <1>7 DEF Worker

LEMMA ShapedStep ==
    ASSUME TypeOK, Shaped, [Next]_vars
    PROVE  Shaped'
<1>1. CASE UNCHANGED step
  BY <1>1 DEF Shaped
<1>2. ASSUME NEW w \in Workers, Worker(w) PROVE Shaped'
  <2>1. \A v \in Workers \ {w} : step'[v] = step[v]
    BY <1>2, StepOfOne
  <2>2. step[w].at = "refill" \/ step[w].at = "set" => working[w] \in Jobs
    BY DEF TypeOK, Queue!JobsTypeOK
  <2>3. /\ step'[w].at \in {"idle", "set", "get", "refill", "ack"} => step'[w].of = None
        /\ step'[w].at # "decided" => step'[w].new = FALSE
        /\ step'[w].at = "decided" => step'[w].of \in Jobs
    BY <1>2, <2>2, StepOfItself
  <2> QED  BY <2>1, <2>3 DEF Shaped
<1> QED  BY <1>1, <1>2 DEF Next, Capture, Discard, Tick, vars

-----------------------------------------------------------------------------
(* The alerts of a worker are a cooldown apart. While the time of the last   *)
(* intrusion alert, raised or about to be, is less than a cooldown ago, the  *)
(* key is there: a worker that asks finds it and is told of no new breach -  *)
(* unless it asked before, and learns of an expiry that is over. So a worker *)
(* is told once at most. The behaviour workers, who slide the same key, must *)
(* not make it expire sooner.                                                *)

Alone == \A v, w \in Workers : GroupOf[v] = "intrusion" /\ GroupOf[w] = "intrusion" => v = w

NoShorter == Cooldown["intrusion"] <= Cooldown["behavior"]

Guarded(t) ==
    \/ t + Cooldown["intrusion"] <= now
    \/ Alive /\ t + Cooldown["intrusion"] <= breach.until

Intrusions == {a \in alerts : a.job[1] = "intrusion"}

LongAgo(w, t) == \A a \in Intrusions : a.by = w => a.at + Cooldown["intrusion"] <= t

Deciding(w) == step[w].at = "decided" /\ step[w].new = TRUE

\* No worker is told of a new breach before its last alert is a cooldown old.
Patient(w) ==
    /\ Deciding(w) => Guarded(step[w].when) /\ LongAgo(w, step[w].when)
    /\ step[w].at = "refill" \/ (step[w].at = "expire" /\ step[w].of = None) => LongAgo(w, now)

Apart ==
    /\ TypeOK /\ Shaped
    /\ Alive => breach.until > now
    /\ \A w \in Workers : working[w] # None => working[w][1] = GroupOf[w]
    /\ \A w \in Workers : step[w].at = "decided" => step[w].when <= now
    /\ \A a \in alerts : a.job[1] = GroupOf[a.by]
    /\ \A a \in Intrusions : a.at <= now /\ Guarded(a.at)
    /\ \A w \in Workers : GroupOf[w] = "intrusion" => Patient(w)
    /\ ApartByWorker

\* What is guarded stays so: the key expires when its time has come, and not before.
LEMMA GuardKept ==
    ASSUME TypeOK, Alive => breach.until > now, NoShorter, [Next]_vars
    PROVE  /\ now' \in Nat /\ now <= now' /\ (Alive => breach.until > now)'
           /\ \A t \in Nat : t <= now /\ Guarded(t) => Guarded(t)'
<1> USE ConstantTypes
<1>0. /\ now \in Nat /\ breach.until \in Nat /\ breach \in BreachState
      /\ Cooldown["intrusion"] \in Nat \ {0} /\ Cooldown["behavior"] \in Nat \ {0}
  BY DEF TypeOK, BreachState
<1>1. CASE UNCHANGED <<now, breach>>
  BY <1>0, <1>1 DEF Guarded, Alive
<1>2. CASE Tick
  <2>1. CASE Alive /\ breach.until <= now'
    <3>1. now' = now + 1 /\ breach'.by = None
      BY <1>2, <2>1 DEF Tick, NoBreach
    <3> QED  BY <1>0, <2>1, <3>1 DEF Guarded, Alive
  <2>2. CASE ~(Alive /\ breach.until <= now')
    <3>1. now' = now + 1 /\ breach' = breach
      BY <1>2, <2>2 DEF Tick
    <3> QED  BY <1>0, <2>2, <3>1 DEF Guarded, Alive
  <2> QED  BY <2>1, <2>2
<1>3. ASSUME NEW w \in Workers, Worker(w)
      PROVE  /\ now' = now /\ (Alive => breach.until > now)'
             /\ \A t \in Nat : t <= now /\ Guarded(t) => Guarded(t)'
  <2>1. Expiry(w) \in Nat /\ Expiry(w) > now /\ Expiry(w) >= now + Cooldown["intrusion"]
    <3>1. GroupOf[w] = "intrusion" \/ GroupOf[w] = "behavior"
      BY DEF Groups
    <3> QED  BY <1>0, <3>1 DEF Expiry, NoShorter
  <2>2. now' = now /\ ((Alive' /\ breach'.until = Expiry(w)) \/ breach' = breach)
    <3>1. now' = now
      BY <1>3, StepOfOne
    <3>2. CASE breach' = breach
      BY <3>1, <3>2
    <3>3. CASE \E j \in Jobs : breach' = [by |-> j, until |-> Expiry(w)]
      BY <3>1, <3>3 DEF Alive
    <3>4. CASE Alive /\ breach' = [breach EXCEPT !.until = Expiry(w)]
      <4>1. breach'.by = breach.by /\ breach'.until = Expiry(w)
        BY <1>0, <3>4 DEF BreachState
      <4> QED  BY <3>1, <3>4, <4>1 DEF Alive
    <3> QED  BY <1>3, <3>2, <3>3, <3>4, StepOfOne
  <2> QED  BY <1>0, <2>1, <2>2 DEF Guarded, Alive
<1>4. CASE Capture \/ Discard \/ UNCHANGED vars
  BY <1>1, <1>4 DEF Capture, Discard, vars
<1>5. ASSUME NEW w \in Workers, Worker(w)
      PROVE  /\ now' \in Nat /\ now <= now' /\ (Alive => breach.until > now)'
             /\ \A t \in Nat : t <= now /\ Guarded(t) => Guarded(t)'
  BY <1>0, <1>3, <1>5
<1> QED  BY <1>2, <1>4, <1>5 DEF Next

\* A worker works on a frame of its group.
LEMMA GroupKept ==
    ASSUME TypeOK, NEW w \in Workers, Worker(w), working[w] # None => working[w][1] = GroupOf[w]
    PROVE  working'[w] # None => working'[w][1] = GroupOf[w]
<1>0. working \in [Workers -> Jobs \cup {None}]
  BY DEF TypeOK, Queue!JobsTypeOK
<1>1. CASE Take(w)
  BY <1>0, <1>1 DEF Take, Queue!Give
<1>2. CASE Acknowledge(w) \/ Fail(w)
  <2>1. working'[w] = None
    BY <1>0, <1>2 DEF Acknowledge, Fail, Queue!Settle, Queue!GiveBack
  <2> QED  BY <2>1
<1>3. CASE Set(w) \/ Get(w) \/ Expire(w) \/ Refill(w) \/ Commit(w)
  BY <1>3 DEF Set, Get, Expire, Refill, Commit, queue, Queue!Process
<1> QED  BY <1>1, <1>2, <1>3 DEF Worker

\* Only a commit adds an alert.
LEMMA AlertsKept ==
    ASSUME NEW w \in Workers, Worker(w)
    PROVE  \/ alerts' = alerts
           \/ /\ step[w].at = "decided" /\ Raises(w) /\ Commit(w)
              /\ alerts' = alerts \cup {[job |-> working[w], by |-> w, at |-> step[w].when]}
BY DEF Worker, Take, Set, Get, Expire, Refill, Commit, Acknowledge, Fail

LEMMA WorldLeaves ==
    ASSUME TypeOK, Capture \/ Discard \/ Tick \/ UNCHANGED vars
    PROVE  UNCHANGED <<step, working, alerts, partOf, broken, done>>
<1>1. working \in [Workers -> Jobs \cup {None}]
  BY DEF TypeOK, Queue!JobsTypeOK
<1>2. ASSUME NEW j, Queue!Discard({j}, {}) PROVE working' = working /\ done' = done
  BY <1>1, <1>2 DEF Queue!Discard
<1>3. CASE Discard
  BY <1>2, <1>3 DEF Discard
<1>4. CASE Capture \/ Tick \/ UNCHANGED vars
  BY <1>4 DEF Capture, Tick, vars, queue, Queue!Publish
<1> QED  BY <1>3, <1>4

LEMMA ApartStep ==
    ASSUME NoShorter, Apart, [Next]_vars
    PROVE  Apart'
<1> USE ConstantTypes
<1>0. TypeOK /\ TypeOK' /\ Shaped /\ Shaped'
  BY TypeStep, ShapedStep DEF Apart
<1>1. /\ now \in Nat /\ now' \in Nat /\ now <= now' /\ (Alive => breach.until > now)'
      /\ \A t \in Nat : t <= now /\ Guarded(t) => Guarded(t)'
      /\ Cooldown["intrusion"] \in Nat \ {0}
  BY <1>0, GuardKept DEF Apart, TypeOK
<1>2. /\ \A a \in alerts : a.at \in Nat /\ a.job \in Jobs /\ a.by \in Workers
      /\ \A w \in Workers : step[w].when \in Nat /\ step[w].new \in BOOLEAN
  BY <1>0 DEF TypeOK, StepState
<1>3. \A w \in Workers : \A s, t \in Nat : LongAgo(w, s) /\ s <= t => LongAgo(w, t)
  BY <1>1, <1>2 DEF LongAgo, Intrusions
<1>4. ~Alive => \A w \in Workers : LongAgo(w, now)
  BY DEF Apart, Guarded, LongAgo
<1>5. CASE Capture \/ Discard \/ Tick \/ UNCHANGED vars
  <2>1. step' = step /\ working' = working /\ alerts' = alerts
    BY <1>0, <1>5, WorldLeaves
  <2>2. \A a \in Intrusions : a.at <= now' /\ Guarded(a.at)'
    BY <1>1, <1>2 DEF Apart, Intrusions
  <2>3. ASSUME NEW w \in Workers PROVE step[w].at = "decided" => step[w].when <= now'
    BY <1>1, <1>2 DEF Apart
  <2>4. ASSUME NEW w \in Workers, GroupOf[w] = "intrusion" PROVE Patient(w)'
    BY <1>1, <1>2, <1>3, <2>1, <2>4 DEF Apart, Patient, Deciding, LongAgo, Intrusions
  <2> QED  BY <1>0, <1>1, <2>1, <2>2, <2>3, <2>4 DEF Apart, Intrusions, ApartByWorker
<1>6. ASSUME NEW w \in Workers, Worker(w) PROVE Apart'
  <2>1. now' = now /\ \A v \in Workers \ {w} : step'[v] = step[v] /\ working'[v] = working[v]
    BY <1>0, <1>6, StepOfOne
  <2>2. \A v \in Workers : working'[v] # None => working'[v][1] = GroupOf[v]
    BY <1>0, <1>6, <2>1, GroupKept DEF Apart
  <2>3. \A v \in Workers : step'[v].at = "decided" => step'[v].when <= now'
    <3>1. step'[w].at = "decided" => step'[w].when = now
      BY <1>0, <1>6, StepOfItself
    <3>2. \A v \in Workers \ {w} : step'[v].at = "decided" => step'[v].when <= now
      BY <2>1 DEF Apart
    <3> QED  BY <1>1, <2>1, <3>1, <3>2
  <2>4. ASSUME (\A a \in alerts : a.job[1] = GroupOf[a.by])',
               (\A a \in Intrusions : a.at <= now /\ Guarded(a.at))',
               (\A v \in Workers : GroupOf[v] = "intrusion" => Patient(v))', ApartByWorker'
        PROVE  Apart'
    BY <1>0, <1>1, <2>2, <2>3, <2>4 DEF Apart
  <2>5. CASE alerts' = alerts
    <3>1. (\A a \in Intrusions : a.at <= now /\ Guarded(a.at))'
      BY <1>1, <1>2, <2>5 DEF Apart, Intrusions
    <3>2. ASSUME NEW v \in Workers, v # w, GroupOf[v] = "intrusion" PROVE Patient(v)'
      <4>1. Patient(v) /\ step'[v] = step[v] /\ (step[v].at = "decided" => step[v].when <= now)
        BY <2>1, <3>2 DEF Apart
      <4> QED  BY <1>1, <1>2, <2>1, <2>5, <4>1 DEF Patient, Deciding, LongAgo, Intrusions
    <3>3. ASSUME GroupOf[w] = "intrusion" PROVE Patient(w)'
      <4>1. ASSUME Deciding(w)' PROVE Guarded(step[w].when)' /\ LongAgo(w, step[w].when)'
        <5>1. /\ step'[w].when = now /\ working[w] \in Jobs
              /\ breach' = [by |-> working[w], until |-> Expiry(w)]
              /\ (step[w].at = "set" /\ ~Alive) \/ step[w].at = "refill"
          <6>1. (step[w].at = "set" \/ step[w].at = "refill") => working[w] \in Jobs
            BY <1>0 DEF TypeOK, Queue!JobsTypeOK
          <6> QED  BY <1>0, <1>6, <4>1, <6>1, StepOfItself DEF Deciding
        <5>2. LongAgo(w, now)
          BY <1>4, <3>3, <5>1 DEF Apart, Patient
        <5>3. Guarded(now)'
          BY <1>1, <2>1, <3>3, <5>1 DEF Guarded, Alive, Expiry
        <5> QED  BY <2>1, <2>5, <5>1, <5>2, <5>3 DEF Guarded, LongAgo, Intrusions
      <4>2. ASSUME (step[w].at = "refill" \/ (step[w].at = "expire" /\ step[w].of = None))' PROVE LongAgo(w, now)'
        <5>1. CASE step'[w].at = "refill"
          <6>1. LongAgo(w, now)
            BY <1>0, <1>6, <3>3, <5>1, StepOfItself DEF Apart, Patient
          <6> QED  BY <2>1, <2>5, <6>1 DEF LongAgo, Intrusions
        <5>2. CASE step'[w].at = "expire" /\ step'[w].of = None
          <6>1. breach.by = None
            BY <1>0, <1>6, <5>2, StepOfItself
          <6>2. LongAgo(w, now)
            BY <1>4, <6>1 DEF Alive
          <6> QED  BY <2>1, <2>5, <6>2 DEF LongAgo, Intrusions
        <5> QED  BY <4>2, <5>1, <5>2
      <4> QED  BY <4>1, <4>2 DEF Patient
    <3>4. ApartByWorker' /\ (\A a \in alerts : a.job[1] = GroupOf[a.by])'
      BY <2>5 DEF Apart, ApartByWorker
    <3> QED  BY <2>4, <3>1, <3>2, <3>3, <3>4
  <2>6. ASSUME Commit(w), step[w].at = "decided", Raises(w),
               alerts' = alerts \cup {[job |-> working[w], by |-> w, at |-> step[w].when]}
        PROVE  Apart'
    <3> DEFINE new == [job |-> working[w], by |-> w, at |-> step[w].when]
    <3>1. step'[w].at = "ack" /\ step'[w].new = FALSE /\ Deciding(w) /\ working[w] \in Jobs
      BY <1>0, <2>6, UnaskedType DEF Commit, Raises, Deciding, TypeOK, Queue!JobsTypeOK
    <3>2. breach' = breach
      BY <2>6 DEF Commit
    <3>3. \A a \in alerts' : a.job[1] = GroupOf[a.by]
      <4>1. working[w][1] = GroupOf[w]
        BY <3>1 DEF Apart
      <4> QED  BY <2>6, <4>1 DEF Apart
    <3>4. \A v \in Workers, t \in Nat : Guarded(t)' = Guarded(t)
      BY <2>1, <3>2 DEF Guarded, Alive
    <3>5. CASE working[w][1] # "intrusion"
      <4>1. Intrusions' = Intrusions
        BY <2>6, <3>5 DEF Intrusions
      <4>2. \A a \in alerts' : a.job[1] = "intrusion" => a \in alerts
        BY <2>6, <3>5
      <4>3. ApartByWorker'
        <5>1. SUFFICES ASSUME NEW a \in alerts', NEW b \in alerts', a # b, a.by = b.by, a.job[1] = "intrusion"
                       PROVE  a.at + Cooldown["intrusion"] <= b.at \/ b.at + Cooldown["intrusion"] <= a.at
          BY DEF ApartByWorker
        <5>2. b.job[1] = "intrusion"
          BY <3>3, <5>1
        <5> QED  BY <4>2, <5>1, <5>2 DEF Apart, ApartByWorker
      <4>4. ASSUME NEW v \in Workers, GroupOf[v] = "intrusion" PROVE Patient(v)'
        <5>1. v # w
          BY <3>1, <3>5, <4>4 DEF Apart
        <5>2. Patient(v) /\ step'[v] = step[v]
          BY <2>1, <4>4, <5>1 DEF Apart
        <5> QED  BY <1>2, <2>1, <3>4, <4>1, <5>2 DEF Patient, Deciding, LongAgo
      <4>5. (\A a \in Intrusions : a.at <= now /\ Guarded(a.at))'
        BY <1>1, <1>2, <4>1 DEF Apart, Intrusions
      <4> QED  BY <2>4, <3>3, <4>3, <4>4, <4>5
    <3>6. CASE working[w][1] = "intrusion"
      <4>1. GroupOf[w] = "intrusion" /\ Guarded(step[w].when) /\ LongAgo(w, step[w].when) /\ step[w].when <= now
        BY <3>1, <3>6 DEF Apart, Patient, Deciding
      <4>2. Intrusions' = Intrusions \cup {new} /\ new.at = step[w].when /\ new.by = w
        BY <2>6, <3>6 DEF Intrusions
      <4>3. \A a \in Intrusions' : a.at <= now' /\ Guarded(a.at)'
        BY <1>1, <1>2, <2>1, <4>1, <4>2 DEF Apart, Intrusions
      <4>4. ApartByWorker'
        <5>1. \A a \in Intrusions : a.by = w => a.at + Cooldown["intrusion"] <= new.at
          BY <4>1, <4>2 DEF LongAgo
        <5>2. \A a, b \in Intrusions : a # b /\ a.by = b.by =>
                a.at + Cooldown["intrusion"] <= b.at \/ b.at + Cooldown["intrusion"] <= a.at
          BY DEF Apart, ApartByWorker, Intrusions
        <5>3. \A a, b \in Intrusions' : a # b /\ a.by = b.by =>
                a.at + Cooldown["intrusion"] <= b.at \/ b.at + Cooldown["intrusion"] <= a.at
          <6> HIDE DEF new
          <6> QED  BY <4>2, <5>1, <5>2
        <5>4. \A a, b \in alerts' : a.by = b.by /\ a.job[1] = "intrusion" => b.job[1] = "intrusion"
          BY <3>3
        <5> QED  BY <5>3, <5>4 DEF ApartByWorker, Intrusions
      \* A worker's own alerts are all that keeps it from being told of a new breach.
      <4>5. ASSUME NEW v \in Workers, GroupOf[v] = "intrusion" PROVE Patient(v)'
        <5>1. CASE v = w
          BY <3>1, <5>1 DEF Patient, Deciding
        <5>2. CASE v # w
          <6>1. Patient(v) /\ step'[v] = step[v] /\ \A a \in Intrusions' : a.by = v => a \in Intrusions
            BY <2>1, <4>2, <4>5, <5>2 DEF Apart
          <6> QED  BY <1>2, <2>1, <3>4, <6>1 DEF Patient, Deciding, LongAgo
        <5> QED  BY <5>1, <5>2
      <4> QED  BY <2>4, <3>3, <4>3, <4>4, <4>5
    <3> QED  BY <3>5, <3>6
  <2> QED  BY <1>6, <2>5, <2>6, AlertsKept
<1> QED  BY <1>5, <1>6 DEF Next

LEMMA ApartInit == Init => Apart
<1> SUFFICES ASSUME Init PROVE Apart
  OBVIOUS
<1>1. \A w \in Workers : step[w].at = "idle" /\ step[w].new = FALSE /\ step[w].of = None /\ working[w] = None
  BY UnaskedType DEF Init, Idle, Queue!JobsInit
<1>2. alerts = {} /\ ~Alive
  BY DEF Init, NoBreach, Alive
<1> QED  BY <1>1, <1>2, TypeInit DEF Apart, Patient, Shaped, Intrusions, Deciding, ApartByWorker

\* However many workers look for intrusions, how often frames are given again and
\* whoever else asks about the zone: the alerts one worker raises are a cooldown
\* apart, if the behaviour workers' cooldown is not the shorter one.
THEOREM WorkersAlertsAreApart == Spec => [](NoShorter => ApartByWorker)
<1>1. Init => (NoShorter => Apart)
  BY ApartInit
<1>2. (NoShorter => Apart) /\ [Next]_vars => (NoShorter => Apart)'
  BY ApartStep DEF NoShorter
<1>3. (NoShorter => Apart) => (NoShorter => ApartByWorker)
  BY DEF Apart
<1> QED  BY <1>1, <1>2, <1>3, PTL DEF Spec

\* Two intrusion alerts of a zone are a cooldown apart, if one worker looks for
\* intrusions and the behaviour workers' cooldown is not the shorter one.
THEOREM AlertsAreApart == Spec => [](Alone /\ NoShorter => AlertsApart)
<1>1. Init => (NoShorter => Apart)
  BY ApartInit
<1>2. (NoShorter => Apart) /\ [Next]_vars => (NoShorter => Apart)'
  BY ApartStep DEF NoShorter
<1>3. Alone /\ Apart => AlertsApart
  <2> SUFFICES ASSUME Alone, Apart, NEW a \in alerts, NEW b \in alerts,
                      a # b, a.job[1] = "intrusion", b.job[1] = "intrusion"
               PROVE  a.at + Cooldown["intrusion"] <= b.at \/ b.at + Cooldown["intrusion"] <= a.at
    BY DEF AlertsApart
  <2>1. a.by \in Workers /\ b.by \in Workers /\ GroupOf[a.by] = "intrusion" /\ GroupOf[b.by] = "intrusion"
    BY DEF Apart, TypeOK
  <2>2. a.by = b.by
    BY <2>1 DEF Alone
  <2> QED  BY <2>2 DEF Apart, ApartByWorker
<1>4. (NoShorter => Apart) => (Alone /\ NoShorter => AlertsApart)
  BY <1>3
<1> QED  BY <1>1, <1>2, <1>4, PTL DEF Spec

\* So a person who stays in a zone costs no more alerts in the length of a cooldown,
\* wherever it begins, than there are workers that look for intrusions.
Lookers == {w \in Workers : GroupOf[w] = "intrusion"}

Within(t) == {a \in Intrusions : t <= a.at /\ a.at < t + Cooldown["intrusion"]}

AtMostOneEach == \A t \in Nat : IsFiniteSet(Within(t)) /\ Cardinality(Within(t)) <= Cardinality(Lookers)

THEOREM AlertsAreFew ==
    ASSUME IsFiniteSet(Workers)
    PROVE  Spec => [](NoShorter => AtMostOneEach)
<1>1. Init => (NoShorter => Apart)
  BY ApartInit
<1>2. (NoShorter => Apart) /\ [Next]_vars => (NoShorter => Apart)'
  BY ApartStep DEF NoShorter
<1>3. Apart => AtMostOneEach
  <2> SUFFICES ASSUME Apart, NEW t \in Nat
               PROVE  IsFiniteSet(Within(t)) /\ Cardinality(Within(t)) <= Cardinality(Lookers)
    BY DEF AtMostOneEach
  <2>1. IsFiniteSet(Lookers)
    BY FS_Subset DEF Lookers
  <2> DEFINE by == [a \in Within(t) |-> a.by]
  <2>2. by \in [Within(t) -> Lookers]
    BY DEF Apart, TypeOK, Lookers, Within, Intrusions
  <2>3. \A a, b \in Within(t) : by[a] = by[b] => a = b
    <3> SUFFICES ASSUME NEW a \in Within(t), NEW b \in Within(t), a.by = b.by, a # b PROVE FALSE
      OBVIOUS
    <3>1. a.at \in Nat /\ b.at \in Nat /\ Cooldown["intrusion"] \in Nat
      BY ConstantTypes DEF Apart, TypeOK, Within, Intrusions
    <3>2. a.at + Cooldown["intrusion"] <= b.at \/ b.at + Cooldown["intrusion"] <= a.at
      BY DEF Apart, ApartByWorker, Within, Intrusions
    <3>3. t <= a.at /\ a.at < t + Cooldown["intrusion"] /\ t <= b.at /\ b.at < t + Cooldown["intrusion"]
      BY DEF Within
    <3> QED  BY <3>1, <3>2, <3>3
  <2>4. by \in Injection(Within(t), Lookers)
    BY <2>2, <2>3 DEF Injection, IsInjective
  <2> HIDE DEF by
  <2> QED  BY <2>1, <2>4, FS_Injection
<1>4. (NoShorter => Apart) => (NoShorter => AtMostOneEach)
  BY <1>3
<1> QED  BY <1>1, <1>2, <1>4, PTL DEF Spec

-----------------------------------------------------------------------------
(* No alert goes missing but after a failure. The frame that set the key has *)
(* its alert, or its transaction failed, or its worker has still to commit.  *)

Settled(i) == Alerted(i) \/ i \in broken

Promised(i) == \E w \in Workers : working[w] = i /\ Deciding(w)

Backed(i) == i # None /\ i[1] = "intrusion" => Settled(i) \/ Promised(i)

Known ==
    /\ TypeOK /\ Shaped
    /\ \A w \in Workers : working[w] # None => working[w][1] = GroupOf[w]
    /\ \A w \in Workers : step[w].at \in {"decided", "ack"} => partOf[working[w]] # None
    /\ \A j \in done : partOf[j] # None
    /\ \A j \in Jobs : job[j] = "acked" => j \in done
    /\ Backed(breach.by)
    /\ \A w \in Workers : Backed(step[w].of)
    /\ \A j \in Jobs : Backed(partOf[j])

\* An alert stays, and a promise is kept or broken.
LEMMA PromisesEnd ==
    ASSUME Known, NEW w \in Workers, Worker(w)
    PROVE  /\ \A i \in Jobs : Settled(i) => Settled(i)'
           /\ \A i \in Jobs : i[1] = "intrusion" /\ Promised(i) => Settled(i)' \/ Promised(i)'
<1>0. TypeOK /\ \A v \in Workers \ {w} : step'[v] = step[v] /\ working'[v] = working[v]
  BY StepOfOne DEF Known
<1>1. alerts \subseteq alerts' /\ broken \subseteq broken'
  BY DEF Worker, Take, Set, Get, Expire, Refill, Commit, Acknowledge, Fail
<1>2. \A i \in Jobs : Settled(i) => Settled(i)'
  BY <1>1 DEF Settled, Alerted
<1>3. ASSUME NEW i \in Jobs, i[1] = "intrusion", Promised(i) PROVE Settled(i)' \/ Promised(i)'
  <2>1. PICK v \in Workers : working[v] = i /\ Deciding(v)
    BY <1>3 DEF Promised
  <2>2. CASE v # w
    BY <1>0, <2>1, <2>2 DEF Promised, Deciding
  <2>3. CASE v = w
    <3>1. Commit(w) \/ Fail(w)
      <4>1. step[w].at = "decided" /\ working[w] # None
        BY <2>1, <2>3, ConstantTypes DEF Deciding
      <4>2. ~Take(w)
        BY <4>1 DEF Take, Queue!Give
      <4>3. ~Set(w) /\ ~Get(w) /\ ~Expire(w) /\ ~Refill(w) /\ ~Acknowledge(w)
        BY <4>1 DEF Set, Get, Expire, Refill, Acknowledge
      <4> QED  BY <4>2, <4>3 DEF Worker
    <3>2. CASE Commit(w)
      <4>1. Raises(w)
        BY <1>3, <2>1, <2>3 DEF Raises, Deciding, Groups
      <4>2. [job |-> i, by |-> w, at |-> step[w].when] \in alerts'
        BY <2>1, <2>3, <3>2, <4>1 DEF Commit
      <4> QED  BY <4>2 DEF Settled, Alerted
    <3>3. CASE Fail(w)
      BY <2>1, <2>3, <3>3 DEF Fail, Deciding, Settled
    <3> QED  BY <3>1, <3>2, <3>3
  <2> QED  BY <2>2, <2>3
<1> QED  BY <1>2, <1>3

\* What the queue does of a worker's step.
LEMMA QueueStep ==
    ASSUME TypeOK, NEW w \in Workers, Worker(w)
    PROVE  \/ /\ \E j \in Jobs : job[j] = "open" /\ working' = [working EXCEPT ![w] = j]
              /\ UNCHANGED <<job, done, partOf, breach>> /\ step'[w].at = "set"
           \/ UNCHANGED <<job, done, working>> /\ step'[w].at # "ack"
           \/ /\ step[w].at = "decided" /\ done' = done \cup {working[w]} /\ UNCHANGED <<job, working, partOf, breach>>
              /\ step'[w].at = "ack"
           \/ /\ working[w] \in done /\ job' = [job EXCEPT ![working[w]] = IF @ = "open" THEN "acked" ELSE @]
              /\ working' = [working EXCEPT ![w] = None] /\ UNCHANGED <<done, partOf, breach>>
              /\ step'[w].at = "idle"
           \/ /\ working' = [working EXCEPT ![w] = None] /\ UNCHANGED <<job, done, partOf, breach>>
              /\ step'[w].at = "idle"
<1>0. working \in [Workers -> Jobs \cup {None}] /\ step \in [Workers -> StepState]
  BY DEF TypeOK, Queue!JobsTypeOK, StepState
<1>1. \A place \in {"set", "ack", "idle"} : step' = [step EXCEPT ![w] = Unasked(place)] => step'[w].at = place
  BY <1>0, UnaskedType
<1>2. CASE Take(w)
  BY <1>1, <1>2 DEF Take, Queue!Give
<1>3. CASE Commit(w)
  BY <1>1, <1>3 DEF Commit, Queue!Process
<1>4. CASE Acknowledge(w)
  BY <1>1, <1>4 DEF Acknowledge, Queue!Settle, Idle
<1>5. CASE Fail(w)
  <2>1. working' = [working EXCEPT ![w] = None]
    BY <1>0, <1>5 DEF Fail, Queue!GiveBack
  <2> QED  BY <1>1, <1>5, <2>1 DEF Fail, Queue!GiveBack, Idle
<1>6. CASE Set(w) \/ Get(w) \/ Expire(w) \/ Refill(w)
  BY <1>0, <1>6 DEF Set, Get, Expire, Refill, Told, queue, StepState
<1> QED  BY <1>2, <1>3, <1>4, <1>5, <1>6 DEF Worker

\* What the tracker tells, and of which breach.
LEMMA TellStep ==
    ASSUME TypeOK, Shaped, NEW w \in Workers, Worker(w)
    PROVE  \/ partOf' = partOf /\ breach'.by = breach.by /\ step'[w].at # "decided"
           \/ /\ working[w] \in Jobs /\ UNCHANGED <<job, working, done>> /\ step'[w].at = "decided"
              /\ partOf' = [partOf EXCEPT ![working[w]] = step'[w].of] /\ step'[w].of \in Jobs
              /\ \/ breach'.by = breach.by /\ step[w].at = "expire" /\ step'[w].of = step[w].of
                 \/ breach'.by = working[w] /\ step'[w].new = TRUE /\ step'[w].of = working[w]
<1>0. /\ breach \in BreachState /\ working \in [Workers -> Jobs \cup {None}]
      /\ step[w].at = "idle" <=> working[w] = None
  BY DEF TypeOK, BreachState, Queue!JobsTypeOK
<1>1. CASE Take(w) \/ Commit(w) \/ Acknowledge(w) \/ Fail(w)
  <2>1. partOf' = partOf /\ breach' = breach
    BY <1>1 DEF Take, Commit, Acknowledge, Fail
  <2>2. \A place \in {"set", "ack", "idle"} : step' = [step EXCEPT ![w] = Unasked(place)] => step'[w].at # "decided"
    BY UnaskedType DEF TypeOK
  <2>3. step'[w].at # "decided"
    BY <1>1, <2>2 DEF Take, Commit, Acknowledge, Fail, Idle
  <2> QED  BY <2>1, <2>3
<1>2. CASE Get(w)
  BY <1>2, StepOfItself DEF Get
<1>3. CASE Set(w)
  <2>1. working[w] \in Jobs /\ UNCHANGED <<job, working, done>>
    BY <1>0, <1>3 DEF Set, queue
  <2>2. CASE Alive
    <3>1. step'[w].at = "get"
      BY <1>3, <2>2 DEF Set, TypeOK
    <3> QED  BY <1>3, <2>2, <3>1 DEF Set
  <2>3. CASE ~Alive
    BY <1>3, <2>1, <2>3, StepOfItself DEF Set, Told, TypeOK
  <2> QED  BY <2>2, <2>3
<1>4. CASE Expire(w)
  <2>1. working[w] \in Jobs /\ UNCHANGED <<job, working, done>> /\ breach'.by = breach.by
    BY <1>0, <1>4 DEF Expire, queue, BreachState
  <2>2. CASE step[w].of = None
    <3>1. step'[w].at = "refill"
      BY <1>4, <2>2 DEF Expire, TypeOK
    <3> QED  BY <1>4, <2>1, <2>2, <3>1 DEF Expire
  <2>3. CASE step[w].of # None
    BY <1>4, <2>1, <2>3, StepOfItself DEF Expire, Told, TypeOK
  <2> QED  BY <2>2, <2>3
<1>5. CASE Refill(w)
  <2>1. working[w] \in Jobs /\ UNCHANGED <<job, working, done>>
    BY <1>0, <1>5 DEF Refill, queue
  <2> QED  BY <1>5, <2>1, StepOfItself DEF Refill, Told, TypeOK
<1> QED  BY <1>1, <1>2, <1>3, <1>4, <1>5 DEF Worker

LEMMA KnownStep ==
    ASSUME Known, [Next]_vars
    PROVE  Known'
<1> USE ConstantTypes
<1>0. TypeOK /\ TypeOK' /\ Shaped /\ Shaped'
  BY TypeStep, ShapedStep DEF Known
<1>1. /\ working \in [Workers -> Jobs \cup {None}] /\ partOf \in [Jobs -> Jobs \cup {None}]
      /\ job \in [Jobs -> Queue!Standings] /\ done \subseteq Jobs
      /\ \A w \in Workers : step[w].of \in Jobs \cup {None}
      /\ breach.by \in Jobs \cup {None}
      /\ \A w \in Workers : step[w].at = "idle" <=> working[w] = None
  BY <1>0 DEF TypeOK, Queue!JobsTypeOK
<1>2. CASE Capture \/ Discard \/ Tick \/ UNCHANGED vars
  <2>1. UNCHANGED <<step, working, alerts, partOf, broken, done>>
    BY <1>0, <1>2, WorldLeaves
  <2>2. \A j \in Jobs : job'[j] = "acked" => job[j] = "acked"
    BY <1>1, <1>2 DEF Capture, Discard, Tick, vars, queue, Queue!Publish, Queue!Discard
  <2>3. breach' = breach \/ breach'.by = None
    <3>1. CASE Tick
      BY <3>1 DEF Tick, NoBreach
    <3>2. CASE Capture \/ Discard \/ UNCHANGED vars
      BY <3>2 DEF Capture, Discard, vars
    <3> QED  BY <1>2, <3>1, <3>2
  <2>4. Backed(breach.by)'
    BY <2>1, <2>3 DEF Known, Backed, Settled, Alerted, Promised, Deciding
  <2>5. \A w \in Workers : Backed(step[w].of)'
    BY <2>1 DEF Known, Backed, Settled, Alerted, Promised, Deciding
  <2>6. \A j \in Jobs : Backed(partOf[j])'
    BY <2>1 DEF Known, Backed, Settled, Alerted, Promised, Deciding
  <2> QED  BY <1>0, <1>1, <2>1, <2>2, <2>4, <2>5, <2>6 DEF Known
<1>3. ASSUME NEW w \in Workers, Worker(w) PROVE Known'
  <2>1. \A v \in Workers \ {w} : step'[v] = step[v] /\ working'[v] = working[v]
    BY <1>0, <1>3, StepOfOne
  <2>2. \A v \in Workers : working'[v] # None => working'[v][1] = GroupOf[v]
    BY <1>0, <1>3, <2>1, GroupKept DEF Known
  <2>3. /\ \A i \in Jobs : Settled(i) => Settled(i)'
        /\ \A i \in Jobs : i[1] = "intrusion" /\ Promised(i) => Settled(i)' \/ Promised(i)'
    BY <1>3, PromisesEnd
  <2>4. ASSUME NEW i \in Jobs \cup {None}, Backed(i) PROVE Backed(i)'
    BY <2>3, <2>4 DEF Backed
  <2>5. Backed(breach.by)' /\ Backed(step[w].of)'
    <3>1. CASE breach'.by = working[w] /\ step'[w].new = TRUE /\ step'[w].of = working[w]
               /\ step'[w].at = "decided" /\ working' = working
      BY <3>1 DEF Backed, Promised, Deciding
    <3>2. CASE breach'.by = breach.by /\ step'[w].of \in {None, breach.by, step[w].of}
      BY <1>1, <2>4, <3>2 DEF Known, Backed
    <3> QED  BY <1>0, <1>3, <3>1, <3>2, TellStep, StepOfItself
  <2>6. \A v \in Workers : Backed(step[v].of)'
    BY <1>1, <2>1, <2>4, <2>5 DEF Known
  <2>7. ASSUME NEW j \in Jobs PROVE Backed(partOf[j])'
    <3>1. CASE partOf'[j] = partOf[j]
      <4>1. Backed(partOf[j])
        BY DEF Known
      <4> QED  BY <1>1, <2>4, <3>1, <4>1 DEF Backed
    <3>2. CASE partOf'[j] # partOf[j]
      <4>1. partOf'[j] = step'[w].of
        BY <1>0, <1>1, <1>3, <3>2, TellStep
      <4> QED  BY <2>5, <4>1
    <3> QED  BY <3>1, <3>2
  <2>8. /\ \A j \in Jobs : partOf[j] # None => partOf'[j] # None
        /\ step'[w].at = "decided" => partOf'[working'[w]] # None
    <3>1. CASE partOf' = partOf /\ step'[w].at # "decided"
      BY <3>1
    <3>2. CASE /\ working[w] \in Jobs /\ working' = working /\ step'[w].of \in Jobs
               /\ partOf' = [partOf EXCEPT ![working[w]] = step'[w].of]
      <4>1. step'[w].of # None
        BY <3>2
      <4> QED  BY <1>1, <3>2, <4>1
    <3> QED  BY <1>0, <1>3, <3>1, <3>2, TellStep
  <2>9. \A v \in Workers : step'[v].at \in {"decided", "ack"} => partOf'[working'[v]] # None
    <3>1. ASSUME NEW v \in Workers, v # w, step'[v].at \in {"decided", "ack"} PROVE partOf'[working'[v]] # None
      BY <1>1, <2>1, <2>8, <3>1 DEF Known
    <3>2. step'[w].at = "decided" => partOf'[working'[w]] # None
      BY <2>8
    <3>3. step'[w].at = "ack" => partOf'[working'[w]] # None
      BY <1>0, <1>1, <1>3, QueueStep DEF Known
    <3> QED  BY <3>1, <3>2, <3>3
  <2>10. \A j \in done' : partOf'[j] # None
    <3>1. \A j \in done' : j \in done \/ (step[w].at = "decided" /\ j = working[w])
      BY <1>0, <1>3, QueueStep
    <3>2. step[w].at = "decided" => working[w] \in Jobs /\ partOf[working[w]] # None
      BY <1>1 DEF Known
    <3> QED  BY <1>1, <2>8, <3>1, <3>2 DEF Known
  <2>11. \A j \in Jobs : job'[j] = "acked" => j \in done'
    <3>1. done \subseteq done'
      BY <1>0, <1>3, QueueStep
    <3>2. \A j \in Jobs : job'[j] = "acked" => job[j] = "acked" \/ j \in done
      BY <1>0, <1>1, <1>3, QueueStep
    <3> QED  BY <3>1, <3>2 DEF Known
  <2> QED  BY <1>0, <2>2, <2>5, <2>6, <2>7, <2>9, <2>10, <2>11 DEF Known
<1> QED  BY <1>2, <1>3 DEF Next

LEMMA KnownInit == Init => Known
<1> SUFFICES ASSUME Init PROVE Known
  OBVIOUS
<1>1. \A w \in Workers : step[w].at = "idle" /\ step[w].new = FALSE /\ step[w].of = None /\ working[w] = None
  BY UnaskedType DEF Init, Idle, Queue!JobsInit
<1>2. breach.by = None /\ done = {} /\ \A j \in Jobs : job[j] # "acked" /\ partOf[j] = None
  BY DEF Init, NoBreach, Queue!JobsInit
<1> QED  BY <1>1, <1>2, TypeInit DEF Known, Shaped, Backed

\* However many workers look for intrusions, whatever fails and whoever gets a frame
\* again: an intrusion frame that was dealt with has its alert, or a worker holds it
\* in an open transaction, or that transaction failed after the tracker had been told,
\* or the behaviour workers asked first.
THEOREM FramesAreAccountedFor == Spec => []AccountedFor
<1>1. Init => Known
  BY KnownInit
<1>2. Known /\ [Next]_vars => Known'
  BY KnownStep
<1>3. Known => AccountedFor
  <2> SUFFICES ASSUME Known, NEW j \in Acknowledged("intrusion")
               PROVE  \E i \in {j, partOf[j]} :
                        \/ Alerted(i) \/ \E w \in Workers : working[w] = i /\ step[w].new
                        \/ i \in broken \/ i[1] = "behavior"
    BY DEF AccountedFor
  <2>1. j \in Jobs /\ partOf[j] \in Jobs /\ Backed(partOf[j])
    BY DEF Acknowledged, Known, TypeOK
  <2>2. CASE partOf[j][1] = "behavior"
    BY <2>2
  <2>3. CASE partOf[j][1] = "intrusion"
    BY <2>1, <2>3, ConstantTypes DEF Backed, Settled, Promised, Deciding
  <2> QED  BY <2>1, <2>2, <2>3, ConstantTypes DEF Groups
<1> QED  BY <1>1, <1>2, <1>3, PTL DEF Spec

-----------------------------------------------------------------------------
(* With one worker that looks for intrusions nobody waits for a promise:     *)
(* that worker is the only one that could acknowledge another intrusion      *)
(* frame meanwhile.                                                          *)

Explained(j) ==
    partOf[j] # None =>
        partOf[j][1] = "behavior" \/ Settled(partOf[j]) \/ (partOf[j] = j /\ Promised(j))

Mine ==
    /\ \A w \in Workers : GroupOf[w] = "intrusion" /\ working[w] # None => job[working[w]] # "acked"
    /\ \A j \in Jobs : j[1] = "intrusion" => Explained(j)

LEMMA MineStep ==
    ASSUME Alone, Known, Mine, [Next]_vars
    PROVE  Mine'
<1> USE ConstantTypes
<1>0. TypeOK /\ TypeOK' /\ Shaped /\ Shaped'
  BY TypeStep, ShapedStep DEF Known
<1>1. /\ working \in [Workers -> Jobs \cup {None}] /\ partOf \in [Jobs -> Jobs \cup {None}]
      /\ job \in [Jobs -> Queue!Standings]
      /\ \A w \in Workers : step[w].at = "idle" <=> working[w] = None
  BY <1>0 DEF TypeOK, Queue!JobsTypeOK
<1>2. CASE Capture \/ Discard \/ Tick \/ UNCHANGED vars
  <2>1. UNCHANGED <<step, working, alerts, partOf, broken, done>>
    BY <1>0, <1>2, WorldLeaves
  <2>2. \A j \in Jobs : job'[j] = "acked" => job[j] = "acked"
    BY <1>1, <1>2 DEF Capture, Discard, Tick, vars, queue, Queue!Publish, Queue!Discard
  <2> QED  BY <1>1, <2>1, <2>2 DEF Mine, Explained, Settled, Alerted, Promised, Deciding
<1>3. ASSUME NEW w \in Workers, Worker(w) PROVE Mine'
  <2>1. \A v \in Workers \ {w} : step'[v] = step[v] /\ working'[v] = working[v]
    BY <1>0, <1>3, StepOfOne
  <2>2. /\ \A i \in Jobs : Settled(i) => Settled(i)'
        /\ \A i \in Jobs : i[1] = "intrusion" /\ Promised(i) => Settled(i)' \/ Promised(i)'
    BY <1>3, PromisesEnd
  <2>3. ASSUME NEW j \in Jobs, j[1] = "intrusion" PROVE Explained(j)'
    <3>1. CASE partOf'[j] = partOf[j]
      BY <1>1, <2>2, <2>3, <3>1 DEF Mine, Explained
    <3>2. CASE partOf'[j] # partOf[j]
      <4>1. /\ j = working[w] /\ working' = working /\ step'[w].at = "decided" /\ partOf'[j] = step'[w].of
            /\ step'[w].of \in Jobs
            /\ \/ step[w].at = "expire" /\ step'[w].of = step[w].of
               \/ step'[w].new = TRUE /\ step'[w].of = working[w]
        <5>1. CASE partOf' = partOf
          BY <3>2, <5>1
        <5>2. CASE /\ working[w] \in Jobs /\ UNCHANGED working /\ step'[w].at = "decided"
                   /\ partOf' = [partOf EXCEPT ![working[w]] = step'[w].of] /\ step'[w].of \in Jobs
                   /\ \/ step[w].at = "expire" /\ step'[w].of = step[w].of
                      \/ step'[w].new = TRUE /\ step'[w].of = working[w]
          BY <1>1, <3>2, <5>2
        <5> QED  BY <1>0, <1>3, <5>1, <5>2, TellStep
      <4>2. CASE step'[w].new = TRUE /\ step'[w].of = working[w]
        BY <4>1, <4>2 DEF Explained, Promised, Deciding
      <4>3. CASE step[w].at = "expire" /\ step'[w].of = step[w].of
        <5>1. GroupOf[w] = "intrusion" /\ Backed(step[w].of)
          BY <2>3, <4>1 DEF Known
        <5>2. \A v \in Workers : GroupOf[v] = "intrusion" => v = w
          BY <5>1 DEF Alone
        <5>3. step[w].of[1] = "intrusion" => ~Promised(step[w].of)
          BY <4>1, <4>3, <5>2 DEF Known, Promised, Deciding
        <5>4. step[w].of[1] = "behavior" \/ Settled(step[w].of)
          BY <4>1, <4>3, <5>1, <5>3 DEF Backed, Groups
        <5> QED  BY <2>2, <4>1, <4>3, <5>4 DEF Explained
      <4> QED  BY <4>1, <4>2, <4>3
    <3> QED  BY <3>1, <3>2
  <2>4. ASSUME NEW v \in Workers, GroupOf[v] = "intrusion", working'[v] # None PROVE job'[working'[v]] # "acked"
    <3>1. CASE job' = job
      <4>1. working'[v] = working[v] \/ job[working'[v]] = "open"
        BY <1>0, <1>1, <1>3, <2>1, <2>4, QueueStep
      <4> QED  BY <2>4, <3>1, <4>1 DEF Mine
    <3>2. CASE job' # job
      <4>1. /\ working[w] \in done /\ job' = [job EXCEPT ![working[w]] = IF @ = "open" THEN "acked" ELSE @]
            /\ working' = [working EXCEPT ![w] = None]
        BY <1>0, <1>3, <3>2, QueueStep
      <4>2. v # w /\ working'[v] = working[v] /\ working[v] \in Jobs
        BY <1>1, <2>4, <4>1
      <4>3. GroupOf[w] # "intrusion"
        BY <2>4, <4>2 DEF Alone
      <4>4. working[v] # working[w]
        BY <1>1, <2>4, <4>1, <4>2, <4>3 DEF Known
      <4> QED  BY <1>1, <2>4, <4>1, <4>2, <4>4 DEF Mine
    <3> QED  BY <3>1, <3>2
  <2> QED  BY <2>3, <2>4 DEF Mine
<1> QED  BY <1>2, <1>3 DEF Next

\* With one worker that looks for intrusions, a frame that was dealt with has its
\* alert, unless a transaction failed after the tracker had been told, or the
\* behaviour workers asked first.
THEOREM MissingAlertsAreExplained == Spec => [](Alone => MissingOnlyAfter)
<1>1. Init => (Alone => Known /\ Mine)
  BY KnownInit DEF Init, Mine, Explained, Queue!JobsInit
<1>2. (Alone => Known /\ Mine) /\ [Next]_vars => (Alone => Known /\ Mine)'
  BY KnownStep, MineStep DEF Alone
<1>3. (Alone => Known /\ Mine) => (Alone => MissingOnlyAfter)
  <2> SUFFICES ASSUME Known, Mine, NEW j \in Acknowledged("intrusion")
               PROVE  \E i \in {j, partOf[j]} : Alerted(i) \/ i \in broken \/ i[1] = "behavior"
    BY DEF MissingOnlyAfter
  <2>1. j \in Jobs /\ j[1] = "intrusion" /\ job[j] = "acked" /\ partOf[j] # None /\ Explained(j)
    BY DEF Acknowledged, Known, Mine
  <2>2. ~Promised(j)
    BY <2>1, ConstantTypes DEF Promised, Known, Mine
  <2> QED  BY <2>1, <2>2 DEF Explained, Settled
<1> QED  BY <1>1, <1>2, <1>3, PTL DEF Spec

=============================================================================
