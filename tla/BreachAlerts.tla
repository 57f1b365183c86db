---------------------------- MODULE BreachAlerts ----------------------------
(***************************************************************************)
(* A person stands in a restricted zone, and every frame shows it.  The    *)
(* intrusion workers are to raise one alert for it and not one per frame;  *)
(* the behaviour workers, which read the same frames in a group of their   *)
(* own, are to notice that the person stays.  Both ask the breach tracker  *)
(* (worker/dedup.py), one Redis key per camera and zone that expires when  *)
(* nobody was seen for a cooldown.                                         *)
(*                                                                         *)
(* Frames reach the workers as FrameJobs promises: again after a failure,  *)
(* perhaps to another worker.  The tracker is asked inside the database    *)
(* transaction, in up to four Redis calls; time may pass between them.     *)
(* Frames that show nobody in the zone change nothing and are left out.    *)
(***************************************************************************)
EXTENDS Naturals, FiniteSets

CONSTANTS
    Workers,
    GroupOf,        \* the group each worker reads in
    None,
    MaxFrames,      \* bound: frames captured
    Cooldown,       \* breach_cooldown_seconds of each group, in ticks
    LoiterDwell,    \* behavior.loitering_dwell_seconds, in ticks
    MaxTime,        \* bound: ticks
    MaxFaults       \* bound: failures, restarts and discarded frames

Groups == {"intrusion", "behavior"}
Frames == 1..MaxFrames
Jobs   == Groups \X Frames

ASSUME GroupsAssumption ==
    /\ GroupOf \in [Workers -> Groups] /\ Cooldown \in [Groups -> Nat \ {0}] /\ None \notin Jobs
ASSUME BoundsAssumption ==
    /\ {MaxFrames, LoiterDwell} \subseteq Nat \ {0} /\ {MaxTime, MaxFaults} \subseteq Nat

VARIABLES
    now,
    captured,   \* when each frame was taken
    breach,     \* the Redis key of the zone: the job that set it, and when it expires
    job, working, done,     \* the two groups of the frame queue
    step,       \* where in process_frame_job each worker is; what it was told, and when
    partOf,     \* history: the breach each job was told of last
    alerts,     \* the alerts committed, who raised them, and when their breach was registered
    broken,     \* history: jobs that were told of a new breach and then failed
    faults

queue == <<job, working, done>>
vars == <<now, captured, breach, job, working, done, step, partOf, alerts, broken, faults>>

Queue == INSTANCE FrameJobs WITH NoJob <- None

Unasked(place) == [at |-> place, new |-> FALSE, of |-> None, when |-> 0]
Idle == Unasked("idle")
NoBreach == [by |-> None, until |-> 0]

TypeOK ==
    /\ Queue!JobsTypeOK
    /\ now \in 0..MaxTime
    /\ captured \in [Frames -> 0..MaxTime \cup {None}]
    /\ breach \in [by : Jobs \cup {None}, until : Nat]
    /\ step \in [Workers -> [at : {"idle", "set", "get", "expire", "refill", "decided", "ack"},
                             new : BOOLEAN, of : Jobs \cup {None}, when : 0..MaxTime]]
    /\ \A w \in Workers : step[w].at = "idle" <=> working[w] = None
    /\ partOf \in [Jobs -> Jobs \cup {None}]
    /\ alerts \subseteq [job : Jobs, by : Workers, at : 0..MaxTime]
    /\ broken \subseteq Jobs
    /\ faults \in 0..MaxFaults

Init ==
    /\ Queue!JobsInit
    /\ now = 0 /\ captured = [f \in Frames |-> None]
    /\ breach = NoBreach
    /\ step = [w \in Workers |-> Idle]
    /\ partOf = [j \in Jobs |-> None]
    /\ alerts = {} /\ broken = {} /\ faults = 0

-----------------------------------------------------------------------------
(* Frames and workers.                                                     *)

\* The ingestion service publishes the next frame, for both groups.
Capture ==
    \E f \in Frames :
        /\ captured[f] = None /\ \A g \in Frames : g < f => captured[g] # None
        /\ captured' = [captured EXCEPT ![f] = now]
        /\ Queue!Publish({<<g, f>> : g \in Groups}, {})
        /\ UNCHANGED <<now, breach, step, partOf, alerts, broken, faults>>

\* process_frame_job finds the person in the zone.
Take(w) ==
    /\ \E j \in Jobs : j[1] = GroupOf[w] /\ Queue!Give(w, j)
    /\ step' = [step EXCEPT ![w] = Unasked("set")]
    /\ UNCHANGED <<now, captured, breach, partOf, alerts, broken, faults>>

-----------------------------------------------------------------------------
(* BreachTracker.register.                                                 *)

Alive == breach.by # None
Expiry(w) == now + Cooldown[GroupOf[w]]

\* The tracker's answer, and the breach it is about.
Told(w, new, of) ==
    /\ step' = [step EXCEPT ![w] = [at |-> "decided", new |-> new, of |-> of, when |-> now]]
    /\ partOf' = [partOf EXCEPT ![working[w]] = of]

\* SET NX EX. (Faulty: without NX.)
SetAnyway(w) ==
    /\ step[w].at = "set"
    /\ breach' = [by |-> working[w], until |-> Expiry(w)] /\ Told(w, TRUE, working[w])
    /\ UNCHANGED <<now, captured, queue, alerts, broken, faults>>

Set(w) ==
    /\ step[w].at = "set"
    /\ IF Alive
       THEN step' = [step EXCEPT ![w].at = "get"] /\ UNCHANGED <<breach, partOf>>
       ELSE breach' = [by |-> working[w], until |-> Expiry(w)] /\ Told(w, TRUE, working[w])
    /\ UNCHANGED <<now, captured, queue, alerts, broken, faults>>

Get(w) ==
    /\ step[w].at = "get"
    /\ step' = [step EXCEPT ![w].at = "expire", ![w].of = breach.by]
    /\ UNCHANGED <<now, captured, breach, queue, partOf, alerts, broken, faults>>

\* The window slides, for an ongoing breach.
Expire(w) ==
    /\ step[w].at = "expire"
    /\ breach' = IF Alive THEN [breach EXCEPT !.until = Expiry(w)] ELSE breach
    /\ IF step[w].of = None
       THEN step' = [step EXCEPT ![w].at = "refill"] /\ UNCHANGED partOf
       ELSE Told(w, FALSE, step[w].of)
    /\ UNCHANGED <<now, captured, queue, alerts, broken, faults>>

\* The key expired between SET and GET: a new breach after all. (Faulty: taken for
\* the old one.)
RefillAsOld(w) ==
    /\ step[w].at = "refill"
    /\ breach' = [by |-> working[w], until |-> Expiry(w)] /\ Told(w, FALSE, working[w])
    /\ UNCHANGED <<now, captured, queue, alerts, broken, faults>>

Refill(w) ==
    /\ step[w].at = "refill"
    /\ breach' = [by |-> working[w], until |-> Expiry(w)] /\ Told(w, TRUE, working[w])
    /\ UNCHANGED <<now, captured, queue, alerts, broken, faults>>

-----------------------------------------------------------------------------
(* The rest of process_frame_job.                                          *)

\* How long the person had been there, as the tracker tells: nothing if the breach
\* is new.
Dwell(j) == captured[j[2]] - captured[partOf[j][2]]

\* An intrusion is a new breach; loitering is one that is new and has lasted.
Raises(w) == LET j == working[w] IN step[w].new /\ (j[1] = "behavior" => Dwell(j) >= LoiterDwell)

\* conn.commit().
Commit(w) ==
    LET j == working[w]
    IN  /\ step[w].at = "decided" /\ Queue!Process(w)
        /\ step' = [step EXCEPT ![w] = Unasked("ack")]
        /\ alerts' = IF Raises(w) THEN alerts \cup {[job |-> j, by |-> w, at |-> step[w].when]} ELSE alerts
        /\ UNCHANGED <<now, captured, breach, partOf, broken, faults>>

Acknowledge(w) ==
    /\ step[w].at = "ack" /\ Queue!Settle(w)
    /\ step' = [step EXCEPT ![w] = Idle]
    /\ UNCHANGED <<now, captured, breach, partOf, alerts, broken, faults>>

\* It raises and the transaction is rolled back, the event cannot be pushed after
\* the commit, or the worker dies. What Redis was told stays. (Faulty: the step is
\* not reset.)
FailHalfway(w) ==
    /\ step[w].at # "idle" /\ faults < MaxFaults /\ faults' = faults + 1
    /\ Queue!GiveBack({w}) /\ UNCHANGED step
    /\ broken' = IF step[w].new THEN broken \cup {working[w]} ELSE broken
    /\ UNCHANGED <<now, captured, breach, partOf, alerts>>

Fail(w) ==
    /\ step[w].at # "idle" /\ faults < MaxFaults /\ faults' = faults + 1
    /\ Queue!GiveBack({w}) /\ step' = [step EXCEPT ![w] = Idle]
    /\ broken' = IF step[w].new THEN broken \cup {working[w]} ELSE broken
    /\ UNCHANGED <<now, captured, breach, partOf, alerts>>

\* The queue discards a frame.
Discard ==
    /\ faults < MaxFaults /\ faults' = faults + 1
    /\ \E j \in Jobs : job[j] = "open" /\ Queue!Discard({j}, {})
    /\ UNCHANGED <<now, captured, breach, step, partOf, alerts, broken>>

Tick ==
    /\ now < MaxTime /\ now' = now + 1
    /\ breach' = IF Alive /\ breach.until <= now' THEN NoBreach ELSE breach
    /\ UNCHANGED <<captured, queue, step, partOf, alerts, broken, faults>>

Worker(w) ==
    \/ Take(w) \/ Set(w) \/ Get(w) \/ Expire(w) \/ Refill(w)
    \/ Commit(w) \/ Acknowledge(w) \/ Fail(w)

Next == Capture \/ Discard \/ Tick \/ \E w \in Workers : Worker(w)

Spec == Init /\ [][Next]_vars

-----------------------------------------------------------------------------
(* Correctness.                                                            *)

Acknowledged(g) == {j \in Jobs : j[1] = g /\ job[j] = "acked"}
Alerted(j) == \E a \in alerts : a.job = j

\* dedup.py: a person who stays does not spam one alert per frame. Two intrusion
\* alerts of a zone are a cooldown apart, however frames are repeated and other
\* groups ask about the same zone. (With a second intrusion worker the key may
\* expire between one's SET and another's GET, and both are told of a new breach.)
AlertsApart == \A a, b \in alerts :
    a # b /\ a.job[1] = "intrusion" /\ b.job[1] = "intrusion" =>
        a.at + Cooldown["intrusion"] <= b.at \/ b.at + Cooldown["intrusion"] <= a.at

\* What is left of it however many intrusion workers there are: the alerts of each
\* are a cooldown apart.
ApartByWorker == \A a, b \in alerts :
    a # b /\ a.by = b.by /\ a.job[1] = "intrusion" =>
        a.at + Cooldown["intrusion"] <= b.at \/ b.at + Cooldown["intrusion"] <= a.at

\* An intrusion frame that was dealt with has an alert, its own or that of the frame
\* that began the breach, or gets it when the worker that was told so commits -
\* unless that frame's transaction failed after the tracker had been told, or the
\* breach was begun by the behaviour workers, who asked first.
AccountedFor == \A j \in Acknowledged("intrusion") :
    \E i \in {j, partOf[j]} :
        \/ Alerted(i) \/ \E w \in Workers : working[w] = i /\ step[w].new
        \/ i \in broken \/ i[1] = "behavior"

\* With one worker that looks for intrusions nobody is waited for: it has the alert
\* committed before it takes another frame.
MissingOnlyAfter == \A j \in Acknowledged("intrusion") :
    \E i \in {j, partOf[j]} : Alerted(i) \/ i \in broken \/ i[1] = "behavior"

\* behavior_task.py: "loitering: person foot-point stays in a restricted_zone for >
\* loitering_dwell_seconds" raises an alert.
LoiteringIsRaised == \A j \in Acknowledged("behavior") :
    Dwell(j) > LoiterDwell => \E a \in alerts : a.job[1] = "behavior"

=============================================================================
