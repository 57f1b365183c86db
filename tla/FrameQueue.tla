----------------------------- MODULE FrameQueue -----------------------------
(***************************************************************************)
(* One consumer group of the frame stream (worker/consumer.py): what is    *)
(* pending, whose it is, how often it was delivered and how long ago, and  *)
(* the workers that read, process and acknowledge it.                      *)
(*                                                                         *)
(* A worker claims what has been idle for too long, throws away what was   *)
(* delivered too often, reads its own pending frames again, and then new   *)
(* ones.  It crashes between any two steps and comes back under a new name;*)
(* processing may take longer than a frame may be idle; a frame may be     *)
(* poison, fail once, or have been trimmed from the stream; Redis may come *)
(* back empty.  Time is counted in ticks: what a worker does between two   *)
(* calls takes none.                                                       *)
(***************************************************************************)
EXTENDS Naturals, FiniteSets, FiniteSetsExt

CONSTANTS
    Workers,
    Nobody,         \* the owner of an entry whose consumer is gone
    NoFrame,
    MaxFrames,      \* bound: frames published
    Poison,         \* frames on which processing always fails
    MaxLen,         \* the stream's maxlen
    ReadCount,      \* own entries read at once
    IdleClaim,      \* IDLE_CLAIM_MS, in ticks
    Block,          \* how long a read waits for a new frame, in ticks
    MaxDeliveries,  \* MAX_DELIVERY_ATTEMPTS
    MaxBusy,        \* bound: ticks one frame may take
    MaxFails,       \* bound: failures of frames that are not poison
    MaxCrashes,     \* bound: workers that die
    MaxLosses       \* bound: times Redis comes back empty

Frames == 1..MaxFrames

ASSUME WorkersAssumption ==
    Nobody \notin Workers /\ NoFrame \notin Frames \cup Workers \cup {Nobody} /\ Poison \subseteq Frames
ASSUME BoundsAssumption ==
    /\ {MaxFrames, MaxLen, ReadCount, IdleClaim, Block, MaxDeliveries} \subseteq Nat \ {0}
    /\ {MaxBusy, MaxFails, MaxCrashes, MaxLosses} \subseteq Nat

VARIABLES
    \* Redis.
    top,        \* frames published so far
    stream,     \* those still in the stream
    group,      \* whether the consumer group exists
    last,       \* the last frame it delivered
    pel,        \* its pending entries: owner, deliveries (up to the limit), idle time
    \* The workers.
    worker,
    \* The database, and what became of each frame.
    done, fate,
    \* Bounds.
    fails, crashes, losses

redis == <<top, stream, group, last, pel>>
bounds == <<fails, crashes, losses>>
vars == <<top, stream, group, last, pel, worker, done, fate, fails, crashes, losses>>

Unowned == [owner |-> NoFrame, count |-> 0, idle |-> 0]
Off == [at |-> "off", frame |-> NoFrame, body |-> FALSE, clock |-> 0, failed |-> {}]

\* Idle times and clocks matter up to the limit, and so do deliveries.
Times == 0 .. IdleClaim + 1
MaxClock == IF Block > MaxBusy THEN Block ELSE MaxBusy
Aged(t) == IF t > IdleClaim THEN t ELSE t + 1
Counted(n) == IF n < MaxDeliveries THEN n + 1 ELSE n

TypeOK ==
    /\ top \in 0..MaxFrames /\ stream \subseteq Frames /\ group \in BOOLEAN /\ last \in 0..MaxFrames
    /\ pel \in [Frames -> [owner : Workers \cup {Nobody, NoFrame}, count : 0..MaxDeliveries, idle : Times]]
    /\ worker \in [Workers -> [at : {"off", "loop", "read", "block", "busy", "ack"}, frame : Frames \cup {NoFrame},
                               body : BOOLEAN, clock : 0..MaxClock, failed : SUBSET Frames]]
    /\ done \subseteq Frames
    /\ fate \in [Frames -> {"none", "open", "acked", "dropped"}]
    /\ fails \in 0..MaxFails /\ crashes \in 0..MaxCrashes /\ losses \in 0..MaxLosses

Init ==
    /\ top = 0 /\ stream = {} /\ group = TRUE /\ last = 0
    /\ pel = [f \in Frames |-> Unowned]
    /\ worker = [w \in Workers |-> Off]
    /\ done = {} /\ fate = [f \in Frames |-> "none"]
    /\ fails = 0 /\ crashes = 0 /\ losses = 0

Pending == {f \in Frames : pel[f].owner # NoFrame}
Own(w)  == {f \in Frames : pel[f].owner = w}
Unread  == {f \in stream : f > last}

\* The n oldest of a set of frames.
Oldest(n, S) == {f \in S : Cardinality({g \in S : g < f}) < n}

At(w, place) == worker[w].at = place
GoTo(w, place) == worker' = [worker EXCEPT ![w].at = place, ![w].frame = NoFrame, ![w].body = FALSE, ![w].clock = 0]

Drop(S) == fate' = [f \in Frames |-> IF f \in S /\ fate[f] = "open" THEN "dropped" ELSE fate[f]]

-----------------------------------------------------------------------------
(* The ingestion service.                                                  *)

\* xadd with an approximate maxlen: Redis trims when it is convenient.
Publish ==
    LET f == top + 1
        full == stream \cup {f}
    IN  /\ f \in Frames /\ top' = f
        /\ \E trimmed \in {{}} \cup (IF Cardinality(full) > MaxLen THEN {{Min(full)}} ELSE {}) :
             /\ stream' = full \ trimmed
             /\ fate' = [g \in Frames |-> IF g = f THEN "open"
                                          ELSE IF g \in trimmed \cap Unread /\ fate[g] = "open" THEN "dropped"
                                          ELSE fate[g]]
        /\ UNCHANGED <<group, last, pel, worker, done, bounds>>

-----------------------------------------------------------------------------
(* The consumer loop.                                                      *)

\* A process starts under a new name, and creates the group if there is none.
Start(w) ==
    /\ At(w, "off") /\ GoTo(w, "loop")
    /\ group' = TRUE /\ last' = IF group THEN last ELSE 0
    /\ UNCHANGED <<top, stream, pel, done, fate, bounds>>

\* Its entries stay behind, under the name it had. (Faulty: they are deleted with
\* the consumer.)
DisownedDeleted(w) == [f \in Frames |-> IF pel[f].owner = w THEN Unowned ELSE pel[f]]

Disowned(w) == [f \in Frames |-> IF pel[f].owner = w THEN [pel[f] EXCEPT !.owner = Nobody] ELSE pel[f]]

Crash(w) ==
    /\ ~At(w, "off") /\ crashes < MaxCrashes /\ crashes' = crashes + 1
    /\ worker' = [worker EXCEPT ![w] = Off] /\ pel' = Disowned(w)
    /\ UNCHANGED <<top, stream, group, last, done, fate, fails, losses>>

\* claim_stale_messages: what nobody has looked at for too long.
\* (Faulty: any pending frame may be claimed.)
StaleOrNot == Pending

Stale == {f \in Pending : pel[f].idle > IdleClaim}
Dead  == {f \in Stale : pel[f].count >= MaxDeliveries}

\* A claimed frame that was trimmed is dropped from the pending list by Redis.
Claim(w) ==
    LET mine == (Stale \ Dead) \cap stream
        gone == Dead \cup (Stale \ stream)
    IN  /\ At(w, "loop") /\ group /\ GoTo(w, "read")
        /\ pel' = [f \in Frames |-> IF f \in gone THEN Unowned
                                    ELSE IF f \in mine THEN [owner |-> w, count |-> Counted(pel[f].count), idle |-> 0]
                                    ELSE pel[f]]
        /\ Drop(gone)
        /\ UNCHANGED <<top, stream, group, last, done, bounds>>

\* xpending_range on a group that is gone raises, outside the try: the process ends.
ClaimNothing(w) ==
    /\ At(w, "loop") /\ ~group
    /\ worker' = [worker EXCEPT ![w] = Off]
    /\ UNCHANGED <<redis, done, fate, bounds>>

Begin(w, f) ==
    worker' = [worker EXCEPT ![w].at = "busy", ![w].frame = f, ![w].body = f \in stream, ![w].clock = 0]

\* A new frame is delivered to w; p is the pending list so far.
Receive(w, p) ==
    LET f == Min(Unread)
    IN  /\ last' = f /\ pel' = [p EXCEPT ![f] = [owner |-> w, count |-> 1, idle |-> 0]]
        /\ Begin(w, f)

\* Reading the own pending list delivers its entries again.
Reread(w) == [f \in Frames |-> IF f \in Oldest(ReadCount, Own(w))
                               THEN [pel[f] EXCEPT !.count = Counted(@), !.idle = 0] ELSE pel[f]]

\* Own entries that did not fail in this process come first, then a new frame, then
\* the wait for one. (Faulty: failures are not remembered.)
ToRetryForgetful(w) == Oldest(ReadCount, Own(w))

ToRetry(w) == Oldest(ReadCount, Own(w)) \ worker[w].failed

Read(w) ==
    /\ At(w, "read") /\ group
    /\ IF ToRetry(w) # {} THEN Begin(w, Min(ToRetry(w))) /\ pel' = Reread(w) /\ UNCHANGED last
       ELSE IF Unread # {} THEN Receive(w, Reread(w))
       ELSE GoTo(w, "block") /\ pel' = Reread(w) /\ UNCHANGED last
    /\ UNCHANGED <<top, stream, group, done, fate, bounds>>

\* NOGROUP here is caught: the group is created again.
ReadNothing(w) ==
    /\ At(w, "read") /\ ~group /\ GoTo(w, "loop")
    /\ group' = TRUE /\ last' = 0
    /\ UNCHANGED <<top, stream, pel, done, fate, bounds>>

Wake(w) ==
    /\ At(w, "block")
    /\ IF Unread # {} THEN Receive(w, pel)
       ELSE worker[w].clock >= Block /\ GoTo(w, "loop") /\ UNCHANGED <<last, pel>>
    /\ UNCHANGED <<top, stream, group, done, fate, bounds>>

\* process_fn: its transaction commits, or it raises. A frame trimmed before it was
\* read has no fields and cannot even be parsed.
Hopeless(w) == worker[w].frame \in Poison \/ ~worker[w].body

Process(w) ==
    /\ At(w, "busy") /\ ~Hopeless(w)
    /\ done' = done \cup {worker[w].frame}
    /\ worker' = [worker EXCEPT ![w].at = "ack"]
    /\ UNCHANGED <<redis, fate, bounds>>

Failed(w) == worker' = [worker EXCEPT ![w].at = "loop", ![w].frame = NoFrame, ![w].body = FALSE, ![w].clock = 0,
                                      ![w].failed = @ \cup {worker[w].frame}]

\* (Faulty: acknowledged in the finally.)
FailAcknowledged(w) ==
    /\ At(w, "busy") /\ Failed(w)
    /\ pel' = [pel EXCEPT ![worker[w].frame] = Unowned]
    /\ fate' = [fate EXCEPT ![worker[w].frame] = IF @ = "open" THEN "acked" ELSE @]
    /\ IF Hopeless(w) THEN UNCHANGED fails ELSE fails < MaxFails /\ fails' = fails + 1
    /\ UNCHANGED <<top, stream, group, last, done, crashes, losses>>

Fail(w) ==
    /\ At(w, "busy") /\ Failed(w)
    /\ IF Hopeless(w) THEN UNCHANGED fails ELSE fails < MaxFails /\ fails' = fails + 1
    /\ UNCHANGED <<redis, done, fate, crashes, losses>>

\* XACK takes the entry off the list, whoever owns it by now.
Acknowledge(w) ==
    LET f == worker[w].frame
    IN  /\ At(w, "ack")
        /\ worker' = [worker EXCEPT ![w] = [Off EXCEPT !.at = "loop", !.failed = worker[w].failed \ {f}]]
        /\ pel' = [pel EXCEPT ![f] = Unowned]
        /\ fate' = [fate EXCEPT ![f] = IF @ = "open" THEN "acked" ELSE @]
        /\ UNCHANGED <<top, stream, group, last, done, bounds>>

-----------------------------------------------------------------------------
(* The world.                                                              *)

\* Redis comes back empty; a connection that was waiting breaks, and its process ends.
LoseStream ==
    /\ losses < MaxLosses /\ losses' = losses + 1
    /\ stream' = {} /\ group' = FALSE /\ last' = 0
    /\ pel' = [f \in Frames |-> Unowned] /\ Drop(Frames)
    /\ worker' = [w \in Workers |-> IF At(w, "block") THEN Off ELSE worker[w]]
    /\ UNCHANGED <<top, done, fails, crashes>>

\* Only waiting, processing and being down take time. (Faulty: a read for a new
\* frame never times out.)
WaitsForEver(w) ==
    \/ At(w, "off")
    \/ At(w, "block") /\ Unread = {}
    \/ At(w, "busy") /\ worker[w].clock < MaxBusy

Waits(w) ==
    \/ At(w, "off")
    \/ At(w, "block") /\ Unread = {} /\ worker[w].clock < Block
    \/ At(w, "busy") /\ worker[w].clock < MaxBusy

Tick ==
    /\ \A w \in Workers : Waits(w)
    /\ pel' = [f \in Frames |-> IF f \in Pending THEN [pel[f] EXCEPT !.idle = Aged(@)] ELSE pel[f]]
    /\ worker' = [w \in Workers |-> IF At(w, "off") THEN worker[w] ELSE [worker[w] EXCEPT !.clock = @ + 1]]
    /\ UNCHANGED <<top, stream, group, last, done, fate, bounds>>

Loop(w) ==
    \/ Start(w) \/ Claim(w) \/ ClaimNothing(w) \/ Read(w) \/ ReadNothing(w) \/ Wake(w)
    \/ Process(w) \/ Fail(w) \/ Acknowledge(w)

Next ==
    \/ Publish \/ LoseStream \/ Tick
    \/ \E w \in Workers : Loop(w) \/ Crash(w)

Spec == Init /\ [][Next]_vars

\* Workers run, and are started again by their supervisor; time passes.
FairSpec == Spec /\ WF_vars(Tick) /\ \A w \in Workers : WF_vars(Loop(w))

-----------------------------------------------------------------------------
(* Correctness.                                                            *)

\* What the group promises: see FrameJobs.
Jobs == INSTANCE FrameJobs WITH
    Jobs <- Frames, NoJob <- NoFrame, job <- fate, done <- done, working <- [w \in Workers |-> worker[w].frame]

ImplementsFrameJobs == Jobs!JobsSpec

\* Two workers process the same frame at the same time only if one of them has had
\* it for longer than a frame may be idle (or it was lost meanwhile).
TwoAtOnceOnlyIfSlow == \A v, w \in Workers :
    v # w /\ At(v, "busy") /\ At(w, "busy") /\ worker[v].frame = worker[w].frame =>
        worker[v].clock > IdleClaim \/ worker[w].clock > IdleClaim

\* A frame that was delivered and not settled is in the pending list: an entry is
\* never lost between a claim, a failure and a crash.
DeliveredIsPending == \A f \in Frames : fate[f] = "open" => f \in Pending \cup Unread

\* Every frame that nothing is wrong with is settled, poison or not beside it,
\* though workers die in the middle.
EveryFrameSettles == \A f \in Frames :
    fate[f] = "open" ~> fate[f] # "open" \/ \E w \in Workers : f \in worker[w].failed

\* consumer.py: failed frames are skipped "so they can age out and hit the
\* MAX_DELIVERY_ATTEMPTS guard". It does not hold: every look at the pending list
\* makes them young again.
PoisonAgesOut == \A f \in Poison : fate[f] = "open" ~> fate[f] # "open"

=============================================================================
