--------------------------- MODULE FrameQueueProofs ---------------------------
(* Proofs about FrameQueue, for every value of its constants.               *)
EXTENDS FrameQueue, FiniteSetTheorems, WellFoundedInduction, TLAPS

LEMMA ConstantTypes ==
    /\ MaxFrames \in Nat /\ MaxFrames >= 1 /\ MaxLen \in Nat /\ MaxLen >= 1
    /\ ReadCount \in Nat /\ IdleClaim \in Nat /\ Block \in Nat /\ MaxDeliveries \in Nat /\ MaxDeliveries >= 1
    /\ MaxBusy \in Nat /\ MaxFails \in Nat /\ MaxCrashes \in Nat /\ MaxLosses \in Nat
    /\ Nobody \notin Workers /\ NoFrame \notin Frames /\ NoFrame \notin Workers /\ Nobody # NoFrame
    /\ MaxClock \in Nat /\ Block <= MaxClock /\ MaxBusy <= MaxClock
    /\ Frames \subseteq Nat /\ Frames \subseteq Int
BY WorkersAssumption, BoundsAssumption DEF MaxClock, Frames

\* The oldest of some frames is one of them, and none is older.
LEMMA OldestFrame ==
    ASSUME NEW S \in SUBSET Frames, S # {}
    PROVE  Min(S) \in S /\ \A g \in S : Min(S) <= g
<1>1. S \subseteq Nat
  BY ConstantTypes
<1>2. PICK x \in S : \A y \in S : ~(<<y, x>> \in OpToRel(<, Nat))
  BY <1>1, NatLessThanWellFounded, WFMin
<1>3. OpToRel(<, Nat) = {ss \in Nat \X Nat : ss[1] < ss[2]}
  BY Zenon DEF OpToRel
<1>4. ASSUME NEW y \in S PROVE x <= y
  <2>1. x \in Nat /\ y \in Nat /\ <<y, x>> \in Nat \X Nat /\ <<y, x>>[1] = y /\ <<y, x>>[2] = x
    BY <1>1
  <2>2. ~(y < x)
    BY <1>2, <1>3, <2>1, Zenon
  <2> QED  BY <2>1, <2>2
<1>5. \A y \in S : x <= y
  BY <1>4
<1> QED  BY <1>5 DEF Min

-----------------------------------------------------------------------------
(* Types.                                                                   *)

Entry == [owner : Workers \cup {Nobody, NoFrame}, count : 0..MaxDeliveries, idle : Times]

WorkerState == [at : {"off", "loop", "read", "block", "busy", "ack"}, frame : Frames \cup {NoFrame},
                body : BOOLEAN, clock : 0..MaxClock, failed : SUBSET Frames]

Standings == {"none", "open", "acked", "dropped"}

Typed ==
    /\ top \in 0..MaxFrames /\ stream \in SUBSET Frames /\ group \in BOOLEAN /\ last \in 0..MaxFrames
    /\ pel \in [Frames -> Entry]
    /\ worker \in [Workers -> WorkerState]
    /\ done \in SUBSET Frames
    /\ fate \in [Frames -> Standings]
    /\ fails \in 0..MaxFails /\ crashes \in 0..MaxCrashes /\ losses \in 0..MaxLosses

LEMMA TypedIsTypeOK == /\ TypeOK <=> Typed
                       /\ TypeOK' <=> Typed'
BY DEF TypeOK, Typed, Entry, WorkerState, Standings

LEMMA OffType ==
    /\ Off \in WorkerState /\ Off.at = "off" /\ Off.frame = NoFrame /\ Off.clock = 0 /\ Off.failed = {}
    /\ Unowned \in Entry /\ Unowned.owner = NoFrame
<1> USE ConstantTypes
<1>1. 0 \in 0..MaxClock /\ 0 \in Times /\ 0 \in 0..MaxDeliveries
  BY DEF Times
<1>2. Off \in WorkerState
  BY <1>1 DEF Off, WorkerState
<1>3. Off.at = "off" /\ Off.frame = NoFrame /\ Off.clock = 0 /\ Off.failed = {}
  BY DEF Off
<1> QED  BY <1>1, <1>2, <1>3 DEF Unowned, Entry

\* What becomes of an entry that is delivered once more, disowned, or grows older.
LEMMA EntryTypes ==
    ASSUME NEW e \in Entry
    PROVE  /\ [e EXCEPT !.count = Counted(e.count), !.idle = 0] \in Entry
           /\ [e EXCEPT !.owner = Nobody] \in Entry
           /\ [e EXCEPT !.idle = Aged(e.idle)] \in Entry
           /\ \A w \in Workers : [owner |-> w, count |-> Counted(e.count), idle |-> 0] \in Entry
           /\ \A w \in Workers : [owner |-> w, count |-> 1, idle |-> 0] \in Entry
<1> USE ConstantTypes
<1>1. /\ 0 \in Times /\ Aged(e.idle) \in Times
      /\ Counted(e.count) \in 0..MaxDeliveries /\ 1 \in 0..MaxDeliveries
  BY DEF Entry, Times, Aged, Counted
<1> QED  BY <1>1 DEF Entry

\* What becomes of a worker in each kind of step.
LEMMA WorkerTypes ==
    ASSUME NEW a \in WorkerState
    PROVE  /\ \A place \in {"loop", "read", "block"} :
                [a EXCEPT !.at = place, !.frame = NoFrame, !.body = FALSE, !.clock = 0] \in WorkerState
           /\ \A f \in Frames, body \in BOOLEAN :
                [a EXCEPT !.at = "busy", !.frame = f, !.body = body, !.clock = 0] \in WorkerState
           /\ [a EXCEPT !.at = "ack"] \in WorkerState
           /\ \A S \in SUBSET Frames : [a EXCEPT !.at = "loop", !.frame = NoFrame, !.body = FALSE,
                                                 !.clock = 0, !.failed = S] \in WorkerState
           /\ \A S \in SUBSET Frames : [a EXCEPT !.at = "loop", !.failed = S] \in WorkerState
           /\ \A n \in 0..MaxClock : [a EXCEPT !.clock = n] \in WorkerState
<1>0. 0 \in 0..MaxClock
  BY ConstantTypes
<1>1. \A place \in {"loop", "read", "block"} :
        [a EXCEPT !.at = place, !.frame = NoFrame, !.body = FALSE, !.clock = 0] \in WorkerState
  BY <1>0, Zenon DEF WorkerState
<1>2. \A f \in Frames, body \in BOOLEAN :
        [a EXCEPT !.at = "busy", !.frame = f, !.body = body, !.clock = 0] \in WorkerState
  BY <1>0, Zenon DEF WorkerState
<1>3. [a EXCEPT !.at = "ack"] \in WorkerState
  BY Zenon DEF WorkerState
<1>4. \A S \in SUBSET Frames : [a EXCEPT !.at = "loop", !.frame = NoFrame, !.body = FALSE,
                                         !.clock = 0, !.failed = S] \in WorkerState
  BY <1>0, Zenon DEF WorkerState
<1>5. \A S \in SUBSET Frames : [a EXCEPT !.at = "loop", !.failed = S] \in WorkerState
  BY Zenon DEF WorkerState
<1>6. \A n \in 0..MaxClock : [a EXCEPT !.clock = n] \in WorkerState
  BY Zenon DEF WorkerState
<1> QED  BY <1>1, <1>2, <1>3, <1>4, <1>5, <1>6

\* The steps of a worker: it leaves no frame in hand, takes one, goes on with the
\* one it has, or only grows older.
Rests(w, place) == worker'[w].at = place /\ worker'[w].frame = NoFrame
Takes(w, f) == worker'[w].at = "busy" /\ worker'[w].frame = f /\ worker'[w].clock = 0
Others(w) == \A v \in Workers \ {w} : worker'[v] = worker[v]

LEMMA Moves ==
    ASSUME worker \in [Workers -> WorkerState], NEW w \in Workers
    PROVE  /\ \A place \in {"loop", "read", "block"} : GoTo(w, place) =>
                worker' \in [Workers -> WorkerState] /\ Rests(w, place) /\ Others(w)
           /\ \A f \in Frames : Begin(w, f) =>
                worker' \in [Workers -> WorkerState] /\ Takes(w, f) /\ Others(w)
           /\ worker' = [worker EXCEPT ![w] = Off] =>
                worker' \in [Workers -> WorkerState] /\ Rests(w, "off") /\ Others(w)
           /\ worker' = [worker EXCEPT ![w].at = "ack"] =>
                /\ worker' \in [Workers -> WorkerState] /\ Others(w)
                /\ worker'[w].at = "ack" /\ worker'[w].frame = worker[w].frame
           /\ Failed(w) /\ worker[w].frame \in Frames =>
                worker' \in [Workers -> WorkerState] /\ Rests(w, "loop") /\ Others(w)
           /\ \A f : worker' = [worker EXCEPT ![w] = [Off EXCEPT !.at = "loop", !.failed = worker[w].failed \ {f}]] =>
                worker' \in [Workers -> WorkerState] /\ Rests(w, "loop") /\ Others(w)
<1>0. worker[w] \in WorkerState /\ worker[w].failed \in SUBSET Frames
  BY DEF WorkerState
<1>1. ASSUME NEW r \in WorkerState, worker' = [worker EXCEPT ![w] = r]
      PROVE  worker' \in [Workers -> WorkerState] /\ worker'[w] = r /\ Others(w)
  BY <1>1 DEF Others
<1>2. ASSUME NEW place \in {"loop", "read", "block"}, GoTo(w, place)
      PROVE  worker' \in [Workers -> WorkerState] /\ Rests(w, place) /\ Others(w)
  <2> DEFINE r == [worker[w] EXCEPT !.at = place, !.frame = NoFrame, !.body = FALSE, !.clock = 0]
  <2>1. r \in WorkerState
    BY <1>0, WorkerTypes
  <2>1a. r.at = place /\ r.frame = NoFrame
    BY <1>0 DEF WorkerState
  <2>2. worker' = [worker EXCEPT ![w] = r]
    BY <1>2, Zenon DEF GoTo
  <2> HIDE DEF r
  <2> QED  BY <1>1, <2>1, <2>2, <2>1a DEF Rests
<1>3. ASSUME NEW f \in Frames, Begin(w, f)
      PROVE  worker' \in [Workers -> WorkerState] /\ Takes(w, f) /\ Others(w)
  <2> DEFINE b == f \in stream
             r == [worker[w] EXCEPT !.at = "busy", !.frame = f, !.body = b, !.clock = 0]
  <2>1. b \in BOOLEAN
    OBVIOUS
  <2>2. worker' = [worker EXCEPT ![w] = r]
    BY <1>3, Zenon DEF Begin
  <2> HIDE DEF b
  <2>3. r \in WorkerState
    BY <1>0, <2>1, WorkerTypes
  <2>3a. r.at = "busy" /\ r.frame = f /\ r.clock = 0
    BY <1>0 DEF WorkerState
  <2> HIDE DEF r
  <2> QED  BY <1>1, <2>2, <2>3, <2>3a DEF Takes
<1>4. ASSUME worker' = [worker EXCEPT ![w] = Off]
      PROVE  worker' \in [Workers -> WorkerState] /\ Rests(w, "off") /\ Others(w)
  BY <1>1, <1>4, OffType DEF Rests
<1>5. ASSUME worker' = [worker EXCEPT ![w].at = "ack"]
      PROVE  /\ worker' \in [Workers -> WorkerState] /\ Others(w)
             /\ worker'[w].at = "ack" /\ worker'[w].frame = worker[w].frame
  <2> DEFINE r == [worker[w] EXCEPT !.at = "ack"]
  <2>1. r \in WorkerState
    BY <1>0, WorkerTypes
  <2>1a. r.at = "ack" /\ r.frame = worker[w].frame
    BY <1>0 DEF WorkerState
  <2>2. worker' = [worker EXCEPT ![w] = r]
    BY <1>5, Zenon
  <2> HIDE DEF r
  <2> QED  BY <1>1, <2>1, <2>2, <2>1a
<1>6. ASSUME Failed(w), worker[w].frame \in Frames
      PROVE  worker' \in [Workers -> WorkerState] /\ Rests(w, "loop") /\ Others(w)
  <2> DEFINE S == worker[w].failed \cup {worker[w].frame}
             r == [worker[w] EXCEPT !.at = "loop", !.frame = NoFrame, !.body = FALSE, !.clock = 0, !.failed = S]
  <2>1. S \in SUBSET Frames
    BY <1>0, <1>6
  <2>2. worker' = [worker EXCEPT ![w] = r]
    BY <1>6, Zenon DEF Failed
  <2> HIDE DEF S
  <2>3. r \in WorkerState
    BY <1>0, <2>1, WorkerTypes
  <2>3a. r.at = "loop" /\ r.frame = NoFrame
    BY <1>0 DEF WorkerState
  <2> HIDE DEF r
  <2> QED  BY <1>1, <2>2, <2>3, <2>3a DEF Rests
<1>7. ASSUME NEW f, worker' = [worker EXCEPT ![w] = [Off EXCEPT !.at = "loop", !.failed = worker[w].failed \ {f}]]
      PROVE  worker' \in [Workers -> WorkerState] /\ Rests(w, "loop") /\ Others(w)
  <2> DEFINE S == worker[w].failed \ {f}
             r == [Off EXCEPT !.at = "loop", !.failed = S]
  <2>1. S \in SUBSET Frames
    BY <1>0
  <2>2. worker' = [worker EXCEPT ![w] = r]
    BY <1>7
  <2> HIDE DEF S
  <2>3. r \in WorkerState
    BY <2>1, OffType, WorkerTypes
  <2>3a. r.at = "loop" /\ r.frame = NoFrame
    BY OffType DEF WorkerState
  <2> HIDE DEF r
  <2> QED  BY <1>1, <2>2, <2>3, <2>3a DEF Rests
<1> QED  BY <1>2, <1>3, <1>4, <1>5, <1>6, <1>7

LEMMA TypeInit == Init => Typed
<1> SUFFICES ASSUME Init PROVE Typed
  OBVIOUS
<1> QED  BY OffType, ConstantTypes DEF Init, Typed, Standings

\* Every frame has an entry, if none that is owned: so have those a step touches.
LEMMA PendingTypes ==
    ASSUME Typed
    PROVE  /\ \A w \in Workers : Disowned(w) \in [Frames -> Entry] /\ Reread(w) \in [Frames -> Entry]
           /\ \A p \in [Frames -> Entry], f \in Frames, w \in Workers :
                [p EXCEPT ![f] = [owner |-> w, count |-> 1, idle |-> 0]] \in [Frames -> Entry]
           /\ \A f \in Frames : [pel EXCEPT ![f] = Unowned] \in [Frames -> Entry]
           /\ Unread \in SUBSET Frames /\ (Unread # {} => Min(Unread) \in Unread)
           /\ \A w \in Workers : /\ Oldest(ReadCount, Own(w)) \in SUBSET Frames /\ ToRetry(w) \subseteq Own(w)
                                 /\ ToRetry(w) # {} => Min(ToRetry(w)) \in ToRetry(w)
<1>1. ASSUME NEW f \in Frames
      PROVE  /\ pel[f] \in Entry /\ [pel[f] EXCEPT !.owner = Nobody] \in Entry
             /\ [pel[f] EXCEPT !.count = Counted(pel[f].count), !.idle = 0] \in Entry
  BY EntryTypes DEF Typed
<1>2. \A w \in Workers : Disowned(w) \in [Frames -> Entry]
  BY <1>1 DEF Disowned
<1>3. \A w \in Workers : Reread(w) \in [Frames -> Entry]
  BY <1>1 DEF Reread
<1>4. \A w \in Workers : [owner |-> w, count |-> 1, idle |-> 0] \in Entry
  BY OffType, EntryTypes
<1>5. \A p \in [Frames -> Entry], f \in Frames, w \in Workers :
        [p EXCEPT ![f] = [owner |-> w, count |-> 1, idle |-> 0]] \in [Frames -> Entry]
  BY <1>4
<1>6. \A f \in Frames : [pel EXCEPT ![f] = Unowned] \in [Frames -> Entry]
  BY OffType DEF Typed
<1>7. Unread \in SUBSET Frames /\ (Unread # {} => Min(Unread) \in Unread)
  <2>1. Unread \in SUBSET Frames
    BY DEF Typed, Unread
  <2> QED  BY <2>1, OldestFrame
<1>8. ASSUME NEW w \in Workers
      PROVE  /\ Oldest(ReadCount, Own(w)) \in SUBSET Frames /\ ToRetry(w) \subseteq Own(w)
             /\ ToRetry(w) # {} => Min(ToRetry(w)) \in ToRetry(w)
  <2>1. Oldest(ReadCount, Own(w)) \in SUBSET Frames /\ Oldest(ReadCount, Own(w)) \subseteq Own(w)
    BY DEF Oldest, Own
  <2>2. ToRetry(w) \in SUBSET Frames /\ ToRetry(w) \subseteq Own(w)
    BY <2>1 DEF ToRetry
  <2> QED  BY <2>1, <2>2, OldestFrame
<1> QED  BY <1>2, <1>3, <1>5, <1>6, <1>7, <1>8

\* What a frame may become when some are dropped.
LEMMA DropType ==
    ASSUME Typed, NEW S, Drop(S)
    PROVE  fate' \in [Frames -> Standings]
BY DEF Typed, Drop, Standings

\* The frame in hand is one when there is one.
Placed(w) ==
    /\ worker[w].at \in {"busy", "ack"} <=> worker[w].frame # NoFrame
    /\ At(w, "ack") => worker[w].frame \in done
    /\ At(w, "block") => group

LEMMA ReceiveTypes ==
    ASSUME Typed, NEW w \in Workers, NEW p \in [Frames -> Entry], Unread # {}, Receive(w, p)
    PROVE  /\ last' \in Unread /\ last' = Min(Unread) /\ Unread \subseteq Frames /\ pel' \in [Frames -> Entry]
           /\ pel'[last'].owner = w /\ pel'[last'].idle = 0
           /\ \A f \in Frames \ {last'} : pel'[f] = p[f]
           /\ worker' \in [Workers -> WorkerState] /\ Takes(w, last') /\ Others(w)
<1>1. /\ Min(Unread) \in Unread /\ Unread \subseteq Frames /\ last' = Min(Unread) /\ Begin(w, Min(Unread))
      /\ pel' = [p EXCEPT ![Min(Unread)] = [owner |-> w, count |-> 1, idle |-> 0]]
  BY PendingTypes DEF Receive
<1>2. pel' \in [Frames -> Entry]
  BY <1>1, PendingTypes
<1>3. worker' \in [Workers -> WorkerState] /\ Takes(w, Min(Unread)) /\ Others(w)
  BY <1>1, Moves DEF Typed
<1> QED  BY <1>1, <1>2, <1>3

LEMMA TypeStep ==
    ASSUME Typed, \A w \in Workers : Placed(w), [Next]_vars
    PROVE  Typed'
<1> USE ConstantTypes
<1>0. last \in 0..MaxFrames /\ Frames \subseteq 0..MaxFrames
  BY DEF Typed, Frames
<1>1. CASE Publish
  <2>1. top' = top + 1 /\ top' \in Frames /\ UNCHANGED <<group, last, pel, worker, done, bounds>>
    BY <1>1 DEF Publish
  <2>2. PICK trimmed : stream' = (stream \cup {top + 1}) \ trimmed
                       /\ fate' = [g \in Frames |-> IF g = top + 1 THEN "open"
                                          ELSE IF g \in trimmed \cap Unread /\ fate[g] = "open" THEN "dropped"
                                          ELSE fate[g]]
    BY <1>1 DEF Publish
  <2>3. stream' \in SUBSET Frames /\ fate' \in [Frames -> Standings]
    BY <2>1, <2>2 DEF Typed, Standings
  <2> QED  BY <1>0, <2>1, <2>3 DEF Typed, bounds
<1>2. CASE LoseStream
  <2>1. worker' \in [Workers -> WorkerState]
    BY <1>2, OffType DEF LoseStream, Typed
  <2>2. pel' \in [Frames -> Entry] /\ fate' \in [Frames -> Standings]
    BY <1>2, OffType, DropType DEF LoseStream
  <2>3. group' \in BOOLEAN
    BY <1>2, Zenon DEF LoseStream
  <2>4. last' \in 0..MaxFrames /\ stream' \in SUBSET Frames /\ losses' \in 0..MaxLosses
        /\ UNCHANGED <<top, done, fails, crashes>>
    BY <1>2 DEF LoseStream, Typed
  <2> QED  BY <2>1, <2>2, <2>3, <2>4 DEF Typed
<1>3. CASE Tick
  <2>1. pel' \in [Frames -> Entry]
    <3>1. ASSUME NEW f \in Frames PROVE pel[f] \in Entry /\ [pel[f] EXCEPT !.idle = Aged(pel[f].idle)] \in Entry
      BY EntryTypes DEF Typed
    <3> QED  BY <1>3, <3>1 DEF Tick
  <2>2. worker' \in [Workers -> WorkerState]
    <3>1. ASSUME NEW w \in Workers, ~At(w, "off")
          PROVE  worker[w] \in WorkerState /\ [worker[w] EXCEPT !.clock = worker[w].clock + 1] \in WorkerState
      <4>1. worker[w].clock + 1 \in 0..MaxClock
        BY <1>3, <3>1 DEF Tick, Waits, Typed, WorkerState
      <4> QED  BY <4>1, WorkerTypes DEF Typed
    <3>2. \A w \in Workers : worker[w] \in WorkerState
      BY DEF Typed
    <3> QED  BY <1>3, <3>1, <3>2 DEF Tick
  <2> QED  BY <1>3, <2>1, <2>2 DEF Tick, Typed, bounds
<1>4. ASSUME NEW w \in Workers, Start(w) \/ ReadNothing(w) \/ ClaimNothing(w) PROVE Typed'
  <2>1. worker' \in [Workers -> WorkerState]
    BY <1>4, Moves DEF Start, ReadNothing, ClaimNothing, Typed
  <2>2. group' = group \/ group' = TRUE
    BY <1>4 DEF Start, ReadNothing, ClaimNothing, redis
  <2>3. last' = last \/ last' = 0
    BY <1>4 DEF Start, ReadNothing, ClaimNothing, redis
  <2>4. UNCHANGED <<top, stream, pel, done, fate, bounds>>
    BY <1>4 DEF Start, ReadNothing, ClaimNothing, redis
  <2>5. group' \in BOOLEAN
    BY <2>2, Zenon DEF Typed
  <2>6. last' \in 0..MaxFrames
    BY <1>0, <2>3
  <2> QED  BY <2>1, <2>4, <2>5, <2>6 DEF Typed, bounds
<1>5. ASSUME NEW w \in Workers, Crash(w) PROVE Typed'
  <2>1. worker' \in [Workers -> WorkerState] /\ pel' \in [Frames -> Entry]
    BY <1>5, Moves, PendingTypes DEF Crash, Typed
  <2> QED  BY <1>5, <2>1 DEF Crash, Typed
<1>6. ASSUME NEW w \in Workers, Claim(w) PROVE Typed'
  <2>1. worker' \in [Workers -> WorkerState] /\ fate' \in [Frames -> Standings]
    BY <1>6, Moves, DropType DEF Claim, Typed
  <2>2. pel' \in [Frames -> Entry]
    <3>1. \A f \in Frames : pel[f] \in Entry /\ [owner |-> w, count |-> Counted(pel[f].count), idle |-> 0] \in Entry
      BY EntryTypes DEF Typed
    <3> QED  BY <1>6, <3>1, OffType DEF Claim
  <2> QED  BY <1>6, <2>1, <2>2 DEF Claim, Typed, bounds
<1>7. ASSUME NEW w \in Workers, Read(w) PROVE Typed'
  <2>1. UNCHANGED <<top, stream, group, done, fate, bounds>>
    BY <1>7 DEF Read
  <2>2. Reread(w) \in [Frames -> Entry]
    BY PendingTypes
  <2>3. CASE ToRetry(w) # {}
    <3>1. Begin(w, Min(ToRetry(w))) /\ pel' = Reread(w) /\ last' = last
      BY <1>7, <2>3 DEF Read
    <3>2. Min(ToRetry(w)) \in Frames
      BY <2>3, PendingTypes DEF Own
    <3> QED  BY <2>1, <2>2, <3>1, <3>2, Moves DEF Typed, bounds
  <2>4. CASE ToRetry(w) = {} /\ Unread # {}
    <3>1. Receive(w, Reread(w))
      BY <1>7, <2>4 DEF Read
    <3> QED  BY <1>0, <2>1, <2>2, <2>4, <3>1, ReceiveTypes DEF Typed, bounds
  <2>5. CASE ToRetry(w) = {} /\ Unread = {}
    <3>1. GoTo(w, "block") /\ pel' = Reread(w) /\ last' = last
      BY <1>7, <2>5 DEF Read
    <3> QED  BY <2>1, <2>2, <3>1, Moves DEF Typed, bounds
  <2> QED  BY <2>3, <2>4, <2>5
<1>8. ASSUME NEW w \in Workers, Wake(w) PROVE Typed'
  <2>1. UNCHANGED <<top, stream, group, done, fate, bounds>>
    BY <1>8 DEF Wake
  <2>2. CASE Unread # {}
    <3>1. Receive(w, pel)
      BY <1>8, <2>2 DEF Wake
    <3> QED  BY <1>0, <2>1, <2>2, <3>1, ReceiveTypes DEF Typed, bounds
  <2>3. CASE Unread = {}
    <3>1. GoTo(w, "loop") /\ UNCHANGED <<last, pel>>
      BY <1>8, <2>3 DEF Wake
    <3> QED  BY <2>1, <3>1, Moves DEF Typed, bounds
  <2> QED  BY <2>2, <2>3
<1>9. \A w \in Workers : At(w, "busy") \/ At(w, "ack") => worker[w].frame \in Frames
  BY DEF Placed, At, Typed, WorkerState
<1>10. ASSUME NEW w \in Workers, Process(w) PROVE Typed'
  <2>1. worker' \in [Workers -> WorkerState] /\ done' \in SUBSET Frames
    BY <1>9, <1>10, Moves DEF Process, Typed
  <2> QED  BY <1>10, <2>1 DEF Process, Typed, redis, bounds
<1>11. ASSUME NEW w \in Workers, Fail(w) PROVE Typed'
  <2>1. worker' \in [Workers -> WorkerState]
    BY <1>9, <1>11, Moves DEF Fail, Typed
  <2>2. fails' \in 0..MaxFails
    BY <1>11 DEF Fail, Typed
  <2> QED  BY <1>11, <2>1, <2>2 DEF Fail, Typed, redis
<1>12. ASSUME NEW w \in Workers, Acknowledge(w) PROVE Typed'
  <2>1. worker' \in [Workers -> WorkerState]
    BY <1>12, Moves DEF Acknowledge, Typed
  <2>2. pel' \in [Frames -> Entry] /\ fate' \in [Frames -> Standings]
    BY <1>9, <1>12, PendingTypes DEF Acknowledge, Typed, Standings
  <2> QED  BY <1>12, <2>1, <2>2 DEF Acknowledge, Typed, bounds
<1>13. CASE UNCHANGED vars
  BY <1>13 DEF vars, Typed
<1> QED  BY <1>1, <1>2, <1>3, <1>4, <1>5, <1>6, <1>7, <1>8, <1>10, <1>11, <1>12, <1>13 DEF Next, Loop

-----------------------------------------------------------------------------
(* The invariant. A frame is open for as long as it is pending or unread,   *)
(* and never both; it is pending for the worker that has it in hand, unless *)
(* that one has had it too long.                                            *)

StreamInv ==
    /\ last <= top /\ \A f \in stream : f <= top
    /\ ~group => last = 0

Standing(f) ==
    /\ f \in Pending \/ f \in Unread <=> fate[f] = "open"
    /\ ~(f \in Pending /\ f \in Unread)
    /\ f > top => fate[f] = "none"

Hand(w) ==
    LET f == worker[w].frame
    IN  f \in Frames =>
          /\ f <= top /\ f \notin Unread
          /\ At(w, "busy") /\ f \in Pending =>
               IF pel[f].owner = w THEN pel[f].idle <= worker[w].clock ELSE worker[w].clock > IdleClaim

IInv ==
    /\ Typed /\ StreamInv /\ TwoAtOnceOnlyIfSlow
    /\ \A w \in Workers : Placed(w) /\ Hand(w)
    /\ \A f \in Frames : Standing(f)

\* What a step other than the passing of time does to a worker,
WorkerStep(w) ==
    \/ worker'[w] = worker[w] /\ (At(w, "block") => group')
    \/ \E place \in {"off", "loop", "read", "block"} : Rests(w, place) /\ (place = "block" => group')
    \/ /\ At(w, "busy") /\ worker'[w].at = "ack" /\ worker'[w].frame = worker[w].frame
       /\ worker[w].frame \in done'
    \/ \E f \in Frames :
         /\ Takes(w, f) /\ Others(w) /\ f \in Own(w) \cup Unread
         /\ pel'[f].owner = w /\ pel'[f].idle = 0

\* and to a frame.
Kept(f) == fate'[f] = fate[f] /\ (f \in Unread' <=> f \in Unread)
Free(w) == ~At(w, "busy")

EntryStep(f) ==
    \/ Kept(f) /\ pel'[f].owner = pel[f].owner /\ (pel'[f].owner = NoFrame \/ pel'[f].idle = pel[f].idle)
    \/ /\ Kept(f) /\ pel'[f].owner = Nobody /\ pel[f].owner \in Workers
       /\ Rests(pel[f].owner, "off")
    \/ /\ Kept(f) /\ pel[f].owner # NoFrame /\ pel'[f].owner \in Workers
       /\ Free(pel'[f].owner) /\ pel'[f].idle = 0
       /\ pel'[f].owner = pel[f].owner \/ (pel[f].idle > IdleClaim /\ Rests(pel'[f].owner, "read"))
    \/ /\ f \in Unread /\ fate'[f] = fate[f] /\ f \notin Unread'
       /\ pel'[f].owner \in Workers
    \/ pel'[f].owner = NoFrame /\ fate'[f] # "open" /\ f \notin Unread' /\ f <= top'
    \/ /\ f = top + 1 /\ f = top' /\ f \in Unread' /\ fate'[f] = "open" /\ pel'[f] = pel[f]

Mono == top <= top' /\ done \subseteq done'

Effect == StreamInv' /\ Mono /\ (\A w \in Workers : WorkerStep(w)) /\ \A f \in Frames : EntryStep(f)

LEMMA EffectKeeps ==
    ASSUME IInv, Typed', Effect
    PROVE  IInv'
<1> USE ConstantTypes
<1>0. /\ top \in Nat /\ top' \in Nat /\ top <= top' /\ done \subseteq done'
      /\ \A f \in Frames : f \in Nat
  BY DEF IInv, Typed, Effect, Mono, Frames
<1>1. ASSUME NEW f \in Frames PROVE Standing(f)'
  <2>1. Standing(f) /\ EntryStep(f)
    BY DEF IInv, Effect
  <2>2. f \in Pending <=> pel[f].owner # NoFrame
    BY DEF Pending
  <2>3. f \in Pending' <=> pel'[f].owner # NoFrame
    BY DEF Pending
  <2>4. f > top' => f > top
    BY <1>0
  <2>5. f <= top' => ~(f > top')
    BY <1>0
  <2>6. f = top' => ~(f > top')
    BY <1>0
  <2>7. f = top + 1 => f > top
    BY <1>0
  <2> QED  BY <2>1, <2>2, <2>3, <2>4, <2>5, <2>6, <2>7 DEF Standing, EntryStep, Kept
<1>2. ASSUME NEW w \in Workers PROVE Placed(w)'
  <2>1. Placed(w) /\ WorkerStep(w)
    BY DEF IInv, Effect
  <2> QED  BY <1>0, <2>1 DEF Placed, WorkerStep, Rests, Takes, At
\* The worker that goes on with its frame.
<1>3. ASSUME NEW w \in Workers, NEW f \in Frames, worker[w].frame = f, worker'[w].frame = f
      PROVE  /\ f <= top' /\ f \notin Unread'
             /\ At(w, "busy") /\ pel'[f].owner # NoFrame =>
                  IF pel'[f].owner = w THEN pel'[f].idle <= worker[w].clock ELSE worker[w].clock > IdleClaim
  <2>1. EntryStep(f) /\ f <= top /\ f \notin Unread
    BY <1>3 DEF IInv, Effect, Hand
  <2>2. f <= top' /\ f # top + 1
    BY <1>0, <2>1
  <2>3. f \notin Unread'
    BY <2>1, <2>2 DEF EntryStep, Kept
  <2>4. ASSUME At(w, "busy"), pel'[f].owner # NoFrame
        PROVE  IF pel'[f].owner = w THEN pel'[f].idle <= worker[w].clock ELSE worker[w].clock > IdleClaim
    <3>1. pel[f].owner # NoFrame =>
            IF pel[f].owner = w THEN pel[f].idle <= worker[w].clock ELSE worker[w].clock > IdleClaim
      BY <1>3, <2>4 DEF IInv, Hand, Pending
    <3>2. worker[w].clock \in Nat /\ pel[f].idle \in Nat
      <4>1. worker[w] \in WorkerState /\ pel[f] \in Entry
        BY DEF IInv, Typed
      <4>2. worker[w].clock \in 0..MaxClock
        BY <4>1 DEF WorkerState
      <4>3. pel[f].idle \in 0 .. (IdleClaim + 1)
        BY <4>1 DEF Entry, Times
      <4> QED  BY <4>2, <4>3
    <3>3. CASE pel'[f].owner = pel[f].owner /\ (pel'[f].owner = NoFrame \/ pel'[f].idle = pel[f].idle)
      BY <2>4, <3>1, <3>3
    <3>4. CASE pel'[f].owner = Nobody /\ pel[f].owner \in Workers /\ Rests(pel[f].owner, "off")
      <4>1. pel[f].owner # w
        BY <1>3, <3>4 DEF Rests
      <4> QED  BY <3>1, <3>4, <4>1
    <3>5. CASE /\ pel[f].owner # NoFrame /\ Free(pel'[f].owner) /\ pel'[f].idle = 0
               /\ pel'[f].owner = pel[f].owner \/ (pel[f].idle > IdleClaim /\ Rests(pel'[f].owner, "read"))
      <4>1. pel'[f].owner # w
        BY <2>4, <3>5 DEF Free
      <4> QED  BY <3>1, <3>2, <3>5, <4>1
    <3> QED  BY <2>1, <2>2, <2>4, <3>3, <3>4, <3>5 DEF EntryStep
  <2> QED  BY <2>2, <2>3, <2>4
<1>4. ASSUME NEW w \in Workers, NEW f \in Frames, Takes(w, f), f \in Own(w) \cup Unread,
             pel'[f].owner = w, pel'[f].idle = 0
      PROVE  f <= top' /\ f \notin Unread' /\ pel'[f].idle <= worker'[w].clock
  <2>1. EntryStep(f) /\ Standing(f)
    BY DEF IInv, Effect
  <2>2. f <= top /\ (f \in Own(w) => f \in Pending)
    <3>1. fate[f] = "open"
      BY <1>4, <2>1 DEF Standing, Own, Pending
    <3> QED  BY <1>0, <1>4, <2>1, <3>1 DEF Standing, Own, Pending
  <2>3. f # top + 1 /\ f <= top'
    BY <1>0, <2>2
  <2>4. f \notin Unread'
    <3>1. CASE f \in Unread
      <4>1. f \notin Pending
        BY <2>1, <3>1 DEF Standing
      <4>2. pel[f].owner = NoFrame
        BY <4>1 DEF Pending
      <4> QED  BY <1>4, <2>1, <2>3, <4>2 DEF EntryStep
    <3>2. CASE f \in Own(w)
      <4>1. f \notin Unread
        BY <2>1, <2>2, <3>2 DEF Standing
      <4> QED  BY <2>1, <2>3, <4>1 DEF EntryStep, Kept
    <3> QED  BY <1>4, <3>1, <3>2
  <2> QED  BY <1>4, <2>3, <2>4 DEF Takes
<1>5. ASSUME NEW w \in Workers PROVE Hand(w)'
  <2>1. WorkerStep(w)
    BY DEF Effect
  <2>2. SUFFICES ASSUME NEW f \in Frames, worker'[w].frame = f
        PROVE  /\ f <= top' /\ f \notin Unread'
               /\ worker'[w].at = "busy" /\ pel'[f].owner # NoFrame =>
                    IF pel'[f].owner = w THEN pel'[f].idle <= worker'[w].clock ELSE worker'[w].clock > IdleClaim
    BY DEF Hand, Pending, At
  <2>3. CASE \E g \in Frames : /\ Takes(w, g) /\ g \in Own(w) \cup Unread
                               /\ pel'[g].owner = w /\ pel'[g].idle = 0
    <3>1. /\ Takes(w, f) /\ f \in Own(w) \cup Unread /\ pel'[f].owner = w /\ pel'[f].idle = 0
      BY <2>2, <2>3 DEF Takes
    <3> QED  BY <1>4, <3>1
  <2>4. CASE worker'[w] = worker[w]
    BY <1>3, <2>2, <2>4 DEF At
  <2>5. CASE At(w, "busy") /\ worker'[w].at = "ack" /\ worker'[w].frame = worker[w].frame
    BY <1>3, <2>2, <2>5
  <2> QED  BY <2>1, <2>2, <2>3, <2>4, <2>5 DEF WorkerStep, Rests
<1>6. TwoAtOnceOnlyIfSlow'
  <2> SUFFICES ASSUME NEW v \in Workers, NEW w \in Workers, v # w, worker'[v].at = "busy", worker'[w].at = "busy",
                      worker'[v].frame = worker'[w].frame
               PROVE  worker'[v].clock > IdleClaim \/ worker'[w].clock > IdleClaim
    BY DEF TwoAtOnceOnlyIfSlow, At
  <2>1. ASSUME NEW u \in Workers, worker'[u].at = "busy"
        PROVE  \/ worker'[u] = worker[u]
               \/ \E f \in Frames : Takes(u, f) /\ Others(u) /\ f \in Own(u) \cup Unread
    BY <2>1 DEF Effect, WorkerStep, Rests
  <2>2. ASSUME NEW u \in Workers, NEW t \in Workers, u # t, worker'[u].frame = worker'[t].frame,
               worker'[t].at = "busy",
               \E f \in Frames : Takes(u, f) /\ Others(u) /\ f \in Own(u) \cup Unread
        PROVE  worker'[t].clock > IdleClaim
    <3>1. PICK f \in Frames : Takes(u, f) /\ Others(u) /\ f \in Own(u) \cup Unread
      BY <2>2
    <3>2. worker'[t] = worker[t] /\ worker[t].frame = f
      BY <2>2, <3>1 DEF Others, Takes
    <3>3. Hand(t)
      BY DEF IInv
    <3>4. f \in Own(u) /\ f \in Pending /\ pel[f].owner # t
      BY <2>2, <3>1, <3>2, <3>3 DEF Hand, Own, Pending
    <3> QED  BY <2>2, <3>2, <3>3, <3>4 DEF Hand, At
  <2>3. CASE worker'[v] = worker[v] /\ worker'[w] = worker[w]
    BY <2>3 DEF IInv, TwoAtOnceOnlyIfSlow, At
  <2> QED  BY <2>1, <2>2, <2>3
<1> QED  BY <1>1, <1>2, <1>5, <1>6 DEF IInv, Effect

-----------------------------------------------------------------------------
(* The steps.                                                               *)

LEMMA StreamUnchanged ==
    ASSUME UNCHANGED <<stream, last>>
    PROVE  \A f \in Frames : f \in Unread' <=> f \in Unread
BY DEF Unread

\* Nothing but a worker changes: all frames are as they were.
LEMMA OnlyWorkers ==
    ASSUME IInv, UNCHANGED <<top, stream, last, pel, fate>>, done \subseteq done', group' = group \/ group'
    PROVE  StreamInv' /\ Mono /\ \A f \in Frames : EntryStep(f)
<1>1. \A f \in Frames : EntryStep(f)
  BY StreamUnchanged DEF EntryStep, Kept
<1>2. top <= top'
  BY ConstantTypes DEF IInv, Typed
<1> QED  BY <1>1, <1>2 DEF IInv, StreamInv, Mono

LEMMA PublishEffect == ASSUME IInv, Typed', Publish PROVE Effect
<1> USE ConstantTypes
<1>0. Typed /\ StreamInv /\ top \in Nat /\ last \in Nat
  BY DEF IInv, Typed
<1>1. /\ top' = top + 1 /\ top' \in Frames /\ UNCHANGED <<group, last, pel, worker, done>>
  BY DEF Publish
<1> DEFINE full == stream \cup {top + 1}
<1>2. PICK trimmed \in {{}} \cup (IF Cardinality(full) > MaxLen THEN {{Min(full)}} ELSE {}) :
        /\ stream' = full \ trimmed
        /\ fate' = [g \in Frames |-> IF g = top + 1 THEN "open"
                                     ELSE IF g \in trimmed \cap Unread /\ fate[g] = "open" THEN "dropped"
                                     ELSE fate[g]]
  BY DEF Publish
\* The new frame is not the one that is trimmed.
<1>3. top + 1 \notin trimmed
  <2> SUFFICES ASSUME trimmed = {Min(full)}, Cardinality(full) > MaxLen, Min(full) = top + 1 PROVE FALSE
    BY <1>2
  <2>1. full \in SUBSET Frames /\ full # {}
    BY <1>0, <1>1 DEF Typed
  <2>2. \A g \in full : top + 1 <= g
    BY <2>1, OldestFrame
  <2>3. full = {top + 1}
    <3>1. ASSUME NEW g \in stream PROVE FALSE
      <4>1. g \in Nat /\ g <= top /\ top + 1 <= g
        BY <1>0, <2>1, <2>2 DEF StreamInv
      <4> QED  BY <1>0, <4>1
    <3> QED  BY <3>1
  <2>4. Cardinality({top + 1}) = 1
    BY FS_Singleton
  <2> QED  BY <2>3, <2>4
<1>4. StreamInv' /\ Mono
  <2>1. last' <= top' /\ Mono
    BY <1>0, <1>1 DEF StreamInv, Mono
  <2>2. ASSUME NEW f \in stream' PROVE f <= top'
    <3>1. f = top + 1 \/ (f \in stream /\ f \in Nat)
      BY <1>0, <1>2 DEF Typed
    <3> QED  BY <1>0, <1>1, <3>1 DEF StreamInv
  <2>3. ~group' => last' = 0
    BY <1>0, <1>1 DEF StreamInv
  <2> QED  BY <2>1, <2>2, <2>3 DEF StreamInv
<1>5. ASSUME NEW f \in Frames PROVE EntryStep(f)
  <2>1. CASE f = top + 1
    <3>1. f \in Unread'
      BY <1>0, <1>1, <1>2, <1>3, <2>1 DEF Unread, StreamInv
    <3> QED  BY <1>1, <1>2, <2>1, <3>1 DEF EntryStep
  <2>2. CASE f # top + 1 /\ f \in trimmed /\ f \in Unread /\ fate[f] = "open"
    <3>1. f \notin Unread' /\ fate'[f] = "dropped" /\ f <= top'
      BY <1>0, <1>1, <1>2, <2>2 DEF Unread, StreamInv
    <3>2. pel'[f].owner = NoFrame
      BY <1>1, <2>2 DEF IInv, Standing, Pending
    <3> QED  BY <3>1, <3>2 DEF EntryStep
  <2>3. CASE f # top + 1 /\ ~(f \in trimmed /\ f \in Unread)
    <3>1. fate'[f] = fate[f] /\ (f \in Unread' <=> f \in Unread)
      BY <1>1, <1>2, <2>3 DEF Unread
    <3> QED  BY <1>1, <3>1 DEF EntryStep, Kept
  <2>4. f \in Unread => fate[f] = "open"
    BY DEF IInv, Standing
  <2> QED  BY <2>1, <2>2, <2>3, <2>4
<1>6. \A w \in Workers : WorkerStep(w)
  BY <1>1 DEF WorkerStep, IInv, Placed
<1> QED  BY <1>4, <1>5, <1>6 DEF Effect

LEMMA LossEffect == ASSUME IInv, Typed', LoseStream PROVE Effect
<1> USE ConstantTypes
<1>1. /\ stream' = {} /\ last' = 0 /\ pel' = [f \in Frames |-> Unowned] /\ Drop(Frames) /\ UNCHANGED <<top, done>>
      /\ worker' = [w \in Workers |-> IF At(w, "block") THEN Off ELSE worker[w]]
  BY DEF LoseStream
<1>2. StreamInv' /\ Mono
  BY <1>1 DEF IInv, Typed, StreamInv, Mono
<1>3. ASSUME NEW f \in Frames PROVE EntryStep(f)
  <2>1. f \notin Unread' /\ pel'[f].owner = NoFrame
    BY <1>1, OffType DEF Unread
  <2>2. fate'[f] # "open"
    BY <1>1 DEF Drop
  <2>3. CASE f <= top'
    BY <2>1, <2>2, <2>3 DEF EntryStep
  <2>4. CASE ~(f <= top')
    <3>1. f > top
      BY <1>1, <2>4 DEF IInv, Typed
    <3>2. fate[f] = "none" /\ f \notin Pending /\ f \notin Unread
      BY <3>1 DEF IInv, Standing
    <3>3. fate'[f] = fate[f]
      BY <1>1, <3>2 DEF Drop
    <3>4. pel[f].owner = NoFrame
      BY <3>2 DEF Pending
    <3> QED  BY <2>1, <3>2, <3>3, <3>4 DEF EntryStep, Kept
  <2> QED  BY <2>3, <2>4
<1>4. ASSUME NEW w \in Workers PROVE WorkerStep(w)
  <2>1. CASE At(w, "block")
    BY <1>1, <2>1, OffType DEF WorkerStep, Rests
  <2>2. CASE ~At(w, "block")
    BY <1>1, <2>2 DEF WorkerStep
  <2> QED  BY <2>1, <2>2
<1> QED  BY <1>2, <1>3, <1>4 DEF Effect

\* A worker starts, or finds the group gone.
LEMMA StartEffect ==
    ASSUME IInv, Typed', NEW w \in Workers, Start(w) \/ ReadNothing(w) \/ ClaimNothing(w) \/ Process(w) \/ Fail(w)
    PROVE  Effect
<1> USE ConstantTypes
<1>0. worker \in [Workers -> WorkerState]
  BY DEF IInv, Typed
<1>1. UNCHANGED <<top, stream, pel, fate>> /\ done \subseteq done'
  BY DEF Start, ReadNothing, ClaimNothing, Process, Fail, redis
<1>2. last' = last /\ (group' = group \/ group')
  <2>1. ~group => last = 0
    BY DEF IInv, StreamInv
  <2> QED  BY <2>1 DEF Start, ReadNothing, ClaimNothing, Process, Fail, redis
<1>3. \/ \E place \in {"off", "loop"} : Rests(w, place) /\ Others(w)
      \/ /\ At(w, "busy") /\ worker'[w].at = "ack" /\ worker'[w].frame = worker[w].frame
         /\ worker[w].frame \in done' /\ Others(w)
  <2>1. CASE Start(w) \/ ReadNothing(w) \/ ClaimNothing(w)
    BY <1>0, <2>1, Moves DEF Start, ReadNothing, ClaimNothing
  <2>2. At(w, "busy") => worker[w].frame \in Frames
    BY DEF IInv, Typed, Placed, At, WorkerState
  <2>3. CASE Process(w)
    BY <1>0, <2>3, Moves DEF Process
  <2>4. CASE Fail(w)
    BY <1>0, <2>2, <2>4, Moves DEF Fail
  <2> QED  BY <2>1, <2>3, <2>4
<1>4. \A v \in Workers : WorkerStep(v)
  <2>1. \A v \in Workers : At(v, "block") => group'
    BY <1>2 DEF IInv, Placed
  <2> QED  BY <1>3, <2>1 DEF WorkerStep, Others
<1> QED  BY <1>1, <1>2, <1>4, OnlyWorkers DEF Effect

LEMMA CrashEffect == ASSUME IInv, Typed', NEW w \in Workers, Crash(w) PROVE Effect
<1> USE ConstantTypes
<1>0. worker \in [Workers -> WorkerState]
  BY DEF IInv, Typed
<1>1. Rests(w, "off") /\ Others(w) /\ pel' = Disowned(w) /\ UNCHANGED <<top, stream, group, last, done, fate>>
  BY <1>0, Moves DEF Crash
<1>2. StreamInv' /\ Mono
  BY <1>1 DEF IInv, Typed, StreamInv, Mono
<1>3. ASSUME NEW f \in Frames PROVE EntryStep(f)
  <2>0. Kept(f) /\ pel[f] \in Entry
    BY <1>1, StreamUnchanged DEF Kept, IInv, Typed
  <2>1. CASE pel[f].owner = w
    BY <1>1, <2>0, <2>1 DEF Disowned, EntryStep, Entry
  <2>2. CASE pel[f].owner # w
    BY <1>1, <2>0, <2>2 DEF Disowned, EntryStep
  <2> QED  BY <2>1, <2>2
<1>4. \A v \in Workers : WorkerStep(v)
  BY <1>1 DEF WorkerStep, Others, IInv, Placed
<1> QED  BY <1>2, <1>3, <1>4 DEF Effect

LEMMA ClaimEffect == ASSUME IInv, Typed', NEW w \in Workers, Claim(w) PROVE Effect
<1> USE ConstantTypes
<1>0. worker \in [Workers -> WorkerState]
  BY DEF IInv, Typed
<1> DEFINE mine == (Stale \ Dead) \cap stream
           gone == Dead \cup (Stale \ stream)
<1>1. /\ At(w, "loop") /\ Rests(w, "read") /\ Others(w) /\ Drop(gone) /\ UNCHANGED <<top, stream, group, last, done>>
      /\ pel' = [f \in Frames |-> IF f \in gone THEN Unowned
                                    ELSE IF f \in mine THEN [owner |-> w, count |-> Counted(pel[f].count), idle |-> 0]
                                    ELSE pel[f]]
  BY <1>0, Moves DEF Claim
<1>2. StreamInv' /\ Mono
  BY <1>1 DEF IInv, Typed, StreamInv, Mono
<1>3. ASSUME NEW f \in Frames PROVE EntryStep(f)
  <2>0. f \in Unread' <=> f \in Unread
    BY <1>1, StreamUnchanged
  <2>1. CASE f \in gone
    <3>1. f \in Pending
      BY <2>1 DEF Dead, Stale
    <3>2. f \notin Unread /\ fate[f] = "open"
      BY <3>1 DEF IInv, Standing
    <3>3. f <= top'
      BY <1>1, <3>2 DEF IInv, Standing, Typed
    <3>4. pel'[f].owner = NoFrame /\ fate'[f] = "dropped"
      BY <1>1, <2>1, <3>2, OffType DEF Drop
    <3> QED  BY <2>0, <3>2, <3>3, <3>4 DEF EntryStep
  <2>2. CASE f \notin gone /\ f \in mine
    <3>1. fate'[f] = fate[f] /\ pel'[f].owner = w /\ pel'[f].idle = 0
      BY <1>1, <2>2 DEF Drop
    <3>2. pel[f].owner # NoFrame /\ pel[f].idle > IdleClaim
      BY <2>2 DEF Stale, Pending
    <3> QED  BY <1>1, <2>0, <3>1, <3>2 DEF EntryStep, Kept, Free, At
  <2>3. CASE f \notin gone /\ f \notin mine
    BY <1>1, <2>0, <2>3 DEF EntryStep, Kept, Drop
  <2> QED  BY <2>1, <2>2, <2>3
<1>4. \A v \in Workers : WorkerStep(v)
  BY <1>1 DEF WorkerStep, Others, IInv, Placed
<1> QED  BY <1>2, <1>3, <1>4 DEF Effect

\* What reading again does to the other entries of a worker.
LEMMA RereadEntries ==
    ASSUME IInv, NEW w \in Workers, Free(w), NEW f \in Frames, pel'[f] = Reread(w)[f], Kept(f)
    PROVE  EntryStep(f)
<1>1. pel[f] \in Entry /\ (f \in Oldest(ReadCount, Own(w)) => pel[f].owner = w)
  BY DEF IInv, Typed, Oldest, Own
<1>2. CASE f \in Oldest(ReadCount, Own(w))
  <2>1. pel'[f] = [pel[f] EXCEPT !.count = Counted(pel[f].count), !.idle = 0]
    BY <1>2 DEF Reread
  <2>2. pel'[f].owner = w /\ pel'[f].idle = 0
    BY <1>1, <1>2, <2>1 DEF Entry
  <2> QED  BY <1>1, <1>2, <2>2, ConstantTypes DEF EntryStep
<1>3. CASE f \notin Oldest(ReadCount, Own(w))
  BY <1>3 DEF Reread, EntryStep
<1> QED  BY <1>2, <1>3

\* A new frame is received, the others being as they are in p.
LEMMA ReceiveEffect ==
    ASSUME IInv, Typed', NEW w \in Workers, NEW p \in [Frames -> Entry], Unread # {}, Receive(w, p), group,
           UNCHANGED <<top, stream, group, done, fate>>,
           \A f \in Frames : Kept(f) /\ pel'[f] = p[f] => EntryStep(f)
    PROVE  Effect
<1> USE ConstantTypes
<1>0. Typed
  BY DEF IInv
<1>1. /\ last' \in Unread /\ last' = Min(Unread) /\ Unread \subseteq Frames
      /\ pel'[last'].owner = w /\ pel'[last'].idle = 0
      /\ \A f \in Frames \ {last'} : pel'[f] = p[f]
      /\ Takes(w, last') /\ Others(w)
  BY <1>0, ReceiveTypes
<1>2. \A f \in Unread : last' <= f
  BY <1>1, OldestFrame
<1>3. last \in Nat /\ last' > last /\ last' \in stream /\ last' \in Nat
  BY <1>0, <1>1 DEF Unread, Typed
<1>4. StreamInv' /\ Mono
  BY <1>3 DEF IInv, Typed, StreamInv, Mono
<1>5. ASSUME NEW f \in Frames PROVE EntryStep(f)
  <2>1. CASE f = last'
    <3>1. f \notin Unread'
      BY <1>3, <2>1 DEF Unread
    <3> QED  BY <1>1, <2>1, <3>1 DEF EntryStep
  <2>2. CASE f # last'
    <3>1. f \in Nat /\ stream' = stream
      OBVIOUS
    <3>2. f \in Unread => f > last'
      BY <1>2, <1>3, <2>2, <3>1
    <3>3. f > last' => f > last
      BY <1>3, <3>1
    <3>4. f \in Unread' <=> f \in Unread
      BY <3>1, <3>2, <3>3 DEF Unread
    <3> QED  BY <1>1, <2>2, <3>4 DEF Kept
  <2> QED  BY <2>1, <2>2
<1>6. \A v \in Workers : WorkerStep(v)
  BY <1>1 DEF WorkerStep, Others
<1> QED  BY <1>4, <1>5, <1>6 DEF Effect

LEMMA ReadEffect == ASSUME IInv, Typed', NEW w \in Workers, Read(w) PROVE Effect
<1> USE ConstantTypes
<1>0. Typed /\ At(w, "read") /\ group /\ Free(w) /\ UNCHANGED <<top, stream, group, done, fate>>
  BY DEF IInv, Read, At, Free
<1>1. Reread(w) \in [Frames -> Entry]
  BY <1>0, PendingTypes
<1>2. \A f \in Frames : Kept(f) /\ pel'[f] = Reread(w)[f] => EntryStep(f)
  BY <1>0, RereadEntries
<1>3. ASSUME last' = last, pel' = Reread(w) PROVE StreamInv' /\ Mono /\ \A f \in Frames : EntryStep(f)
  <2>1. \A f \in Frames : Kept(f)
    BY <1>0, <1>3, StreamUnchanged DEF Kept
  <2> QED  BY <1>0, <1>2, <1>3, <2>1 DEF IInv, Typed, StreamInv, Mono
<1>4. CASE ToRetry(w) # {}
  <2> DEFINE f == Min(ToRetry(w))
  <2>1. Begin(w, f) /\ pel' = Reread(w) /\ last' = last
    BY <1>4 DEF Read
  <2>2. f \in ToRetry(w) /\ f \in Own(w) /\ f \in Oldest(ReadCount, Own(w)) /\ f \in Frames
    <3>1. Min(ToRetry(w)) \in ToRetry(w) /\ ToRetry(w) \subseteq Own(w) /\ Oldest(ReadCount, Own(w)) \in SUBSET Frames
      BY <1>0, <1>4, PendingTypes
    <3> QED  BY <3>1 DEF ToRetry
  <2> HIDE DEF f
  <2>3. Takes(w, f) /\ Others(w)
    BY <1>0, <2>1, <2>2, Moves DEF Typed
  <2>4. pel'[f].owner = w /\ pel'[f].idle = 0
    BY <1>0, <2>1, <2>2 DEF Reread, Own, Typed, Entry
  <2>5. \A v \in Workers : WorkerStep(v)
    BY <1>0, <2>2, <2>3, <2>4 DEF WorkerStep, Others
  <2> QED  BY <1>3, <2>1, <2>5 DEF Effect
<1>5. CASE ToRetry(w) = {} /\ Unread # {}
  <2>1. Receive(w, Reread(w))
    BY <1>5 DEF Read
  <2> QED  BY <1>0, <1>1, <1>2, <1>5, <2>1, ReceiveEffect
<1>6. CASE ToRetry(w) = {} /\ Unread = {}
  <2>1. GoTo(w, "block") /\ pel' = Reread(w) /\ last' = last
    BY <1>6 DEF Read
  <2>2. Rests(w, "block") /\ Others(w)
    BY <1>0, <2>1, Moves DEF Typed
  <2>3. \A v \in Workers : WorkerStep(v)
    BY <1>0, <2>2 DEF WorkerStep, Others
  <2> QED  BY <1>3, <2>1, <2>3 DEF Effect
<1> QED  BY <1>4, <1>5, <1>6

LEMMA WakeEffect == ASSUME IInv, Typed', NEW w \in Workers, Wake(w) PROVE Effect
<1> USE ConstantTypes
<1>0. Typed /\ At(w, "block") /\ group /\ UNCHANGED <<top, stream, group, done, fate>>
  BY DEF IInv, Wake, Placed
<1>1. CASE Unread # {}
  <2>1. Receive(w, pel)
    BY <1>1 DEF Wake
  <2>2. \A f \in Frames : Kept(f) /\ pel'[f] = pel[f] => EntryStep(f)
    BY DEF EntryStep
  <2> QED  BY <1>0, <1>1, <2>1, <2>2, ReceiveEffect DEF Typed
<1>2. CASE Unread = {}
  <2>1. GoTo(w, "loop") /\ UNCHANGED <<last, pel>>
    BY <1>2 DEF Wake
  <2>2. Rests(w, "loop") /\ Others(w)
    BY <1>0, <2>1, Moves DEF Typed
  <2>3. \A v \in Workers : WorkerStep(v)
    BY <1>0, <2>2 DEF WorkerStep, Others
  <2> QED  BY <1>0, <2>1, <2>3, OnlyWorkers DEF Effect
<1> QED  BY <1>1, <1>2

LEMMA AcknowledgeEffect == ASSUME IInv, Typed', NEW w \in Workers, Acknowledge(w) PROVE Effect
<1> USE ConstantTypes
<1> DEFINE f == worker[w].frame
<1>0. /\ Typed /\ f \in Frames /\ f <= top /\ f \notin Unread
  <2>1. f \in Frames
    BY DEF Acknowledge, IInv, Typed, Placed, At, WorkerState
  <2> QED  BY <2>1 DEF IInv, Hand
<1>1. /\ pel' = [pel EXCEPT ![f] = Unowned] /\ UNCHANGED <<top, stream, group, last, done>>
      /\ fate' = [fate EXCEPT ![f] = IF @ = "open" THEN "acked" ELSE @]
  BY DEF Acknowledge
<1>2. Rests(w, "loop") /\ Others(w)
  BY <1>0, Moves DEF Acknowledge, Typed
<1>3. StreamInv' /\ Mono
  BY <1>1 DEF IInv, Typed, StreamInv, Mono
<1>4. ASSUME NEW g \in Frames PROVE EntryStep(g)
  <2>0. g \in Unread' <=> g \in Unread
    BY <1>1, StreamUnchanged
  <2>1. CASE g = f
    <3>1. pel'[g].owner = NoFrame /\ fate'[g] # "open"
      BY <1>0, <1>1, <2>1, OffType DEF Typed
    <3> QED  BY <1>0, <1>1, <2>0, <2>1, <3>1 DEF EntryStep
  <2>2. CASE g # f
    BY <1>0, <1>1, <2>0, <2>2 DEF EntryStep, Kept, Typed
  <2> QED  BY <2>1, <2>2
<1>5. \A v \in Workers : WorkerStep(v)
  BY <1>2 DEF WorkerStep, Others, IInv, Placed, Acknowledge
<1> QED  BY <1>3, <1>4, <1>5 DEF Effect

\* The passing of time.
LEMMA TickKeeps == ASSUME IInv, Typed', Tick PROVE IInv'
<1> USE ConstantTypes
<1>0. Typed /\ UNCHANGED <<top, stream, group, last, done, fate>>
  BY DEF IInv, Tick
<1>1. ASSUME NEW f \in Frames
      PROVE  /\ pel[f].idle \in Nat /\ pel'[f].idle \in Nat
             /\ pel'[f].owner = pel[f].owner /\ pel'[f].idle <= pel[f].idle + 1
  <2>1. pel[f] \in Entry
    BY <1>0 DEF Typed
  <2>2. pel[f].idle \in Nat
    BY <2>1 DEF Entry, Times
  <2>3. pel'[f] = [pel[f] EXCEPT !.idle = Aged(pel[f].idle)] \/ pel'[f] = pel[f]
    BY DEF Tick
  <2>4. Aged(pel[f].idle) \in Nat /\ Aged(pel[f].idle) <= pel[f].idle + 1
    BY <2>2 DEF Aged
  <2> QED  BY <2>1, <2>2, <2>3, <2>4 DEF Entry
<1>2. ASSUME NEW w \in Workers
      PROVE  /\ worker'[w].at = worker[w].at /\ worker'[w].frame = worker[w].frame
             /\ worker[w].clock \in Nat /\ (~At(w, "off") => worker'[w].clock = worker[w].clock + 1)
  <2>1. worker[w] \in WorkerState
    BY <1>0 DEF Typed
  <2>2. worker[w].clock \in Nat
    BY <2>1 DEF WorkerState
  <2>3. worker'[w] = [worker[w] EXCEPT !.clock = worker[w].clock + 1] \/ (At(w, "off") /\ worker'[w] = worker[w])
    BY DEF Tick
  <2> QED  BY <2>1, <2>2, <2>3 DEF WorkerState
<1>3. StreamInv'
  BY <1>0 DEF IInv, StreamInv
<1>4. \A f \in Frames : (f \in Unread' <=> f \in Unread) /\ (f \in Pending' <=> f \in Pending)
  BY <1>0, <1>1, StreamUnchanged DEF Pending
<1>5. \A f \in Frames : Standing(f)'
  BY <1>0, <1>4 DEF IInv, Standing
<1>6. ASSUME NEW w \in Workers PROVE Placed(w)' /\ Hand(w)'
  <2>1. Placed(w) /\ Hand(w)
    BY DEF IInv
  <2>2. Placed(w)'
    BY <1>0, <1>2, <2>1 DEF Placed, At
  <2>3. SUFFICES ASSUME NEW f \in Frames, worker[w].frame = f
        PROVE  /\ f <= top' /\ f \notin Unread'
               /\ worker[w].at = "busy" /\ f \in Pending =>
                    IF pel[f].owner = w THEN pel'[f].idle <= worker[w].clock + 1 ELSE worker[w].clock + 1 > IdleClaim
    BY <1>1, <1>2, <1>4, <2>2 DEF Hand, At
  <2> QED  BY <1>0, <1>1, <1>2, <1>4, <2>1, <2>3 DEF Hand, At
<1>7. TwoAtOnceOnlyIfSlow'
  BY <1>2 DEF IInv, TwoAtOnceOnlyIfSlow, At
<1> QED  BY <1>3, <1>5, <1>6, <1>7 DEF IInv

LEMMA Step == ASSUME IInv, [Next]_vars PROVE IInv' /\ (Tick \/ Effect)
<1>0. Typed'
  BY TypeStep DEF IInv
<1>1. CASE Tick
  BY <1>0, <1>1, TickKeeps
<1>2. CASE Publish \/ LoseStream
  BY <1>0, <1>2, PublishEffect, LossEffect, EffectKeeps
<1>3. ASSUME NEW w \in Workers, Loop(w) \/ Crash(w) PROVE Effect
  BY <1>0, <1>3, StartEffect, CrashEffect, ClaimEffect, ReadEffect, WakeEffect, AcknowledgeEffect DEF Loop
<1>4. CASE UNCHANGED vars
  <2>1. UNCHANGED <<top, stream, last, pel, fate>> /\ done \subseteq done' /\ group' = group /\ worker' = worker
    BY <1>4 DEF vars
  <2>2. \A w \in Workers : WorkerStep(w)
    BY <2>1 DEF WorkerStep, IInv, Placed
  <2> QED  BY <1>0, <2>1, <2>2, OnlyWorkers, EffectKeeps DEF Effect
<1> QED  BY <1>0, <1>1, <1>2, <1>3, <1>4, PublishEffect, LossEffect, EffectKeeps DEF Next

LEMMA InvInit == Init => IInv
<1> SUFFICES ASSUME Init PROVE IInv
  OBVIOUS
<1> USE ConstantTypes
<1>1. /\ \A w \in Workers : worker[w].at = "off" /\ worker[w].frame = NoFrame
      /\ \A f \in Frames : pel[f].owner = NoFrame /\ fate[f] = "none"
      /\ stream = {} /\ top = 0 /\ last = 0 /\ group
  BY OffType DEF Init
<1>2. Pending = {} /\ Unread = {}
  BY <1>1 DEF Pending, Unread
<1>3. StreamInv /\ TwoAtOnceOnlyIfSlow
  BY <1>1 DEF StreamInv, TwoAtOnceOnlyIfSlow, At
<1>4. \A w \in Workers : Placed(w) /\ Hand(w)
  BY <1>1 DEF Placed, Hand, At
<1>5. \A f \in Frames : Standing(f)
  BY <1>1, <1>2 DEF Standing
<1> QED  BY <1>3, <1>4, <1>5, TypeInit DEF IInv

LEMMA Invariance == Spec => []IInv
<1>1. Init => IInv
  BY InvInit
<1>2. IInv /\ [Next]_vars => IInv'
  BY Step
<1> QED  BY <1>1, <1>2, PTL DEF Spec

\* Every variable keeps its type.
THEOREM TypeCorrect == Spec => []TypeOK
<1>1. IInv => TypeOK
  BY TypedIsTypeOK DEF IInv
<1> QED  BY <1>1, Invariance, PTL

\* A frame is processed twice at once only if one of the two has had it for longer
\* than IDLE_CLAIM_MS.
THEOREM OnlySlowWorkersShare == Spec => []TwoAtOnceOnlyIfSlow
<1>1. IInv => TwoAtOnceOnlyIfSlow
  BY DEF IInv
<1> QED  BY <1>1, Invariance, PTL

\* No claim, failure or crash loses the entry of a frame that was delivered.
THEOREM EntriesAreNeverLost == Spec => []DeliveredIsPending
<1>1. IInv => DeliveredIsPending
  BY DEF IInv, Standing, DeliveredIsPending
<1> QED  BY <1>1, Invariance, PTL

-----------------------------------------------------------------------------
(* What the group promises.                                                 *)

Working == [w \in Workers |-> worker[w].frame]

LEMMA WorkingSame ==
    ASSUME NEW w \in Workers, Others(w)
    PROVE  /\ worker'[w].frame = worker[w].frame => Working' = Working
           /\ \A f : worker'[w].frame = f => Working' = [Working EXCEPT ![w] = f]
BY DEF Working, Others

LEMMA GiveUp ==
    ASSUME NEW w \in Workers, Others(w), worker'[w].frame = NoFrame, UNCHANGED <<fate, done>>
    PROVE  Jobs!GiveBack({w})
<1>1. Working' = [v \in Workers |-> IF v \in {w} THEN NoFrame ELSE worker[v].frame]
  BY DEF Working, Others
<1>2. \A v \in Workers : Working[v] = worker[v].frame
  BY DEF Working
<1> QED  BY <1>1, <1>2 DEF Jobs!GiveBack, Working

LEMMA StepImplements == ASSUME IInv, [Next]_vars PROVE [Jobs!JobsNext]_(Jobs!jobVars)
<1> USE ConstantTypes
<1>0. Typed /\ Typed' /\ fate \in [Frames -> Standings]
  BY Step DEF IInv, Typed
<1>1. CASE Publish
  <2>1. PICK trimmed : fate' = [g \in Frames |-> IF g = top + 1 THEN "open"
                                     ELSE IF g \in trimmed \cap Unread /\ fate[g] = "open" THEN "dropped"
                                     ELSE fate[g]]
    BY <1>1 DEF Publish
  <2>2. top + 1 \in Frames /\ worker' = worker /\ done' = done
    BY <1>1 DEF Publish
  <2>3. fate[top + 1] = "none"
    BY <1>0, <2>2 DEF IInv, Standing, Typed
  <2>4. {top + 1} \in SUBSET Frames /\ trimmed \cap Unread \in SUBSET Frames
    BY <1>0, <2>2, PendingTypes
  <2>5. Jobs!Publish({top + 1}, trimmed \cap Unread)
    BY <2>1, <2>2, <2>3 DEF Jobs!Publish
  <2> QED  BY <2>4, <2>5 DEF Jobs!JobsNext
<1>2. ASSUME NEW S \in SUBSET Frames, Drop(S), Working' = Working, done' = done PROVE Jobs!JobsNext
  <2>1. Jobs!Discard(S, {})
    BY <1>2 DEF Drop, Jobs!Discard, Working
  <2> QED  BY <2>1 DEF Jobs!JobsNext
<1>3. ASSUME UNCHANGED <<fate, done>>, Working' = Working PROVE UNCHANGED Jobs!jobVars
  BY <1>3 DEF Jobs!jobVars, Working
<1>4. ASSUME NEW w \in Workers, Others(w), worker'[w].frame = NoFrame, UNCHANGED <<fate, done>> PROVE Jobs!JobsNext
  BY <1>4, GiveUp DEF Jobs!JobsNext
<1>5. \A w \in Workers : ~At(w, "busy") /\ ~At(w, "ack") => worker[w].frame = NoFrame
  BY DEF IInv, Placed, At
<1>6. CASE LoseStream
  <2>1. Drop(Frames) /\ done' = done
    BY <1>6 DEF LoseStream
  <2>2. \A w \in Workers : worker'[w].frame = worker[w].frame
    BY <1>5, <1>6, OffType DEF LoseStream, At
  <2> QED  BY <1>2, <2>1, <2>2 DEF Working
<1>7. CASE Tick
  <2>1. \A w \in Workers : worker[w] \in WorkerState /\ worker'[w].frame = worker[w].frame
    BY <1>0, <1>7 DEF Tick, Typed, WorkerState
  <2> QED  BY <1>3, <1>7, <2>1 DEF Working, Tick
<1>8. ASSUME NEW w \in Workers, Start(w) \/ ReadNothing(w) \/ ClaimNothing(w) PROVE UNCHANGED Jobs!jobVars
  <2>1. Others(w) /\ worker'[w].frame = worker[w].frame
    BY <1>0, <1>5, <1>8, Moves DEF Start, ReadNothing, ClaimNothing, Typed, At, Rests
  <2> QED  BY <1>3, <1>8, <2>1, WorkingSame DEF Start, ReadNothing, ClaimNothing
<1>9. ASSUME NEW w \in Workers, Crash(w) \/ Fail(w) PROVE Jobs!JobsNext
  <2>1. At(w, "busy") => worker[w].frame \in Frames
    BY <1>0 DEF IInv, Typed, Placed, At, WorkerState
  <2>2. Others(w) /\ worker'[w].frame = NoFrame
    BY <1>0, <1>9, <2>1, Moves DEF Crash, Fail, Typed, Rests
  <2> QED  BY <1>4, <1>9, <2>2 DEF Crash, Fail
<1>10. ASSUME NEW w \in Workers, Claim(w) PROVE Jobs!JobsNext
  <2>1. Drop(Dead \cup (Stale \ stream)) /\ done' = done /\ Dead \cup (Stale \ stream) \in SUBSET Frames
    BY <1>10 DEF Claim, Dead, Stale, Pending
  <2>2. Others(w) /\ worker'[w].frame = worker[w].frame
    BY <1>0, <1>5, <1>10, Moves DEF Claim, Typed, At, Rests
  <2> QED  BY <1>2, <2>1, <2>2, WorkingSame
\* A frame is given out that is open.
<1>11. ASSUME NEW w \in Workers, NEW f \in Frames, Takes(w, f), Others(w), f \in Own(w) \cup Unread,
              worker[w].frame = NoFrame, UNCHANGED <<fate, done>>
       PROVE  Jobs!JobsNext
  <2>1. fate[f] = "open"
    BY <1>11 DEF IInv, Standing, Own, Pending
  <2>2. Working' = [Working EXCEPT ![w] = f] /\ Working[w] = NoFrame
    BY <1>11, WorkingSame DEF Takes, Working
  <2>3. Jobs!Give(w, f)
    BY <1>11, <2>1, <2>2 DEF Jobs!Give, Working
  <2> QED  BY <2>3 DEF Jobs!JobsNext
<1>12. ASSUME NEW w \in Workers, Read(w) \/ Wake(w) PROVE [Jobs!JobsNext]_(Jobs!jobVars)
  <2>1. worker[w].frame = NoFrame /\ UNCHANGED <<fate, done>>
    BY <1>5, <1>12 DEF Read, Wake, At
  <2>2. WorkerStep(w)
    <3>1. Effect
      BY <1>0, <1>12, ReadEffect, WakeEffect
    <3> QED  BY <3>1 DEF Effect
  <2>3. \A v \in Workers \ {w} : worker'[v] = worker[v]
    BY <1>0, <1>12, PendingTypes, ReceiveTypes, Moves DEF Read, Wake, Typed, Others, Own
  <2>4. CASE worker'[w].frame = NoFrame
    BY <1>3, <2>1, <2>3, <2>4, WorkingSame DEF Others
  <2>5. CASE \E f \in Frames : Takes(w, f) /\ Others(w) /\ f \in Own(w) \cup Unread
    BY <1>11, <2>1, <2>5
  <2> QED  BY <2>1, <2>2, <2>4, <2>5 DEF WorkerStep, Rests, IInv, Placed, At
<1>13. ASSUME NEW w \in Workers, Process(w) PROVE Jobs!JobsNext
  <2>1. Others(w) /\ worker'[w].frame = worker[w].frame /\ worker[w].frame # NoFrame
    BY <1>0, <1>13, Moves DEF Process, Typed, IInv, Placed, At
  <2>2. Working' = Working /\ Working[w] = worker[w].frame
    BY <2>1, WorkingSame DEF Working
  <2>3. Jobs!Process(w)
    BY <1>13, <2>1, <2>2 DEF Jobs!Process, Process, Working
  <2> QED  BY <2>3 DEF Jobs!JobsNext
<1>14. ASSUME NEW w \in Workers, Acknowledge(w) PROVE Jobs!JobsNext
  <2>1. worker[w].frame \in done /\ Others(w) /\ worker'[w].frame = NoFrame
    BY <1>0, <1>14, Moves DEF Acknowledge, Typed, IInv, Placed, Rests
  <2>2. Working' = [Working EXCEPT ![w] = NoFrame] /\ Working[w] = worker[w].frame
    BY <2>1, WorkingSame DEF Working
  <2>3. Jobs!Settle(w)
    BY <1>14, <2>1, <2>2 DEF Jobs!Settle, Acknowledge, Working
  <2> QED  BY <2>3 DEF Jobs!JobsNext
<1>15. CASE UNCHANGED vars
  BY <1>3, <1>15 DEF vars, Working
<1> QED  BY <1>1, <1>6, <1>7, <1>8, <1>9, <1>10, <1>12, <1>13, <1>14, <1>15 DEF Next, Loop

\* The consumer group implements FrameJobs: a frame is given out only while it is
\* open, and acknowledged only when it was processed.
THEOREM Implements == Spec => ImplementsFrameJobs
<1>1. Init => Jobs!JobsInit
  BY OffType DEF Init, Jobs!JobsInit
<1> QED  BY <1>1, Invariance, StepImplements, PTL DEF Spec, ImplementsFrameJobs, Jobs!JobsSpec

=============================================================================
